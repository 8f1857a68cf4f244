---------------------------- MODULE PlannerProofs ----------------------------
(***************************************************************************)
(* What PlannerSession guarantees for every number of workers, every       *)
(* startup concurrency and any number of faults: the processes are retired *)
(* before values escape, host, planner and workers stay in step, a         *)
(* parallel answer stands for a complete session, and clocks alone cause a *)
(* serial replay only before the planner is started.                       *)
(*                                                                         *)
(* The four come from one inductive invariant, because each needs the      *)
(* others: whether a missing reply means a fault depends on how far the    *)
(* worker got, that depends on which commands exist, and the commands on   *)
(* what the host accepted.                                                 *)
(***************************************************************************)
EXTENDS PlannerSession, FiniteSetTheorems, TLAPS

Finished(n) == n \in 1..Len(commands) /\ commands[n] = "finish"

(* The commands are the accepted stages and at most one more; the planner  *)
(* has answered all that the host accepted.                                *)
CommandsInv ==
    /\ Len(stages) <= Len(commands) /\ Len(commands) <= Len(stages) + 1
    /\ \A i \in 1..Len(stages) : commands[i] # "finish"
    /\ replies = seen /\ Len(stages) <= seen /\ seen <= Len(commands)
    /\ Finished(Len(stages) + 1) => seen = Len(stages)
    /\ hpc \in {"planning", "starting"} => commands = stages
    /\ hpc = "starting" => ppc = "absent"
    /\ hpc = "waiting" => commands \in Seq(Kinds)
    /\ hpc = "finishing" => commands = Append(stages, "finish")
    /\ ppc = "absent" => commands = <<>> /\ hpc \notin {"waiting", "finishing"}

(* What the planner is doing fits the next command; workers are told of no *)
(* later one.                                                              *)
DispatchInv ==
    /\ ppc \in {"dispatching", "admitting", "collecting"} =>
           seen < Len(commands) /\ ~Finished(seen + 1)
    /\ ppc = "joining" => Finished(seen + 1)
    /\ \A w \in Workers : wcommands[w] <= seen + 1
                          /\ wcommands[w] <= Len(commands)
    /\ ppc = "collecting" => \A w \in Workers : w < at => seen < wseen[w]
    /\ ppc = "absent" => at = 1 /\ \A w \in Workers : wpc[w] = "absent"
    /\ ppc = "spawning" => \A w \in Workers : w < at <=> wpc[w] # "absent"
    /\ ppc \in {"waiting", "dispatching", "admitting", "collecting", "joining"}
           => \A w \in Workers : wpc[w] # "absent"

(* A worker is within the stage it was told to do; a result says how it    *)
(* ended.                                                                  *)
WorkerInv(w) ==
    /\ seen <= wseen[w] /\ wseen[w] <= wcommands[w]
    /\ wreplies[w] = wseen[w]
    /\ wseen[w] <= admitted[w] /\ admitted[w] <= wcommands[w]
    /\ wpc[w] \in {"starting", "running"} => wseen[w] < wcommands[w]
    /\ wpc[w] = "running" => admitted[w] = wseen[w] + 1
    /\ wpc[w] \in {"absent", "waiting", "starting", "running"} =>
           wresult[w] = "none"
    /\ wpc[w] \in {"leaving", "ended"} => wresult[w] # "none"
    /\ wresult[w] = "passed" => Finished(wseen[w] + 1)
    /\ wresult[w] = "declined" => faults > 0
    /\ wpc[w] = "killed" =>
           faults > 0 \/ ppc \in {"reporting", "leaving", "ended", "killed"}

Passed(w) == wresult[w] = "passed" /\ wpc[w] = "ended" /\ wseen[w] = seen

AllPassed == Finished(seen + 1) /\ \A w \in Workers : Passed(w)

(* What the planner reports, or is about to, is true. *)
VerdictInv ==
    /\ ppc = "joining" => \A w \in Workers : w < at => Passed(w)
    /\ ppc \in {"retiring", "reporting", "leaving", "ended"} =>
           /\ verdict = "passed" => AllPassed
           /\ verdict = "declined" => faults > 0
    /\ ppc \in {"leaving", "ended"} => presult = verdict
    /\ presult # "none" => ppc \in {"leaving", "ended", "killed"}
    /\ presult = "passed" => AllPassed
    /\ presult = "declined" => faults > 0

Complete ==
    \/ ppc = "absent" /\ stages = <<>>
    \/ /\ presult = "passed" /\ ppc = "ended"
       /\ commands = Append(stages, "finish") /\ AllPassed

Retired == {"verifying", "declined", "replaying", "done"}

(* What the host concludes is true. *)
HostInv ==
    /\ outcome = "none" <=> hpc # "done"
    /\ outcome = "parallel" => AllGone /\ Complete
    /\ outcome = "serial" => AllGone
    /\ hpc = "verifying" => AllGone /\ Complete
    /\ hpc \in {"declined", "replaying"} =>
           AllGone /\ (faults > 0 \/ (ppc = "absent" /\ "host" \in expired))
    /\ hpc = "closing" =>
           /\ why # "none"
           /\ why = "accepted" => Complete
           /\ why = "declined" =>
                  faults > 0 \/ (ppc = "absent" /\ "host" \in expired)
    /\ ppc = "killed" => faults > 0 \/ hpc \in Retired

IInv ==
    /\ TypeOK /\ CommandsInv /\ DispatchInv
    /\ \A w \in Workers : WorkerInv(w)
    /\ VerdictInv /\ HostInv

-----------------------------------------------------------------------------
(* Steps that leave a part of the state alone. *)

(* A host step that writes no command and starts or ends no process.  *)
LEMMA HostQuiet ==
    ASSUME IInv,
           UNCHANGED <<commands, revoked, plannerVars, workerVars, clocks>>,
           faults' = faults \/ Fault
    PROVE  /\ PlannerTypes' /\ WorkerTypes' /\ OtherTypes'
           /\ DispatchInv' /\ (\A w \in Workers : WorkerInv(w))' /\ VerdictInv'
<1> USE DEF IInv, TypeOK, plannerVars, workerVars, clocks
<1>1. OtherTypes' /\ faults <= faults'
  BY ConstantsAssumption DEF OtherTypes, Fault
<1>2. PlannerTypes' /\ WorkerTypes'
  BY DEF PlannerTypes, WorkerTypes
<1>3. DispatchInv'
  BY DEF DispatchInv, Finished
<1>4. (\A w \in Workers : WorkerInv(w))'
  BY <1>1 DEF WorkerInv, Finished, OtherTypes
<1>5. VerdictInv'
  BY <1>1 DEF VerdictInv, AllPassed, Passed, Finished, OtherTypes
<1> QED
  BY <1>1, <1>2, <1>3, <1>4, <1>5

LEMMA PlannerQuiet ==
    ASSUME IInv, UNCHANGED <<hostVars, commands, clocks>>,
           faults' = faults \/ Fault
    PROVE  HostTypes' /\ OtherTypes'
BY ConstantsAssumption
   DEF IInv, TypeOK, HostTypes, OtherTypes, Fault, hostVars, clocks

LEMMA WorkerQuiet ==
    ASSUME IInv, UNCHANGED <<hostVars, commands, plannerVars, clocks>>,
           faults' = faults \/ Fault
    PROVE  HostTypes' /\ PlannerTypes' /\ OtherTypes' /\ CommandsInv'
BY ConstantsAssumption
   DEF IInv, TypeOK, HostTypes, PlannerTypes, OtherTypes, Fault, CommandsInv,
       Finished, hostVars, plannerVars, clocks

-----------------------------------------------------------------------------
(* The steps of the host. *)

LEMMA HostInductive ==
    ASSUME IInv, HostStep \/ HostFault
    PROVE  IInv'
<1> USE ConstantsAssumption DEF IInv, TypeOK, hostVars, plannerVars,
        workerVars, clocks
<1>1. ASSUME NEW kind \in Kinds, SubmitStage(kind) PROVE IInv'
  <2>1. HostTypes'
    BY <1>1 DEF SubmitStage, HostTypes, HostStates
  <2>2. PlannerTypes'
    BY <1>1 DEF SubmitStage, PlannerTypes, PlannerStates
  <2>3. WorkerTypes'
    BY <1>1 DEF SubmitStage, WorkerTypes
  <2>4. CommandsInv'
    BY <1>1 DEF SubmitStage, CommandsInv, HostTypes, PlannerTypes
  <2>5. (\A v \in Workers : WorkerInv(v))'
    BY <1>1 DEF SubmitStage, WorkerInv, Finished
  <2>6. VerdictInv'
    BY <1>1 DEF SubmitStage, VerdictInv, Passed, AllPassed, Finished
  <2>7. HostInv'
    BY <1>1 DEF SubmitStage, HostInv, Retired
  <2>8. DispatchInv'
    <3>1. /\ Len(commands') = Len(commands) + 1
          /\ \A i \in 1..Len(commands) : commands'[i] = commands[i]
      BY <1>1 DEF SubmitStage, HostTypes
    <3> QED
      BY <1>1, <3>1 DEF SubmitStage, DispatchInv, Finished, HostTypes,
         PlannerTypes, WorkerTypes
  <2> QED
    BY <1>1, <2>1, <2>2, <2>3, <2>4, <2>5, <2>6, <2>7, <2>8
       DEF SubmitStage, OtherTypes
<1>2. CASE ReadReply
  <2>1. HostTypes' /\ HostInv'
    BY <1>2
       DEF ReadReply, HostTypes, CommandsInv, HostInv, HostStates,
           PlannerStates, WorkerStates, Retired
  <2>2. CommandsInv'
    <3>1. stages' = commands /\ commands' = commands /\ hpc' = "planning"
          /\ seen' = seen /\ replies' = replies /\ ppc' = ppc
          /\ commands \in Seq(Kinds) /\ seen = Len(commands)
      BY <1>2 DEF ReadReply, CommandsInv
    <3>2. \A i \in 1..Len(commands) : commands[i] # "finish"
      BY <3>1 DEF Kinds
    <3> QED
      BY <1>2, <3>1, <3>2 DEF ReadReply, CommandsInv, Finished, HostTypes
  <2> QED
    BY <1>2, <2>1, <2>2, HostQuiet DEF ReadReply
<1>3. CASE PlannerEndedBeforeReply
  <2>1. HostTypes' /\ CommandsInv'
    BY <1>3
       DEF PlannerEndedBeforeReply, HostTypes, CommandsInv, Retiring, Judged,
           HostStates, Finished
  <2>2. HostInv'
    <3>1. presult # "passed"
      <4>1. commands \in Seq(Kinds)
        BY <1>3 DEF PlannerEndedBeforeReply, CommandsInv
      <4>2. ~Finished(seen + 1)
        BY <4>1 DEF Finished, Kinds
      <4> QED
        BY <4>2 DEF VerdictInv, AllPassed
    <3>2. presult \in {"none", "declined"} => faults > 0
      BY <1>3
         DEF PlannerEndedBeforeReply, Gone, CommandsInv, VerdictInv, HostInv,
             Retired, PlannerTypes, Statuses, Terminal
    <3> QED
      BY <1>3, <3>1, <3>2
         DEF PlannerEndedBeforeReply, Retiring, Judged, HostInv, Retired,
             PlannerTypes, Statuses, Terminal
  <2> QED
    BY <1>3, <2>1, <2>2, HostQuiet DEF PlannerEndedBeforeReply, Retiring
<1>4. CASE Finish
  <2>1. HostTypes'
    BY <1>4 DEF Finish, HostTypes, Retiring, HostStates
  <2>2. PlannerTypes'
    BY <1>4 DEF Finish, PlannerTypes, Retiring
  <2>3. WorkerTypes'
    BY <1>4 DEF Finish, WorkerTypes, Retiring
  <2>4. (\A v \in Workers : WorkerInv(v))'
    BY <1>4 DEF Finish, WorkerInv, Retiring, Finished
  <2>5. VerdictInv'
    BY <1>4 DEF Finish, VerdictInv, Retiring, Passed, AllPassed, Finished
  <2>6. CommandsInv'
    <3>1. CASE ppc = "absent"
      BY <1>4, <3>1 DEF Finish, Retiring, CommandsInv, Finished
    <3>2. CASE ppc # "absent"
      <4>1. /\ commands' = Append(commands, "finish") /\ hpc' = "finishing"
            /\ commands = stages /\ UNCHANGED <<stages, seen, replies, ppc>>
        BY <1>4, <3>2 DEF Finish, CommandsInv
      <4>2. /\ Len(commands') = Len(stages) + 1 /\ Len(stages) \in Nat
            /\ \A i \in 1..Len(stages) : commands'[i] = commands[i]
        BY <4>1 DEF HostTypes
      <4> QED
        BY <3>2, <4>1, <4>2 DEF CommandsInv, Finished, PlannerTypes
    <3> QED
      BY <3>1, <3>2
  <2>7. DispatchInv'
    <3>1. CASE ppc = "absent"
      BY <1>4, <3>1 DEF Finish, Retiring, DispatchInv, Finished
    <3>2. CASE ppc # "absent"
      <4>1. /\ Len(commands') = Len(commands) + 1
            /\ \A i \in 1..Len(commands) : commands'[i] = commands[i]
        BY <1>4, <3>2 DEF Finish, HostTypes
      <4> QED
        BY <1>4, <3>2, <4>1 DEF Finish, DispatchInv, Finished, HostTypes,
           PlannerTypes, WorkerTypes
    <3> QED
      BY <3>1, <3>2
  <2>8. HostInv'
    <3>1. CASE ppc = "absent"
      BY <1>4, <3>1
         DEF Finish, Retiring, CommandsInv, HostInv, Retired, Complete
    <3>2. CASE ppc # "absent"
      BY <1>4, <3>2 DEF Finish, HostInv, Retired
    <3> QED
      BY <3>1, <3>2
  <2> QED
    BY <1>4, <2>1, <2>2, <2>3, <2>4, <2>5, <2>6, <2>7, <2>8
       DEF Finish, OtherTypes
<1>5. CASE JoinPlanner
  <2>1. HostTypes' /\ CommandsInv'
    BY <1>5
       DEF JoinPlanner, HostTypes, CommandsInv, Retiring, Covered, Judged,
           HostStates, Finished
  <2>2. HostInv'
    <3>1. /\ presult = "declined" => faults > 0
          /\ ppc = "killed" => faults > 0
          /\ ppc \in {"ended", "killed"}
      BY <1>5 DEF JoinPlanner, VerdictInv, HostInv, Retired, CommandsInv, Gone
    <3>2. presult = "passed" => AllPassed /\ Covered
      <4> SUFFICES ASSUME presult = "passed" PROVE AllPassed /\ Covered
        OBVIOUS
      <4>1. AllPassed
        BY DEF VerdictInv
      <4>2. seen = Len(stages)
        BY <1>5, <4>1
           DEF JoinPlanner, AllPassed, Finished, CommandsInv, HostTypes,
               PlannerTypes
      <4> QED
        BY <4>1, <4>2 DEF AllPassed, Passed, Covered
    <3>3. presult = "passed" /\ ppc = "ended" => Complete
      BY <1>5, <3>2 DEF JoinPlanner, CommandsInv, Complete
    <3>4. Complete => Complete'
      BY <1>5 DEF JoinPlanner, Complete, AllPassed, Passed, Finished
    <3> QED
      BY <1>5, <3>1, <3>2, <3>3, <3>4
         DEF JoinPlanner, Retiring, Judged, HostInv, Retired, PlannerTypes,
             Statuses, Terminal
  <2> QED
    BY <1>5, <2>1, <2>2, HostQuiet DEF JoinPlanner, Retiring
<1>6. CASE PlannerEndedBeforeResult
  <2>1. HostTypes' /\ CommandsInv'
    BY <1>6
       DEF PlannerEndedBeforeResult, HostTypes, CommandsInv, Retiring,
           HostStates, Finished
  <2>2. HostInv'
    <3>1. faults > 0
      BY <1>6
         DEF PlannerEndedBeforeResult, Gone, CommandsInv, VerdictInv, HostInv,
             Retired, PlannerTypes, Statuses, Terminal
    <3> QED
      BY <1>6, <3>1 DEF PlannerEndedBeforeResult, Retiring, HostInv, Retired
  <2> QED
    BY <1>6, <2>1, <2>2, HostQuiet DEF PlannerEndedBeforeResult, Retiring
<1>7. CASE HostStops
  <2>1. HostTypes' /\ CommandsInv' /\ HostInv'
    BY <1>7
       DEF HostStops, HostTypes, CommandsInv, HostInv, Retiring, HostStates,
           Finished, Retired
  <2> QED
    BY <1>7, <2>1, HostQuiet DEF HostStops, Retiring
<1>8. CASE Close
  <2>1. HostTypes' /\ PlannerTypes' /\ WorkerTypes'
    BY <1>8
       DEF Close, HostTypes, PlannerTypes, WorkerTypes, Terminated,
           HostStates, PlannerStates, WorkerStates, Kill, Gone
  <2>2. CommandsInv' /\ DispatchInv' /\ VerdictInv'
    BY <1>8
       DEF Close, CommandsInv, DispatchInv, VerdictInv, Terminated, Finished,
           Passed, AllPassed, Kill, Gone
  <2>3. (\A v \in Workers : WorkerInv(v))'
    BY <1>8
       DEF Close, WorkerInv, DispatchInv, Terminated, Finished, Kill, Gone
  <2>4. HostInv'
    BY <1>8
       DEF Close, HostInv, HostTypes, Terminated, AllGone, Complete, Retired,
           Kill, Gone, AllPassed, Finished, Passed
  <2> QED
    BY <1>8, <2>1, <2>2, <2>3, <2>4 DEF Close, OtherTypes
<1>9. CASE Accept
  <2>1. HostTypes' /\ CommandsInv' /\ HostInv'
    BY <1>9
       DEF Accept, HostTypes, CommandsInv, HostInv, HostStates, Finished,
           AllGone, Complete, Gone, AllPassed, Passed
  <2> QED
    BY <1>9, <2>1, HostQuiet DEF Accept
<1>10. CASE DeclineStands
  <2>1. HostTypes' /\ CommandsInv' /\ HostInv'
    BY <1>10
       DEF DeclineStands, HostTypes, CommandsInv, HostInv, HostStates,
           Finished, AllGone, Gone
  <2> QED
    BY <1>10, <2>1, HostQuiet DEF DeclineStands
<1>11. CASE Replayed
  <2>1. HostTypes' /\ CommandsInv' /\ HostInv'
    BY <1>11
       DEF Replayed, HostTypes, CommandsInv, HostInv, HostStates, Finished,
           AllGone, Gone
  <2> QED
    BY <1>11, <2>1, HostQuiet DEF Replayed
<1>12. CASE StopsAfterRetirement
  <2>1. HostTypes' /\ CommandsInv' /\ HostInv'
    BY <1>12
       DEF StopsAfterRetirement, HostTypes, CommandsInv, HostInv, HostStates,
           Finished, Complete
  <2> QED
    BY <1>12, <2>1, HostQuiet DEF StopsAfterRetirement
<1>13. CASE HostRefuses
  <2>1. HostTypes' /\ CommandsInv' /\ HostInv'
    BY <1>13
       DEF HostRefuses, HostTypes, CommandsInv, HostInv, OtherTypes, Fault,
           Retiring, HostStates, Finished, Clocks
  <2> QED
    BY <1>13, <2>1, HostQuiet DEF HostRefuses, Fault, Retiring
<1>14. CASE CloseFails
  <2>1. HostTypes' /\ CommandsInv' /\ HostInv'
    BY <1>14
       DEF CloseFails, HostTypes, CommandsInv, HostInv, HostStates, Finished,
           Retired
  <2> QED
    BY <1>14, <2>1, HostQuiet DEF CloseFails, Fault
<1>15. CASE SampleMismatch
  <2>1. HostTypes' /\ CommandsInv' /\ HostInv'
    BY <1>15
       DEF SampleMismatch, HostTypes, CommandsInv, HostInv, OtherTypes, Fault,
           HostStates, Finished, AllGone, Clocks, Gone
  <2> QED
    BY <1>15, <2>1, HostQuiet DEF SampleMismatch, Fault
<1>16. CASE BeginSession
  <2>1. HostTypes' /\ CommandsInv' /\ HostInv'
    BY <1>16
       DEF BeginSession, HostTypes, CommandsInv, HostInv, HostStates,
           Finished, Retired
  <2> QED
    BY <1>16, <2>1, HostQuiet DEF BeginSession
<1>17. CASE StartPlanner
  <2>1. HostTypes' /\ PlannerTypes' /\ WorkerTypes' /\ OtherTypes'
    BY <1>17
       DEF StartPlanner, HostTypes, PlannerTypes, WorkerTypes, OtherTypes,
           HostStates, PlannerStates
  <2>2. CommandsInv' /\ VerdictInv' /\ HostInv'
    BY <1>17
       DEF StartPlanner, CommandsInv, VerdictInv, HostInv, Finished, AllPassed,
           Passed, Retired
  <2>3. DispatchInv'
    BY <1>17
       DEF StartPlanner, CommandsInv, DispatchInv, Finished, Workers
  <2>4. (\A v \in Workers : WorkerInv(v))'
    BY <1>17 DEF StartPlanner, CommandsInv, DispatchInv, WorkerInv, Finished
  <2> QED
    BY <2>1, <2>2, <2>3, <2>4
<1>18. CASE NoTimeToStart
  <2>1. HostTypes' /\ CommandsInv' /\ HostInv'
    BY <1>18
       DEF NoTimeToStart, HostTypes, CommandsInv, HostInv, Retiring,
           HostStates, Finished, Retired
  <2> QED
    BY <1>18, <2>1, HostQuiet DEF NoTimeToStart, Retiring
<1> QED
  BY <1>1, <1>2, <1>3, <1>4, <1>5, <1>6, <1>7, <1>8, <1>9, <1>10, <1>11,
     <1>12, <1>13, <1>14, <1>15, <1>16, <1>17, <1>18
     DEF HostStep, HostFault

-----------------------------------------------------------------------------
(* The steps of the planner. *)

LEMMA PlannerInductive ==
    ASSUME IInv, PlannerStep \/ PlannerFault
    PROVE  IInv'
<1> USE ConstantsAssumption DEF IInv, TypeOK, hostVars, plannerVars,
        workerVars, clocks
<1>1. CASE SpawnWorker
  <2>1. PlannerTypes'
    BY <1>1 DEF SpawnWorker, PlannerTypes, PlannerStates, Workers
  <2>2. WorkerTypes'
    BY <1>1
       DEF SpawnWorker, PlannerTypes, WorkerTypes, DispatchInv, HostStates,
           PlannerStates, WorkerStates
  <2>3. CommandsInv'
    BY <1>1 DEF SpawnWorker, CommandsInv, Finished
  <2>4. VerdictInv'
    BY <1>1 DEF SpawnWorker, VerdictInv
  <2>5. HostInv'
    BY <1>1 DEF SpawnWorker, HostInv, AllGone, Complete, Gone, Finished
  <2>6. DispatchInv'
    <3>1. ppc = "spawning" /\ at \in Workers
          /\ UNCHANGED <<commands, seen, wcommands, wseen>>
          /\ \A v \in Workers : v <= at <=> wpc'[v] # "absent"
      BY <1>1 DEF SpawnWorker, DispatchInv, PlannerTypes, WorkerTypes, Workers
    <3>2. CASE at = NumWorkers
      BY <1>1, <3>1, <3>2 DEF SpawnWorker, DispatchInv, Finished, Workers
    <3>3. CASE at # NumWorkers
      BY <1>1, <3>1, <3>3 DEF SpawnWorker, DispatchInv, Finished, Workers
    <3> QED
      BY <3>2, <3>3
  <2>7. (\A v \in Workers : WorkerInv(v))'
    <3>1. wpc[at] = "absent"
      BY <1>1 DEF SpawnWorker, DispatchInv, PlannerTypes, Workers
    <3> SUFFICES ASSUME NEW v \in Workers PROVE WorkerInv(v)'
      OBVIOUS
    <3>2. CASE v = at
      BY <1>1, <3>1, <3>2 DEF SpawnWorker, WorkerInv, Finished, WorkerTypes
    <3>3. CASE v # at
      BY <1>1, <3>3 DEF SpawnWorker, WorkerInv, Finished, WorkerTypes
    <3> QED
      BY <3>2, <3>3
  <2> QED
    BY <1>1, <2>1, <2>2, <2>3, <2>4, <2>5, <2>6, <2>7, PlannerQuiet
       DEF SpawnWorker
<1>2. CASE TakeCommand
  <2>1. PlannerTypes' /\ CommandsInv' /\ VerdictInv' /\ HostInv'
    BY <1>2
       DEF TakeCommand, PlannerTypes, CommandsInv, VerdictInv, HostInv,
           Workers, PlannerStates, Finished, AllGone, Complete, Gone
  <2>2. WorkerTypes'
    <3>1. wcommands' = wcommands \/ wcommands' = [w \in Workers |-> seen + 1]
      BY <1>2 DEF TakeCommand
    <3> QED
      BY <1>2, <3>1 DEF TakeCommand, WorkerTypes, PlannerTypes
  <2>3. DispatchInv'
    <3>1. /\ ppc = "waiting" /\ seen < Len(commands) /\ at' = 1
          /\ UNCHANGED <<commands, seen, wpc, wseen>>
      BY <1>2 DEF TakeCommand
    <3>2. CASE commands[seen + 1] = "finish"
      BY <1>2, <3>1, <3>2
         DEF TakeCommand, DispatchInv, Finished, PlannerTypes, HostTypes
    <3>3. CASE commands[seen + 1] # "finish"
      BY <1>2, <3>1, <3>3
         DEF TakeCommand, DispatchInv, Finished, PlannerTypes, HostTypes
    <3> QED
      BY <3>2, <3>3
  <2>4. (\A v \in Workers : WorkerInv(v))'
    <3> SUFFICES ASSUME NEW v \in Workers PROVE WorkerInv(v)'
      OBVIOUS
    <3>1. wcommands[v] <= wcommands'[v] /\ wcommands'[v] \in Nat
      BY <1>2 DEF TakeCommand, DispatchInv, PlannerTypes, WorkerTypes
    <3>2. ppc = "waiting" /\ ppc' \in {"joining", "dispatching"}
          /\ UNCHANGED <<commands, seen, wpc, wseen, admitted, wreplies,
                         wresult, faults>>
      BY <1>2 DEF TakeCommand
    <3> QED
      BY <3>1, <3>2 DEF WorkerInv, Finished, WorkerTypes, PlannerTypes
  <2> QED
    BY <1>2, <2>1, <2>2, <2>3, <2>4, PlannerQuiet DEF TakeCommand
<1>3. CASE Dispatch
  <2>1. PlannerTypes' /\ WorkerTypes' /\ CommandsInv' /\ DispatchInv'
      /\ (\A v \in Workers : WorkerInv(v))' /\ VerdictInv' /\ HostInv'
    BY <1>3
       DEF Dispatch, PlannerTypes, WorkerTypes, WorkerInv, CommandsInv,
           DispatchInv, VerdictInv, HostInv, PlannerStates, HostStates,
           WorkerStates, Finished, Clocks, AllGone, Complete, Gone
  <2> QED
    BY <1>3, <2>1, PlannerQuiet DEF Dispatch
<1>4. CASE Admit
  <2>1. PlannerTypes' /\ WorkerTypes'
    BY <1>4
       DEF Admit, PlannerTypes, WorkerTypes, EndsBatch, PlannerStates,
           Workers, WorkerStates
  <2>2. CommandsInv' /\ DispatchInv' /\ (\A v \in Workers : WorkerInv(v))'
      /\ VerdictInv' /\ HostInv'
    BY <1>4
       DEF Admit, CommandsInv, DispatchInv, WorkerInv, VerdictInv, HostInv,
           Finished, Workers, AllGone, Complete, Gone
  <2> QED
    BY <1>4, <2>1, <2>2, PlannerQuiet DEF Admit
<1>5. CASE Collect
  <2>1. PlannerTypes'
    BY <1>5 DEF Collect, PlannerTypes, PlannerStates, Workers
  <2>2. WorkerTypes'
    BY <1>5 DEF Collect, WorkerTypes, Clocks
  <2>3. VerdictInv'
    BY <1>5 DEF Collect, VerdictInv
  <2>4. HostInv'
    BY <1>5 DEF Collect, HostInv, AllGone, Complete, Gone, Finished
  <2>5. CommandsInv'
    <3>1. seen < Len(commands) /\ ~Finished(seen + 1) /\ seen \in Nat
      BY <1>5 DEF Collect, DispatchInv, PlannerTypes
    <3>2. UNCHANGED <<stages, commands, hpc>> /\ ppc = "collecting"
          /\ ppc' # "absent"
          /\ \/ seen' = seen + 1 /\ replies' = seen + 1
             \/ seen' = seen /\ replies' = replies
      BY <1>5 DEF Collect
    <3> QED
      BY <3>1, <3>2 DEF CommandsInv, Finished, HostTypes
  <2>6. DispatchInv'
    <3>1. ppc = "collecting" /\ seen < wseen[at]
          /\ UNCHANGED <<commands, wcommands, wpc, wseen>>
      BY <1>5 DEF Collect, WorkerInv, PlannerTypes
    <3>2. CASE at = NumWorkers
      BY <1>5, <3>1, <3>2 DEF Collect, DispatchInv, PlannerTypes, WorkerTypes
    <3>3. CASE at # NumWorkers
      BY <1>5, <3>1, <3>3 DEF Collect, DispatchInv, Finished, PlannerTypes,
         WorkerTypes, Workers
    <3> QED
      BY <3>2, <3>3
  <2>7. (\A v \in Workers : WorkerInv(v))'
    <3>1. at = NumWorkers => \A v \in Workers : seen < wseen[v]
      BY <1>5
         DEF Collect, DispatchInv, WorkerInv, PlannerTypes, WorkerTypes,
             Workers
    <3> SUFFICES ASSUME NEW v \in Workers PROVE WorkerInv(v)'
      OBVIOUS
    <3>2. seen' <= wseen[v]
      BY <1>5, <3>1 DEF Collect, WorkerInv, PlannerTypes, WorkerTypes
    <3>3. ppc = "collecting" /\ UNCHANGED <<commands, workerVars, faults>>
      BY <1>5 DEF Collect
    <3> QED
      BY <1>5, <3>2, <3>3 DEF WorkerInv, Finished
  <2> QED
    BY <1>5, <2>1, <2>2, <2>3, <2>4, <2>5, <2>6, <2>7, PlannerQuiet
       DEF Collect
<1>6. CASE WorkerEndedBeforeFile
  <2>1. PlannerTypes' /\ WorkerTypes' /\ CommandsInv' /\ DispatchInv'
      /\ (\A v \in Workers : WorkerInv(v))' /\ HostInv'
    BY <1>6
       DEF WorkerEndedBeforeFile, PlannerTypes, WorkerTypes, WorkerInv,
           CommandsInv, DispatchInv, HostInv, Gone, AwaitedMissing, Abandon,
           Inherited, PlannerStates, Statuses, WorkerStates, Clocks,
           HostStates, Finished, AllGone, Complete, Terminal
  <2>2. VerdictInv'
    <3>1. wresult[at] # "passed"
      <4>1. AwaitedMissing => wseen[at] = seen
        BY <1>6
           DEF WorkerEndedBeforeFile, AwaitedMissing, WorkerInv, PlannerTypes,
               WorkerTypes
      <4> QED
        BY <1>6, <4>1
           DEF WorkerEndedBeforeFile, WorkerInv, DispatchInv, PlannerTypes
    <3>2. wresult[at] \notin Terminal => faults > 0
      BY <1>6, <3>1 DEF WorkerEndedBeforeFile, WorkerInv, DispatchInv, Gone,
         PlannerTypes, WorkerTypes, Statuses
    <3>3. verdict' # "passed" /\ (verdict' = "declined" => faults > 0)
          /\ ppc' = "retiring"
      BY <1>6, <3>1, <3>2
         DEF WorkerEndedBeforeFile, Abandon, Inherited, Terminal
    <3> QED
      BY <1>6, <3>3 DEF WorkerEndedBeforeFile, VerdictInv
  <2> QED
    BY <1>6, <2>1, <2>2, PlannerQuiet DEF WorkerEndedBeforeFile, Abandon
<1>7. CASE JoinWorker
  <2>1. PlannerTypes'
    BY <1>7
       DEF JoinWorker, PlannerTypes, JoinedVerdict, Abandon, PlannerStates,
           Workers, Statuses, Inherited, Terminal
  <2>2. WorkerTypes'
    BY <1>7 DEF JoinWorker, WorkerTypes, Abandon
  <2>3. CommandsInv'
    BY <1>7 DEF JoinWorker, CommandsInv, Abandon, Finished
  <2>4. DispatchInv'
    BY <1>7 DEF JoinWorker, DispatchInv, Abandon, Finished
  <2>5. (\A v \in Workers : WorkerInv(v))'
    BY <1>7 DEF JoinWorker, WorkerInv, Abandon, Finished
  <2>6. HostInv'
    BY <1>7
       DEF JoinWorker, HostInv, Gone, Abandon, AllGone, Complete, Finished
  <2>7. VerdictInv'
    <3>1. ppc = "joining" /\ Finished(seen + 1) /\ wpc[at] \in Gone
          /\ at \in Workers /\ wpc[at] # "absent"
      BY <1>7 DEF JoinWorker, DispatchInv, PlannerTypes
    <3>2. wresult[at] = "passed" => wseen[at] = seen
      BY <3>1 DEF WorkerInv, CommandsInv, Finished, HostTypes, PlannerTypes,
         WorkerTypes
    <3>3. JoinedVerdict(at) = "passed" => Passed(at)
      <4> SUFFICES ASSUME JoinedVerdict(at) = "passed" PROVE Passed(at)
        OBVIOUS
      <4>1. wpc[at] # "killed"
        BY DEF JoinedVerdict
      <4>2. wresult[at] = "passed" /\ wseen[at] = seen
        BY <4>1 DEF JoinedVerdict, Inherited, Terminal
      <4> QED
        BY <3>1, <4>1, <4>2 DEF Passed, Gone
    <3>4. JoinedVerdict(at) = "declined" => faults > 0
      BY <3>1, <3>2 DEF JoinedVerdict, Inherited, Gone, WorkerInv, Terminal,
         Statuses, WorkerTypes
    <3>5. UNCHANGED <<commands, seen, wpc, wseen, wresult, presult, faults>>
      BY <1>7 DEF JoinWorker
    <3>6. CASE JoinedVerdict(at) # "passed"
      BY <1>7, <3>1, <3>4, <3>5, <3>6 DEF JoinWorker, Abandon, VerdictInv
    <3>7. CASE JoinedVerdict(at) = "passed" /\ at = NumWorkers
      <4>1. AllPassed'
        BY <3>1, <3>3, <3>5, <3>7
           DEF VerdictInv, AllPassed, Passed, Finished, Workers
      <4> QED
        BY <1>7, <3>1, <3>5, <3>7, <4>1 DEF JoinWorker, Abandon, VerdictInv
    <3>8. CASE JoinedVerdict(at) = "passed" /\ at # NumWorkers
      <4>1. at' = at + 1 /\ ppc' = "joining"
        BY <1>7, <3>1, <3>8 DEF JoinWorker
      <4> QED
        BY <3>1, <3>3, <3>5, <3>8, <4>1 DEF VerdictInv, Passed, Workers
    <3> QED
      BY <3>6, <3>7, <3>8
  <2> QED
    BY <1>7, <2>1, <2>2, <2>3, <2>4, <2>5, <2>6, <2>7, PlannerQuiet
       DEF JoinWorker, Abandon
<1>8. CASE PlannerExpires
  <2>1. PlannerTypes' /\ WorkerTypes'
    BY <1>8
       DEF PlannerExpires, PlannerTypes, WorkerTypes, HostInv, Abandon,
           PlannerStates, Statuses, HostStates, WorkerStates, Terminal
  <2>2. CommandsInv' /\ DispatchInv' /\ (\A v \in Workers : WorkerInv(v))'
      /\ VerdictInv' /\ HostInv'
    BY <1>8
       DEF PlannerExpires, CommandsInv, DispatchInv, WorkerInv, VerdictInv,
           HostInv, Abandon, Finished, AllGone, Complete, Gone
  <2> QED
    BY <1>8, <2>1, <2>2, PlannerQuiet DEF PlannerExpires, Abandon
<1>9. CASE Retire
  <2>1. PlannerTypes' /\ WorkerTypes'
    BY <1>9
       DEF Retire, PlannerTypes, WorkerTypes, CommandsInv, Kill,
           PlannerStates, HostStates, WorkerStates, Gone
  <2>2. CommandsInv' /\ DispatchInv' /\ (\A v \in Workers : WorkerInv(v))'
      /\ VerdictInv' /\ HostInv'
    BY <1>9
       DEF Retire, CommandsInv, DispatchInv, WorkerInv, VerdictInv, HostInv,
           Kill, Finished, Passed, AllPassed, AllGone, Complete, Gone
  <2> QED
    BY <1>9, <2>1, <2>2, PlannerQuiet DEF Retire
<1>10. CASE Report
  <2>1. PlannerTypes' /\ WorkerTypes'
    BY <1>10
       DEF Report, PlannerTypes, WorkerTypes, PlannerStates, WorkerStates,
           Clocks
  <2>2. CommandsInv' /\ DispatchInv' /\ (\A v \in Workers : WorkerInv(v))'
      /\ VerdictInv' /\ HostInv'
    BY <1>10
       DEF Report, CommandsInv, DispatchInv, WorkerInv, VerdictInv, HostInv,
           Finished, Passed, AllPassed, AllGone, Complete, Gone
  <2> QED
    BY <1>10, <2>1, <2>2, PlannerQuiet DEF Report
<1>11. CASE Leave
  <2>1. PlannerTypes' /\ WorkerTypes'
    BY <1>11 DEF Leave, PlannerTypes, WorkerTypes, PlannerStates, WorkerStates
  <2>2. CommandsInv' /\ DispatchInv' /\ (\A v \in Workers : WorkerInv(v))'
      /\ VerdictInv' /\ HostInv'
    BY <1>11
       DEF Leave, CommandsInv, DispatchInv, WorkerInv, VerdictInv, HostInv,
           Finished, Passed, AllPassed, AllGone, Complete, Gone
  <2> QED
    BY <1>11, <2>1, <2>2, PlannerQuiet DEF Leave
<1>12. CASE PlannerFails
  <2>1. PlannerTypes' /\ WorkerTypes'
    BY <1>12
       DEF PlannerFails, PlannerTypes, WorkerTypes, CommandsInv, Abandon,
           PlannerStates, Statuses, HostStates, WorkerStates, Terminal
  <2>2. CommandsInv' /\ DispatchInv' /\ (\A v \in Workers : WorkerInv(v))'
      /\ VerdictInv' /\ HostInv'
    BY <1>12
       DEF PlannerFails, CommandsInv, DispatchInv, WorkerInv, OtherTypes,
           VerdictInv, HostInv, Gone, Fault, Abandon, Finished, Clocks,
           AllGone, Complete
  <2> QED
    BY <1>12, <2>1, <2>2, PlannerQuiet DEF PlannerFails, Fault, Abandon
<1>13. CASE PlannerKilled
  <2>1. PlannerTypes' /\ WorkerTypes' /\ CommandsInv' /\ DispatchInv'
      /\ (\A v \in Workers : WorkerInv(v))' /\ VerdictInv' /\ HostInv'
    BY <1>13
       DEF PlannerKilled, PlannerTypes, WorkerTypes, CommandsInv, DispatchInv,
           WorkerInv, OtherTypes, VerdictInv, HostInv, Gone, Fault,
           PlannerStates, WorkerStates, Finished, Clocks, Passed, AllPassed,
           AllGone, Complete
  <2> QED
    BY <1>13, <2>1, PlannerQuiet DEF PlannerKilled, Fault
<1>14. CASE RetireFails
  <2>1. PlannerTypes' /\ WorkerTypes'
    BY <1>14
       DEF RetireFails, PlannerTypes, WorkerTypes, WorkerInv, PlannerStates,
           Statuses, HostStates, WorkerStates, Terminal
  <2>2. CommandsInv' /\ DispatchInv' /\ (\A v \in Workers : WorkerInv(v))'
      /\ VerdictInv' /\ HostInv'
    BY <1>14
       DEF RetireFails, CommandsInv, DispatchInv, WorkerInv, OtherTypes,
           VerdictInv, HostInv, Fault, Finished, Clocks, AllGone, Complete,
           Gone
  <2> QED
    BY <1>14, <2>1, <2>2, PlannerQuiet DEF RetireFails, Fault
<1> QED
  BY <1>1, <1>2, <1>3, <1>4, <1>5, <1>6, <1>7, <1>8, <1>9, <1>10, <1>11,
     <1>12, <1>13, <1>14
     DEF PlannerStep, PlannerFault

-----------------------------------------------------------------------------
(* The steps of a worker. *)

LEMMA WorkerInductive ==
    ASSUME IInv, NEW w \in Workers, WorkerStep(w) \/ WorkerFault(w)
    PROVE  IInv'
<1> USE ConstantsAssumption DEF IInv, TypeOK, hostVars, plannerVars,
        workerVars, clocks
<1>1. CASE TakeWork(w)
  <2>1. HostInv'
    BY <1>1
       DEF TakeWork, HostInv, AllGone, Complete, Gone, AllPassed, Finished,
           Passed
  <2>2. WorkerTypes'
    <3>1. CASE commands[wseen[w] + 1] = "finish"
      BY <1>1, <3>1 DEF TakeWork, WorkerTypes, WorkerStates, Statuses
    <3>2. CASE commands[wseen[w] + 1] # "finish"
      BY <1>1, <3>2 DEF TakeWork, WorkerTypes, WorkerStates
    <3> QED
      BY <3>1, <3>2
  <2>3. DispatchInv'
    <3>1. wpc[w] = "waiting" /\ \A v \in Workers : wpc'[v] = "absent"
                                                   <=> wpc[v] = "absent"
      BY <1>1 DEF TakeWork, WorkerTypes
    <3> QED
      BY <1>1, <3>1 DEF TakeWork, DispatchInv, Finished
  <2>4. (\A v \in Workers : WorkerInv(v))'
    <3> SUFFICES ASSUME NEW v \in Workers PROVE WorkerInv(v)'
      OBVIOUS
    <3>1. CASE v # w
      BY <1>1, <3>1 DEF TakeWork, WorkerInv, Finished, WorkerTypes
    <3>2. CASE v = w /\ commands[wseen[w] + 1] = "finish"
      <4>1. Finished(wseen[w] + 1)
        BY <1>1, <3>2
           DEF TakeWork, HasWork, DispatchInv, Finished, WorkerTypes,
               HostTypes
      <4> QED
        BY <1>1, <3>2, <4>1 DEF TakeWork, WorkerInv, Finished, WorkerTypes
    <3>3. CASE v = w /\ commands[wseen[w] + 1] # "finish"
      BY <1>1, <3>3 DEF TakeWork, HasWork, WorkerInv, Finished, WorkerTypes
    <3> QED
      BY <3>1, <3>2, <3>3
  <2>5. VerdictInv'
    <3>1. \A v \in Workers : Passed(v) => Passed(v)'
      BY <1>1 DEF TakeWork, Passed, WorkerTypes
    <3>2. UNCHANGED <<ppc, at, verdict, presult, commands, seen, faults>>
      BY <1>1 DEF TakeWork
    <3> QED
      BY <3>1, <3>2 DEF VerdictInv, AllPassed, Finished
  <2> QED
    BY <1>1, <2>1, <2>2, <2>3, <2>4, <2>5, WorkerQuiet DEF TakeWork
<1>2. CASE StartGate(w)
  <2>1. WorkerTypes'
    BY <1>2 DEF StartGate, WorkerTypes, WorkerStates
  <2>2. DispatchInv' /\ (\A v \in Workers : WorkerInv(v))' /\ VerdictInv'
      /\ HostInv'
    BY <1>2
       DEF StartGate, DispatchInv, WorkerInv, WorkerTypes, VerdictInv,
           HostInv, Finished, Passed, AllPassed, AllGone, Complete, Gone
  <2> QED
    BY <1>2, <2>1, <2>2, WorkerQuiet DEF StartGate
<1>3. CASE RunTasks(w)
  <2>1. WorkerTypes'
    BY <1>3 DEF RunTasks, WorkerTypes, HostStates, PlannerStates, WorkerStates
  <2>2. (\A v \in Workers : WorkerInv(v))' /\ VerdictInv' /\ HostInv'
    BY <1>3
       DEF RunTasks, WorkerInv, PlannerTypes, WorkerTypes, VerdictInv,
           HostInv, Finished, PlannerStates, WorkerStates, Passed, AllPassed,
           AllGone, Complete, Gone
  <2>3. DispatchInv'
    <3>1. \A v \in Workers : /\ wseen[v] <= wseen'[v]
                             /\ wpc'[v] = "absent" <=> wpc[v] = "absent"
      BY <1>3 DEF RunTasks, WorkerTypes
    <3>2. \A v \in Workers : seen < wseen[v] => seen < wseen'[v]
      BY <1>3, <3>1 DEF RunTasks, PlannerTypes, WorkerTypes
    <3> QED
      BY <1>3, <3>1, <3>2 DEF RunTasks, DispatchInv, Finished
  <2> QED
    BY <1>3, <2>1, <2>2, <2>3, WorkerQuiet DEF RunTasks
<1>4. CASE WorkerExpires(w)
  <2>1. WorkerTypes'
    BY <1>4
       DEF WorkerExpires, WorkerTypes, Give, WorkerStates, Statuses, Terminal
  <2>2. DispatchInv' /\ (\A v \in Workers : WorkerInv(v))' /\ VerdictInv'
      /\ HostInv'
    BY <1>4
       DEF WorkerExpires, DispatchInv, WorkerInv, WorkerTypes, VerdictInv,
           HostInv, Give, Finished, PlannerStates, WorkerStates, Passed,
           AllPassed, AllGone, Complete, Gone
  <2> QED
    BY <1>4, <2>1, <2>2, WorkerQuiet DEF WorkerExpires, Give
<1>5. CASE WorkerLeaves(w)
  <2>1. WorkerTypes'
    BY <1>5 DEF WorkerLeaves, WorkerTypes, WorkerStates
  <2>2. DispatchInv' /\ (\A v \in Workers : WorkerInv(v))' /\ VerdictInv'
      /\ HostInv'
    BY <1>5
       DEF WorkerLeaves, DispatchInv, WorkerInv, VerdictInv, HostInv,
           Finished, Passed, AllPassed, AllGone, Complete, Gone
  <2> QED
    BY <1>5, <2>1, <2>2, WorkerQuiet DEF WorkerLeaves
<1>6. CASE OrphanDies(w)
  <2>1. WorkerTypes' /\ DispatchInv' /\ (\A v \in Workers : WorkerInv(v))'
      /\ VerdictInv' /\ HostInv'
    BY <1>6
       DEF OrphanDies, WorkerTypes, DispatchInv, WorkerInv, VerdictInv,
           HostInv, Gone, WorkerStates, Finished, HostStates, PlannerStates,
           Passed, AllPassed, AllGone, Complete
  <2> QED
    BY <1>6, <2>1, WorkerQuiet DEF OrphanDies
<1>7. CASE WorkerFails(w)
  <2>1. WorkerTypes'
    BY <1>7
       DEF WorkerFails, WorkerTypes, Give, WorkerStates, Statuses, Terminal
  <2>2. DispatchInv' /\ (\A v \in Workers : WorkerInv(v))' /\ VerdictInv'
      /\ HostInv'
    BY <1>7
       DEF WorkerFails, DispatchInv, WorkerInv, OtherTypes, WorkerTypes,
           VerdictInv, HostInv, Fault, Give, Finished, Clocks, PlannerStates,
           WorkerStates, Passed, AllPassed, AllGone, Complete, Gone
  <2> QED
    BY <1>7, <2>1, <2>2, WorkerQuiet DEF WorkerFails, Fault, Give
<1>8. CASE WorkerKilled(w)
  <2>1. WorkerTypes'
    BY <1>8 DEF WorkerKilled, WorkerTypes, WorkerStates
  <2>2. DispatchInv' /\ (\A v \in Workers : WorkerInv(v))' /\ VerdictInv'
      /\ HostInv'
    BY <1>8
       DEF WorkerKilled, DispatchInv, WorkerInv, OtherTypes, VerdictInv,
           HostInv, Gone, Fault, Finished, Clocks, Passed, AllPassed, AllGone,
           Complete
  <2> QED
    BY <1>8, <2>1, <2>2, WorkerQuiet DEF WorkerKilled, Fault
<1> QED
  BY <1>1, <1>2, <1>3, <1>4, <1>5, <1>6, <1>7, <1>8
     DEF WorkerStep, WorkerFault

-----------------------------------------------------------------------------
(* The theorems. *)

LEMMA InitInv == Init => IInv
<1> SUFFICES ASSUME Init PROVE IInv
  OBVIOUS
<1> USE ConstantsAssumption DEF Init
<1>1. HostTypes /\ PlannerTypes /\ WorkerTypes /\ OtherTypes
  BY DEF HostTypes, PlannerTypes, WorkerTypes, OtherTypes, HostStates,
         PlannerStates, WorkerStates, Statuses, Workers
<1>2. CommandsInv
  BY DEF CommandsInv, Finished
<1>3. DispatchInv /\ \A w \in Workers : WorkerInv(w)
  BY DEF DispatchInv, WorkerInv, Finished, Workers
<1>4. VerdictInv /\ HostInv
  BY DEF VerdictInv, HostInv, Retired
<1> QED
  BY <1>1, <1>2, <1>3, <1>4 DEF IInv, TypeOK

LEMMA NextInv == IInv /\ [Next]_vars => IInv'
<1> SUFFICES ASSUME IInv, [Next]_vars PROVE IInv'
  OBVIOUS
<1>1. CASE HostStep \/ HostFault
  BY <1>1, HostInductive
<1>2. CASE PlannerStep \/ PlannerFault
  BY <1>2, PlannerInductive
<1>3. ASSUME NEW w \in Workers, WorkerStep(w) \/ WorkerFault(w) PROVE IInv'
  BY <1>3, WorkerInductive
<1>4. ASSUME UNCHANGED <<hpc, why, outcome, stages, commands, plannerVars,
                         workerVars, faults>>,
             OtherTypes', expired \subseteq expired'
      PROVE  IInv'
  <2> USE <1>4 DEF IInv, TypeOK, plannerVars, workerVars
  <2>1. HostTypes' /\ PlannerTypes' /\ WorkerTypes'
    BY DEF HostTypes, PlannerTypes, WorkerTypes
  <2>2. CommandsInv' /\ DispatchInv'
    BY DEF CommandsInv, DispatchInv, Finished
  <2>3. (\A w \in Workers : WorkerInv(w))'
    BY DEF WorkerInv, Finished
  <2>4. VerdictInv'
    BY DEF VerdictInv, AllPassed, Passed, Finished
  <2>5. HostInv'
    BY DEF HostInv, Complete, AllPassed, Passed, Finished, AllGone
  <2> QED
    BY <2>1, <2>2, <2>3, <2>4, <2>5
<1>5. CASE Revoke
  BY <1>4, <1>5 DEF Revoke, IInv, TypeOK, OtherTypes, clocks
<1>6. ASSUME NEW clock \in Clocks, Expire(clock) PROVE IInv'
  BY <1>4, <1>6 DEF Expire, IInv, TypeOK, OtherTypes, hostVars
<1>7. ASSUME NEW w \in Workers, ExpireWorker(w) PROVE IInv'
  BY <1>4, <1>7 DEF ExpireWorker, IInv, TypeOK, OtherTypes, hostVars
<1>8. CASE UNCHANGED vars
  BY <1>4, <1>8 DEF vars, IInv, TypeOK, OtherTypes, hostVars, clocks
<1>9. CASE Over
  BY <1>8, <1>9 DEF Over
<1> QED
  BY <1>1, <1>2, <1>3, <1>5, <1>6, <1>7, <1>8, <1>9 DEF Next

LEMMA Invariance == Spec => []IInv
BY InitInv, NextInv, PTL DEF Spec

(* "The producer must finish before either results or serial replay        *)
(* escape": whichever process fails, hangs or is killed, none is alive     *)
(* when the host verifies, replays or answers with values.                 *)
THEOREM ProcessesRetired == Spec => []RetiredBeforeOutcome
<1>1. IInv => RetiredBeforeOutcome
  BY DEF IInv, HostInv, RetiredBeforeOutcome
<1> QED
  BY <1>1, Invariance, PTL

(* The host uses parallel values only of a session whose planner and       *)
(* workers all came to their own end after exactly the accepted stages.    *)
THEOREM ParallelAnswersComplete == Spec => []AcceptedIsComplete
<1>1. IInv => AcceptedIsComplete
  <2> SUFFICES ASSUME IInv, hpc = "verifying" \/ outcome = "parallel",
                      ~(ppc = "absent" /\ stages = <<>>)
               PROVE  /\ presult = "passed" /\ ppc = "ended"
                      /\ commands = Append(stages, "finish")
                      /\ \A w \in Workers :
                             /\ wresult[w] = "passed" /\ wpc[w] = "ended"
                             /\ wreplies[w] = Len(stages)
    BY DEF AcceptedIsComplete
  <2>1. /\ presult = "passed" /\ ppc = "ended"
        /\ commands = Append(stages, "finish") /\ AllPassed
    BY DEF IInv, HostInv, Complete
  <2>2. seen = Len(stages)
    <3>1. Len(commands) = Len(stages) + 1 /\ Finished(Len(stages) + 1)
      BY <2>1 DEF IInv, TypeOK, HostTypes, Finished
    <3> QED
      BY <3>1 DEF IInv, CommandsInv
  <2> QED
    BY <2>1, <2>2 DEF IInv, WorkerInv, AllPassed, Passed
<1> QED
  BY <1>1, Invariance, PTL

(* Host, planner and every worker stay within one stage of each other, and *)
(* nobody answers a command it was not given.                              *)
THEOREM SessionInLockstep == Spec => []Lockstep
<1>1. IInv => Lockstep
  <2> SUFFICES ASSUME IInv PROVE Lockstep
    OBVIOUS
  <2>1. \A w \in Workers : /\ seen <= wseen[w] /\ wseen[w] <= seen + 1
                           /\ wseen[w] <= admitted[w]
                           /\ admitted[w] <= wcommands[w]
                           /\ wcommands[w] <= seen + 1
                           /\ wcommands[w] <= Len(commands)
    BY DEF IInv, TypeOK, DispatchInv, WorkerInv, PlannerTypes, WorkerTypes
  <2> QED
    BY <2>1 DEF IInv, CommandsInv, Lockstep
<1> QED
  BY <1>1, Invariance, PTL

(* However the deadlines of host, planner and workers fall, they alone do  *)
(* not make the host replay the plan serially, unless the host's own time  *)
(* ran out before it started a planner.                                    *)
THEOREM ClocksNeverReplay == Spec => []ReplayNeedsFault
<1>1. IInv => ReplayNeedsFault
  BY DEF IInv, HostInv, ReplayNeedsFault
<1> QED
  BY <1>1, Invariance, PTL

(* A caller that cancelled before the processes were retired gets no       *)
(* values.                                                                 *)
THEOREM CancellationAlwaysWins == Spec => []CancellationWins
<1>1. Init => CancellationWins
  BY DEF Init, CancellationWins
<1>2. IInv /\ CancellationWins /\ [Next]_vars => CancellationWins'
  <2> SUFFICES ASSUME IInv, CancellationWins, [Next]_vars
               PROVE  CancellationWins'
    OBVIOUS
  <2> USE DEF CancellationWins
  <2>1. CASE Accept \/ Replayed
    BY <2>1 DEF Accept, Replayed, HostMustStop, CallerStops
  <2>2. CASE Close \/ CloseFails \/ StopsAfterRetirement
    BY <2>2 DEF Close, CloseFails, StopsAfterRetirement
  <2>3. CASE Revoke
    BY <2>3 DEF Revoke
  <2>4. CASE UNCHANGED <<outcome, revoked>>
    BY <2>4
  <2>5. ASSUME HostStep \/ HostFault,
               ~(Accept \/ Replayed \/ Close \/ CloseFails
                 \/ StopsAfterRetirement)
        PROVE  UNCHANGED <<outcome, revoked>>
    BY <2>5
       DEF HostStep, HostFault, BeginSession, StartPlanner, NoTimeToStart,
           SubmitStage, ReadReply, PlannerEndedBeforeReply, Finish,
           JoinPlanner, PlannerEndedBeforeResult, HostStops, DeclineStands, HostRefuses,
           SampleMismatch, Retiring
  <2>6. ASSUME PlannerStep \/ PlannerFault PROVE UNCHANGED <<outcome, revoked>>
    BY <2>6
       DEF PlannerStep, PlannerFault, SpawnWorker, TakeCommand, Dispatch,
           Admit, Collect, WorkerEndedBeforeFile, JoinWorker, PlannerExpires,
           Retire, Report, Leave, PlannerFails, PlannerKilled, RetireFails,
           hostVars
  <2>7. ASSUME NEW w \in Workers, WorkerStep(w) \/ WorkerFault(w)
        PROVE  UNCHANGED <<outcome, revoked>>
    BY <2>7
       DEF WorkerStep, WorkerFault, TakeWork, StartGate, RunTasks,
           WorkerExpires, WorkerLeaves, OrphanDies, WorkerFails, WorkerKilled,
           Give, hostVars
  <2>8. ASSUME \/ \E clock \in Clocks : Expire(clock)
               \/ \E w \in Workers : ExpireWorker(w)
               \/ Over \/ UNCHANGED vars
        PROVE  UNCHANGED <<outcome, revoked>>
    BY <2>8 DEF Expire, ExpireWorker, Over, vars, hostVars
  <2> QED
    BY <2>1, <2>2, <2>3, <2>4, <2>5, <2>6, <2>7, <2>8 DEF Next
<1> QED
  BY <1>1, <1>2, Invariance, PTL DEF Spec

-----------------------------------------------------------------------------
(* How many workers start a gate at once.  A second invariant, on top of   *)
(* IInv: the workers that were told of the stage in hand and are not       *)
(* admitted to it yet are all of one batch, also when the planner has      *)
(* abandoned the stage or is gone.                                         *)

StartsBatch(first) ==
    first \in Workers /\ \E q \in Nat : first = q * StartupConcurrency + 1

Told(w) == admitted[w] < wcommands[w]

Untold == {"absent", "spawning", "waiting"}

StartupInv ==
    /\ \A w \in Workers :
           /\ wpc[w] \in {"absent", "waiting", "starting"} => admitted[w] = wseen[w]
           /\ wpc[w] = "starting" => ~Finished(wseen[w] + 1)
    /\ \/ Finished(seen + 1)
       \/ \E first \in Workers : \A w \in Workers : Told(w) => w \in Batch(first)
    /\ ppc \in Untold => \A w \in Workers : wcommands[w] <= seen
    /\ ppc = "dispatching" =>
           /\ StartsBatch(at)
           /\ \A w \in Workers : IF w < at THEN admitted[w] > seen
                                           ELSE wcommands[w] <= seen
    /\ ppc = "admitting" =>
           \E first \in Workers :
               /\ StartsBatch(first) /\ at \in Batch(first)
               /\ \A w \in Workers :
                      /\ w < at => admitted[w] > seen
                      /\ w > LastOf(first) => wcommands[w] <= seen
    /\ ppc = "collecting" => \A w \in Workers : admitted[w] > seen

(* A worker ends its batch when it is the last of it. *)
LEMMA BatchEnds ==
    ASSUME NEW c \in Nat \ {0}, NEW q \in Nat, NEW r \in 1..c
    PROVE  (q * c + r) % c = 0 <=> r = c
<1>1. CASE r = c
  <2>1. q * c + r = (q + 1) * c
    BY <1>1
  <2> QED
    BY <1>1, <2>1
<1>2. CASE r < c
  <2> DEFINE a == q * c + r
             m == a % c
             d == a \div c
  <2>1. a = d * c + m /\ m \in 0..(c - 1) /\ a \in Nat /\ d \in Int
    OBVIOUS
  <2>2. (d - q) * c = r - m
    BY <2>1
  <2> QED
    BY <1>2, <2>1, <2>2
<1> QED
  BY <1>1, <1>2

(* What the startup argument uses of the types and of DispatchInv. *)
LEMMA StartupTypes ==
    ASSUME IInv
    PROVE  /\ seen \in Nat /\ at \in Workers /\ Len(commands) \in Nat
           /\ wpc \in [Workers -> WorkerStates] /\ wseen \in [Workers -> Nat]
           /\ wcommands \in [Workers -> Nat] /\ admitted \in [Workers -> Nat]
           /\ \A w \in Workers : wcommands[w] <= seen + 1
<1>1. commands \in Seq(Kinds \cup {"finish"})
  BY DEF IInv, TypeOK, HostTypes
<1>2. Len(commands) \in Nat
  BY <1>1
<1> QED
  BY <1>2 DEF IInv, TypeOK, PlannerTypes, WorkerTypes, DispatchInv

(* Steps that tell nobody, admit nobody and complete nothing. *)
LEMMA StartupQuiet ==
    ASSUME IInv, IInv', StartupInv,
           UNCHANGED <<seen, wseen, wcommands, admitted>>,
           \A w \in Workers :
               \/ wpc'[w] = wpc[w]
               \/ wpc'[w] \notin {"absent", "waiting", "starting"}
               \/ wpc[w] = "absent" /\ wpc'[w] = "waiting",
           Len(commands) <= Len(commands'),
           \A n \in 1..Len(commands) : commands'[n] = commands[n],
           \/ ppc' = ppc /\ at' = at
           \/ ppc \in Untold /\ ppc' \in Untold
           \/ ppc' \notin Untold \cup {"dispatching", "admitting", "collecting"}
    PROVE  StartupInv'
<1>1. \A n \in 1..Len(commands) : Finished(n)' <=> Finished(n)
  BY DEF Finished, IInv, TypeOK, HostTypes
<1>2. \A w \in Workers : wpc'[w] = "starting" => ~Finished(wseen[w] + 1)'
  <2> SUFFICES ASSUME NEW w \in Workers, wpc'[w] = "starting"
               PROVE  ~Finished(wseen[w] + 1)'
    OBVIOUS
  <2>1. wpc[w] = "starting"
    OBVIOUS
  <2>2. wseen[w] + 1 \in 1..Len(commands)
    BY <2>1 DEF IInv, TypeOK, HostTypes, WorkerTypes, WorkerInv, DispatchInv
  <2> QED
    BY <1>1, <2>1, <2>2 DEF StartupInv
<1>3. Finished(seen + 1) => Finished(seen + 1)'
  BY <1>1 DEF Finished
<1>4. \A w \in Workers : wpc'[w] \in {"absent", "waiting", "starting"}
                              => admitted'[w] = wseen'[w]
  BY DEF StartupInv
<1> QED
  BY <1>2, <1>3, <1>4 DEF StartupInv, Told, StartsBatch, Batch, LastOf, Untold

LEMMA StartupOfHost ==
    ASSUME IInv, IInv', StartupInv, HostStep \/ HostFault
    PROVE  StartupInv'
<1> USE DEF hostVars, plannerVars, workerVars
<1>1. UNCHANGED <<at, seen, wseen, wcommands, admitted>>
  BY DEF HostStep, HostFault, BeginSession, StartPlanner, NoTimeToStart,
         SubmitStage, ReadReply, PlannerEndedBeforeReply, Finish, JoinPlanner,
         PlannerEndedBeforeResult, HostStops, Close, Accept, DeclineStands,
         Replayed, StopsAfterRetirement, HostRefuses, CloseFails,
         SampleMismatch, Retiring
<1>2. \/ commands' = commands
      \/ commands' = Append(commands, "finish")
      \/ \E kind \in Kinds : commands' = Append(commands, kind)
  BY DEF HostStep, HostFault, BeginSession, StartPlanner, NoTimeToStart,
         SubmitStage, ReadReply, PlannerEndedBeforeReply, Finish, JoinPlanner,
         PlannerEndedBeforeResult, HostStops, Close, Accept, DeclineStands,
         Replayed, StopsAfterRetirement, HostRefuses, CloseFails,
         SampleMismatch, Retiring
<1>3. /\ Len(commands) <= Len(commands')
      /\ \A n \in 1..Len(commands) : commands'[n] = commands[n]
  BY <1>2 DEF IInv, TypeOK, HostTypes, Kinds
<1>4. CASE Close
  BY <1>1, <1>3, <1>4, StartupQuiet
     DEF Close, Terminated, Kill, Gone, Untold, IInv, TypeOK, PlannerTypes,
         PlannerStates
<1>5. hpc = "starting" => ppc = "absent"
  BY DEF IInv, CommandsInv
<1>6. ASSUME ~Close
      PROVE  wpc' = wpc /\ (ppc' = ppc \/ (ppc = "absent" /\ ppc' = "spawning"))
  BY <1>5, <1>6
     DEF HostStep, HostFault, BeginSession, StartPlanner, NoTimeToStart,
         SubmitStage, ReadReply, PlannerEndedBeforeReply, Finish, JoinPlanner,
         PlannerEndedBeforeResult, HostStops, Accept, DeclineStands, Replayed,
         StopsAfterRetirement, HostRefuses, CloseFails, SampleMismatch,
         Retiring
<1> QED
  BY <1>1, <1>3, <1>4, <1>6, StartupQuiet DEF Untold

LEMMA StartupOfPlanner ==
    ASSUME IInv, IInv', StartupInv, PlannerStep \/ PlannerFault
    PROVE  StartupInv'
<1> USE DEF hostVars, plannerVars, workerVars
<1>b. commands' = commands /\ wseen' = wseen /\ admitted' = admitted
  BY DEF PlannerStep, PlannerFault, SpawnWorker, TakeCommand, Dispatch, Admit,
         Collect, WorkerEndedBeforeFile, JoinWorker, PlannerExpires, Retire,
         Report, Leave, PlannerFails, PlannerKilled, RetireFails
<1>0. /\ commands' = commands /\ wseen' = wseen /\ admitted' = admitted
      /\ seen \in Nat /\ at \in Workers /\ Len(commands) \in Nat
      /\ \A w \in Workers : /\ wseen[w] \in Nat /\ wcommands[w] \in Nat
                             /\ admitted[w] \in Nat /\ wcommands[w] <= seen + 1
  BY <1>b, StartupTypes
<1>1. CASE TakeCommand
  <2>1. wpc' = wpc /\ seen' = seen /\ at' = 1
        /\ \A w \in Workers : wcommands[w] <= seen
    BY <1>1 DEF TakeCommand, StartupInv, Untold
  <2>2. CASE commands[seen + 1] = "finish"
    <3>1. Finished(seen + 1)' /\ ppc' = "joining"
      BY <1>0, <1>1, <2>1, <2>2 DEF TakeCommand, Finished
    <3> QED
      BY <1>0, <2>1, <3>1 DEF StartupInv, Untold, Finished
  <2>3. CASE commands[seen + 1] # "finish"
    <3>1. wcommands' = wcommands /\ ppc' = "dispatching"
      BY <1>1, <2>3 DEF TakeCommand
    <3>2. StartsBatch(1)
      BY ConstantsAssumption DEF StartsBatch, Workers
    <3>3. \A w \in Workers : ~(w < 1)
      BY DEF Workers
    <3> QED
      BY <1>0, <2>1, <3>1, <3>2, <3>3 DEF StartupInv, StartsBatch, Untold,
         Told, Batch, LastOf, Finished
  <2> QED
    BY <2>2, <2>3
<1>2. CASE Dispatch
  <2>1. /\ wpc' = wpc /\ seen' = seen /\ at' = at
        /\ ppc = "dispatching" /\ ppc' = "admitting"
        /\ wcommands' = [w \in Workers |-> IF w \in Batch(at) THEN seen + 1
                                           ELSE wcommands[w]]
    BY <1>2 DEF Dispatch
  <2>2. /\ StartsBatch(at)
        /\ \A w \in Workers : IF w < at THEN admitted[w] > seen
                               ELSE wcommands[w] <= seen
    BY <2>1 DEF StartupInv
  <2>3. at \in Batch(at)
    BY <1>0, ConstantsAssumption DEF Batch, LastOf, Workers
  <2>4. \A w \in Workers : w > LastOf(at) => w \notin Batch(at) /\ ~(w < at)
    BY <1>0, ConstantsAssumption DEF Batch, LastOf, Workers
  <2>5. \A w \in Workers : w > LastOf(at) => wcommands'[w] <= seen
    BY <2>1, <2>2, <2>4
  <2>6. \A w \in Workers : wseen[w] <= admitted[w] /\ seen <= wseen[w]
    BY DEF IInv, WorkerInv
  <2>7. \A w \in Workers : Told(w)' => w \in Batch(at)
    BY <1>0, <2>1, <2>2, <2>6 DEF Told, Workers
  <2>8. \A w \in Workers :
            wpc'[w] = "starting" => ~Finished(wseen[w] + 1)'
    BY <1>0, <2>1 DEF StartupInv, Finished
  <2> QED
    BY <1>0, <2>1, <2>2, <2>3, <2>5, <2>7, <2>8
       DEF StartupInv, StartsBatch, Untold, Batch, LastOf
<1>3. CASE Admit
  <2>1. /\ UNCHANGED <<wpc, seen, wcommands>>
        /\ ppc = "admitting" /\ admitted[at] > seen
    BY <1>3 DEF Admit
  <2>2. PICK first \in Workers :
            /\ StartsBatch(first) /\ at \in Batch(first)
            /\ \A w \in Workers :
                   /\ w < at => admitted[w] > seen
                   /\ w > LastOf(first) => wcommands[w] <= seen
    BY <2>1 DEF StartupInv
  <2>3. PICK q \in Nat : first = q * StartupConcurrency + 1
    BY <2>2 DEF StartsBatch
  <2>4. \A w \in Workers : w <= at => admitted[w] > seen
    BY <1>0, <2>1, <2>2 DEF Workers
  <2> DEFINE r == at - q * StartupConcurrency
  <2>5. /\ r \in 1..StartupConcurrency /\ at = q * StartupConcurrency + r
        /\ at <= NumWorkers /\ NumWorkers \in Nat
        /\ StartupConcurrency \in Nat \ {0}
        /\ q * StartupConcurrency \in Nat
    BY <1>0, <2>2, <2>3, ConstantsAssumption DEF Batch, LastOf, Workers
  <2> HIDE DEF r
  <2>6. at % StartupConcurrency = 0 <=> r = StartupConcurrency
    BY <2>5, BatchEnds
  <2>7. CASE at = NumWorkers
    <3>1. ppc' = "collecting" /\ \A w \in Workers : admitted[w] > seen
      BY <1>3, <2>4, <2>5, <2>7 DEF Admit, Workers
    <3> QED
      BY <1>0, <2>1, <3>1 DEF StartupInv, Untold, Told, Batch, LastOf, Finished
  <2>8. CASE EndsBatch(at) /\ at < NumWorkers
    <3>1. ppc' = "dispatching" /\ at' = at + 1
      BY <1>3, <2>8 DEF Admit
    <3>2. r = StartupConcurrency
      BY <2>5, <2>6, <2>8 DEF EndsBatch
    <3>3. at + 1 = (q + 1) * StartupConcurrency + 1 /\ LastOf(first) = at
      BY <2>3, <2>5, <3>2 DEF LastOf
    <3>4. StartsBatch(at + 1)
      <4>1. at + 1 \in Workers /\ q + 1 \in Nat
        BY <2>5, <2>8, <1>0 DEF Workers
      <4> QED
        BY <3>3, <4>1 DEF StartsBatch
    <3>5. \A w \in Workers : IF w < at + 1 THEN admitted[w] > seen
                             ELSE wcommands[w] <= seen
      BY <2>2, <2>4, <2>5, <3>3 DEF Workers
    <3> QED
      BY <1>0, <2>1, <3>1, <3>4, <3>5
         DEF StartupInv, StartsBatch, Untold, Told, Batch, LastOf, Finished
  <2>9. CASE ~EndsBatch(at)
    <3>1. at # NumWorkers /\ at % StartupConcurrency # 0
      BY <2>9 DEF EndsBatch
    <3>2. ppc' = ppc /\ at' = at + 1
      BY <1>3, <2>9, <3>1 DEF Admit
    <3>3. at + 1 \in Batch(first)
      BY <2>2, <2>3, <2>5, <2>6, <3>1 DEF Batch, LastOf
    <3>4. \A w \in Workers : w < at + 1 => admitted[w] > seen
      BY <2>4, <2>5 DEF Workers
    <3> QED
      BY <1>0, <2>1, <2>2, <3>2, <3>3, <3>4
         DEF StartupInv, StartsBatch, Untold, Told, Batch, LastOf, Finished
  <2>10. at = NumWorkers \/ at < NumWorkers
    BY <2>5, <1>0 DEF Workers
  <2> QED
    BY <2>7, <2>8, <2>9, <2>10
<1>4. CASE Collect
  <2>1. /\ UNCHANGED <<wpc, wcommands>> /\ ppc = "collecting"
    BY <1>4 DEF Collect
  <2>2. (\A w \in Workers : admitted[w] > seen) /\ ~Finished(seen + 1)
    BY <2>1 DEF StartupInv, IInv, DispatchInv
  <2>3. PICK first \in Workers : \A w \in Workers : Told(w) => w \in Batch(first)
    BY <2>2 DEF StartupInv
  <2>4. \/ ppc' = "waiting" /\ seen' = seen + 1
        \/ ppc' = ppc /\ seen' = seen
    BY <1>4, <2>1 DEF Collect
  <2> QED
    BY <1>0, <2>1, <2>2, <2>3, <2>4
       DEF StartupInv, Untold, Told, Batch, LastOf, Finished
<1>5. CASE SpawnWorker
  <2>1. /\ UNCHANGED <<seen, wseen, wcommands, admitted>>
        /\ ppc \in Untold /\ ppc' \in Untold /\ wpc' = [wpc EXCEPT ![at] = "waiting"]
        /\ wpc[at] = "absent"
    BY <1>0, <1>5 DEF SpawnWorker, Untold, IInv, DispatchInv, Workers
  <2> QED
    BY <1>0, <2>1, StartupQuiet DEF IInv, TypeOK, WorkerTypes
<1>6. CASE Retire
  BY <1>0, <1>6, StartupQuiet
     DEF Retire, Kill, Gone, Untold, IInv, TypeOK, WorkerTypes
<1>7. CASE WorkerEndedBeforeFile \/ JoinWorker \/ PlannerExpires \/ Report
           \/ Leave \/ PlannerFault
  <2>1. UNCHANGED <<seen, wseen, wcommands, admitted, wpc>>
        /\ ppc' \notin Untold \cup {"dispatching", "admitting", "collecting"}
    BY <1>7
       DEF WorkerEndedBeforeFile, JoinWorker, PlannerExpires, Report, Leave,
           PlannerFault, PlannerFails, PlannerKilled, RetireFails, Abandon, Untold
  <2> QED
    BY <1>0, <2>1, StartupQuiet
<1> QED
  BY <1>1, <1>2, <1>3, <1>4, <1>5, <1>6, <1>7 DEF PlannerStep

LEMMA StartupOfWorker ==
    ASSUME IInv, IInv', StartupInv, NEW w \in Workers,
           WorkerStep(w) \/ WorkerFault(w)
    PROVE  StartupInv'
<1> USE DEF hostVars, plannerVars, workerVars
<1>b. /\ commands' = commands /\ ppc' = ppc /\ at' = at /\ seen' = seen
      /\ wcommands' = wcommands
  BY DEF WorkerStep, WorkerFault, TakeWork, StartGate, RunTasks, WorkerExpires,
         WorkerLeaves, OrphanDies, WorkerFails, WorkerKilled, Give
<1>0. /\ commands' = commands /\ ppc' = ppc /\ at' = at /\ seen' = seen
      /\ wcommands' = wcommands
      /\ seen \in Nat /\ Len(commands) \in Nat
      /\ wpc \in [Workers -> WorkerStates] /\ wseen \in [Workers -> Nat]
      /\ wcommands \in [Workers -> Nat] /\ admitted \in [Workers -> Nat]
  BY <1>b, StartupTypes
<1>1. CASE TakeWork(w)
  <2>1. wpc[w] = "waiting" /\ UNCHANGED <<wseen, admitted>>
    BY <1>1 DEF TakeWork
  <2>2. CASE commands[wseen[w] + 1] = "finish"
    BY <1>0, <1>1, <2>1, <2>2, StartupQuiet DEF TakeWork
  <2>3. CASE commands[wseen[w] + 1] # "finish"
    <3>1. wpc' = [wpc EXCEPT ![w] = "starting"] /\ ~Finished(wseen[w] + 1)
      BY <1>1, <2>3 DEF TakeWork, Finished
    <3> QED
      BY <1>0, <2>1, <3>1 DEF StartupInv, StartsBatch, Untold, Told, Batch,
         LastOf, Finished
  <2> QED
    BY <2>2, <2>3
<1>2. CASE StartGate(w)
  <2>1. /\ wpc[w] = "starting" /\ wpc' = [wpc EXCEPT ![w] = "running"]
        /\ admitted' = [admitted EXCEPT ![w] = wseen[w] + 1] /\ wseen' = wseen
    BY <1>2 DEF StartGate
  <2>2. \A v \in Workers : admitted'[v] \in Nat /\ admitted[v] <= admitted'[v]
    BY <1>0, <2>1 DEF StartupInv
  <2>3. \A v \in Workers : Told(v)' => Told(v)
    BY <1>0, <2>2 DEF Told
  <2>4. \A v \in Workers : admitted[v] > seen => admitted'[v] > seen
    BY <1>0, <2>2
  <2>5. \A v \in Workers :
            /\ wpc'[v] \in {"absent", "waiting", "starting"}
                   => admitted'[v] = wseen'[v]
            /\ wpc'[v] = "starting" => ~Finished(wseen[v] + 1)'
    BY <1>0, <2>1 DEF StartupInv, Finished
  <2> QED
    BY <1>0, <2>3, <2>4, <2>5 DEF StartupInv, StartsBatch, Untold, Batch, LastOf,
       Finished
<1>3. CASE RunTasks(w)
  <2>1. /\ wpc[w] = "running" /\ wpc' = [wpc EXCEPT ![w] = "waiting"]
        /\ wseen' = [wseen EXCEPT ![w] = @ + 1] /\ admitted' = admitted
        /\ admitted[w] = wseen[w] + 1
    BY <1>3 DEF RunTasks, IInv, WorkerInv
  <2> QED
    BY <1>0, <2>1 DEF StartupInv, StartsBatch, Untold, Told, Batch, LastOf, Finished
<1>4. CASE WorkerExpires(w) \/ WorkerLeaves(w) \/ OrphanDies(w) \/ WorkerFault(w)
  <2>1. UNCHANGED <<wseen, admitted>>
        /\ \A v \in Workers :
               wpc'[v] = wpc[v] \/ wpc'[v] \notin {"absent", "waiting", "starting"}
    BY <1>0, <1>4
       DEF WorkerExpires, WorkerLeaves, OrphanDies, WorkerFault, WorkerFails,
           WorkerKilled, Give
  <2> QED
    BY <1>0, <2>1, StartupQuiet
<1> QED
  BY <1>1, <1>2, <1>3, <1>4 DEF WorkerStep

(* However batches, failures and kills fall, no more than                  *)
(* StartupConcurrency workers start a gate at once.                        *)
THEOREM StartupAlwaysBounded == Spec => []StartupBounded
<1>1. Init => StartupInv
  <2> SUFFICES ASSUME Init PROVE StartupInv
    OBVIOUS
  <2>1. 1 \in Workers
    BY ConstantsAssumption DEF Workers
  <2> QED
    BY <2>1 DEF Init, StartupInv, Told, Untold
<1>2. IInv /\ IInv' /\ StartupInv /\ [Next]_vars => StartupInv'
  <2> SUFFICES ASSUME IInv, IInv', StartupInv, [Next]_vars PROVE StartupInv'
    OBVIOUS
  <2>1. ASSUME UNCHANGED <<commands, plannerVars, workerVars>> PROVE StartupInv'
    BY <2>1, StartupQuiet DEF plannerVars, workerVars, IInv, TypeOK, HostTypes
  <2>2. ASSUME \/ Revoke \/ \E clock \in Clocks : Expire(clock)
               \/ \E w \in Workers : ExpireWorker(w)
               \/ Over \/ UNCHANGED vars
        PROVE  UNCHANGED <<commands, plannerVars, workerVars>>
    BY <2>2 DEF Revoke, Expire, ExpireWorker, Over, vars
  <2> QED
    BY <2>1, <2>2, StartupOfHost, StartupOfPlanner, StartupOfWorker DEF Next
<1>3. IInv /\ StartupInv => StartupBounded
  <2> SUFFICES ASSUME IInv, StartupInv PROVE StartupBounded
    OBVIOUS
  <2> DEFINE Starting == {w \in Workers : wpc[w] = "starting"}
  <2>1. \A w \in Starting : Told(w) /\ wseen[w] = seen
    BY DEF IInv, TypeOK, PlannerTypes, WorkerTypes, DispatchInv, WorkerInv,
           StartupInv, Told
  <2>2. CASE Starting = {}
    BY <2>2, FS_EmptySet, ConstantsAssumption DEF StartupBounded
  <2>3. CASE Starting # {}
    <3>1. ~Finished(seen + 1)
      BY <2>1, <2>3 DEF StartupInv
    <3>2. PICK first \in Workers : Starting \subseteq Batch(first)
      BY <2>1, <3>1 DEF StartupInv
    <3>3. /\ first \in Int /\ LastOf(first) \in Int /\ first <= LastOf(first)
          /\ LastOf(first) - first + 1 <= StartupConcurrency
      BY ConstantsAssumption DEF LastOf, Workers
    <3>4. /\ IsFiniteSet(Batch(first))
          /\ Cardinality(Batch(first)) = LastOf(first) - first + 1
      BY <3>3, FS_Interval DEF Batch
    <3>5. Cardinality(Starting) <= Cardinality(Batch(first))
          /\ Cardinality(Starting) \in Nat
      BY <3>2, <3>4, FS_Subset, FS_CardinalityType
    <3> QED
      BY <3>3, <3>4, <3>5, ConstantsAssumption DEF StartupBounded
  <2> QED
    BY <2>2, <2>3
<1> QED
  BY <1>1, <1>2, <1>3, Invariance, PTL DEF Spec

=============================================================================
