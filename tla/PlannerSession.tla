--------------------------- MODULE PlannerSession ---------------------------
(***************************************************************************)
(* One parallel planning attempt with reused workers: the host process     *)
(* (_qualified_plan, _SessionBridge, OwnedSession), one planner process    *)
(* (session_planner) and its worker processes (session_worker).  They      *)
(* share nothing but files that are written once: numbered commands,       *)
(* admissions and replies, and one result per process.                     *)
(*                                                                         *)
(* The host plans in at most two stages, `pair` then `face`, then sends    *)
(* `finish`; it may use the parallel values only after every process has   *)
(* gone, and otherwise replays the plan serially or raises.  Processes can *)
(* fail, be killed, or run out of time, each by its own clock: host and    *)
(* children start their clocks at different moments and boot for an        *)
(* unknown time, so no order between different processes' deadlines is     *)
(* assumed.                                                                *)
(*                                                                         *)
(* The content of packets, and the digests and environment checks that     *)
(* guard it, are abstracted to "some check fails" (HostRefuses and the     *)
(* Fails actions).                                                         *)
(***************************************************************************)
EXTENDS Naturals, Sequences, FiniteSets

CONSTANTS
    NumWorkers,          \* worker processes
    StartupConcurrency,  \* workers allowed to start a stage at once
    MaxFaults            \* bound on failures, kills and refusals

Workers == 1..NumWorkers

(* _startup_concurrency *)
ASSUME ConstantsAssumption ==
    /\ NumWorkers \in Nat \ {0}
    /\ StartupConcurrency \in 1..NumWorkers
    /\ MaxFaults \in Nat

VARIABLES
    hpc,       \* where the host is
    why,       \* with which verdict the host retires the processes
    outcome,   \* what the caller gets
    stages,    \* the stages whose replies the host accepted
    revoked,   \* the caller's cancellation or overall deadline: when it came
    commands,  \* the commands the host wrote, in order
    ppc,       \* where the planner is
    at,        \* the worker the planner is spawning or waiting for
    seen,      \* stages the planner completed
    verdict,   \* the status the planner will report
    replies,   \* replies the planner wrote
    presult,   \* the planner's result file
    wpc,       \* where each worker is
    wseen,     \* stages each worker completed
    wcommands, \* commands written for each worker
    admitted,  \* stages each worker was admitted to
    wreplies,  \* replies each worker wrote
    wresult,   \* each worker's result file
    expired,   \* the clocks of host and planner that ran out
    wexpired,  \* the workers whose clock ran out
    faults     \* failures, kills and refusals so far

hostVars    == <<hpc, why, outcome, stages, revoked>>
plannerVars == <<ppc, at, seen, verdict, replies, presult>>
clocks      == <<expired, wexpired>>
workerVars  == <<wpc, wseen, wcommands, admitted, wreplies, wresult>>
vars == <<hostVars, commands, plannerVars, workerVars, clocks, faults>>

Terminal == {"deadline", "source_changed", "cleanup_error"}
Statuses == Terminal \cup {"passed", "declined"}
Kinds    == {"pair", "face"}

(* `margin` is the planner's own deadline less three seconds. *)
Clocks == {"host", "planner", "margin"}

Gone == {"absent", "ended", "killed"}
AllGone == ppc \in Gone /\ \A w \in Workers : wpc[w] \in Gone

Init ==
    /\ hpc = "planning" /\ why = "none" /\ outcome = "none"
    /\ stages = <<>> /\ revoked = "no" /\ commands = <<>>
    /\ ppc = "absent" /\ at = 1 /\ seen = 0 /\ verdict = "passed"
    /\ replies = 0 /\ presult = "none"
    /\ wpc = [w \in Workers |-> "absent"]
    /\ wseen = [w \in Workers |-> 0]
    /\ wcommands = [w \in Workers |-> 0]
    /\ admitted = [w \in Workers |-> 0]
    /\ wreplies = [w \in Workers |-> 0]
    /\ wresult = [w \in Workers |-> "none"]
    /\ expired = {} /\ wexpired = {} /\ faults = 0

Fault == faults < MaxFaults /\ faults' = faults + 1

-----------------------------------------------------------------------------
(* The host. *)

(* Mutant of CallerStops: the caller's signal is never polled. *)
CallerIgnored == FALSE

(* check_cancel and check_overall, behind every poll. *)
CallerStops == revoked # "no"

(* Mutant of HostMustStop: the host waits without its own clock. *)
HostWaitsForever == CallerStops

(* check_deadline *)
HostMustStop == CallerStops \/ "host" \in expired

Retiring(verdictOfHost) == hpc' = "closing" /\ why' = verdictOfHost

(* check_result_status *)
Judged(status) ==
    CASE status = "passed" -> "accepted"
      [] status \in Terminal -> "terminal"
      [] OTHER -> "declined"

(* run, the first stage: check_boundary has let it pass.                   *)
BeginSession ==
    /\ hpc = "planning" /\ ppc = "absent" /\ ~HostMustStop
    /\ hpc' = "starting"
    /\ UNCHANGED <<why, outcome, stages, revoked, commands, plannerVars,
                   workerVars, clocks, faults>>

(* The planner is given what is left of the host's time; nobody asks the   *)
(* caller here.                                                            *)
StartPlanner ==
    /\ hpc = "starting" /\ "host" \notin expired
    /\ ppc' = "spawning"
    /\ hpc' = "planning"
    /\ UNCHANGED <<why, outcome, stages, revoked, commands, at, seen, verdict,
                   replies, presult, workerVars, clocks, faults>>

(* No time is left since check_boundary: OwnedPlanner takes the deadline   *)
(* for an invalid argument, which is a refusal and not a deadline.         *)
NoTimeToStart ==
    /\ hpc = "starting" /\ "host" \in expired
    /\ Retiring("declined")
    /\ UNCHANGED <<outcome, stages, revoked, commands, plannerVars,
                   workerVars, clocks, faults>>

(* submit_stage: the command is written once the polls let it pass.        *)
SubmitStage(kind) ==
    /\ hpc = "planning" /\ ppc # "absent" /\ ~HostMustStop
    /\ \/ stages = <<>>
       \/ stages = <<"pair">> /\ kind = "face"
    /\ commands' = Append(commands, kind)
    /\ hpc' = "waiting"
    /\ UNCHANGED <<why, outcome, stages, revoked, plannerVars, workerVars,
                   clocks, faults>>

(* _wait_file finds the reply, and it is accepted. *)
ReadReply ==
    /\ hpc = "waiting" /\ ~HostMustStop
    /\ replies = Len(commands)
    /\ stages' = commands
    /\ hpc' = "planning"
    /\ UNCHANGED <<why, outcome, revoked, commands, plannerVars, workerVars,
                   clocks, faults>>

(* _wait_file looks for the file once more after it saw the planner gone.  *)
PlannerEndedBeforeReply ==
    /\ hpc = "waiting" /\ ppc \in Gone /\ replies < Len(commands)
    /\ Retiring(Judged(presult))
    /\ UNCHANGED <<outcome, stages, revoked, commands, plannerVars,
                   workerVars, clocks, faults>>

(* OwnedSession.finish; without a session there is nothing to finish, and  *)
(* a planner is started only for a stage.                                  *)
Finish ==
    /\ hpc = "planning" /\ ~HostMustStop
    /\ ppc = "absent" \/ stages # <<>>
    /\ IF ppc = "absent"
       THEN Retiring("accepted") /\ UNCHANGED commands
       ELSE /\ commands' = Append(commands, "finish")
            /\ hpc' = "finishing" /\ UNCHANGED why
    /\ UNCHANGED <<outcome, stages, revoked, plannerVars, workerVars,
                   clocks, faults>>

(* The host's own comparison of the reports with the stages it accepted.   *)
Covered == seen = Len(stages) /\ \A w \in Workers : wseen[w] = Len(stages)

(* finish waits for the result, then for the process, then judges. *)
JoinPlanner ==
    /\ hpc = "finishing" /\ presult # "none" /\ ppc \in Gone
    /\ ~HostMustStop
    /\ Retiring(IF ppc = "killed" \/ (presult = "passed" /\ ~Covered)
                THEN "declined" ELSE Judged(presult))
    /\ UNCHANGED <<outcome, stages, revoked, commands, plannerVars,
                   workerVars, clocks, faults>>

PlannerEndedBeforeResult ==
    /\ hpc = "finishing" /\ presult = "none" /\ ppc \in Gone
    /\ Retiring("declined")
    /\ UNCHANGED <<outcome, stages, revoked, commands, plannerVars,
                   workerVars, clocks, faults>>

(* A poll raises PlannerCancelled or PlannerDeadline. *)
HostStops ==
    /\ hpc \in {"planning", "waiting", "finishing"} /\ HostMustStop
    /\ Retiring("terminal")
    /\ UNCHANGED <<outcome, stages, revoked, commands, plannerVars,
                   workerVars, clocks, faults>>

(* A packet is refused, the planner cannot be started, or the kernel fails *)
(* on provisional values.                                                  *)
HostRefuses ==
    /\ hpc \in {"planning", "starting", "waiting", "finishing"} /\ Fault
    /\ Retiring("declined")
    /\ UNCHANGED <<outcome, stages, revoked, commands, plannerVars,
                   workerVars, clocks>>

Kill(pc) == IF pc \in Gone THEN pc ELSE "killed"

(* Mutant of Terminated: only the planner itself is ended. *)
PlannerTerminated == ppc' = Kill(ppc) /\ UNCHANGED wpc

(* TerminateJobObject, and the wait until the Job has no process. *)
Terminated ==
    /\ ppc' = Kill(ppc)
    /\ wpc' = [w \in Workers |-> Kill(wpc[w])]

(* _SessionBridge.close, in the finally of _qualified_plan. *)
Close ==
    /\ hpc = "closing"
    /\ Terminated
    /\ hpc' = CASE why = "accepted" -> "verifying"
                [] why = "declined" -> "declined"
                [] OTHER -> "done"
    /\ outcome' = IF why = "terminal" THEN "terminal" ELSE outcome
    /\ UNCHANGED <<why, stages, revoked, commands, at, seen, verdict, replies,
                   presult, wseen, wcommands, admitted, wreplies, wresult,
                   clocks, faults>>

(* PlannerCleanupError replaces whatever the host was about to do. *)
CloseFails ==
    /\ hpc = "closing" /\ ppc # "absent" /\ Fault
    /\ hpc' = "done" /\ outcome' = "terminal"
    /\ UNCHANGED <<why, stages, revoked, commands, plannerVars, workerVars,
                   clocks>>

(* verify_pending, the comparison with the CI digests, the last polls.     *)
Accept ==
    /\ hpc = "verifying" /\ ~HostMustStop
    /\ hpc' = "done" /\ outcome' = "parallel"
    /\ UNCHANGED <<why, stages, revoked, commands, plannerVars, workerVars,
                   clocks, faults>>

(* A sample or a digest differs: QualificationDecline. *)
SampleMismatch ==
    /\ hpc = "verifying" /\ Fault
    /\ hpc' = "declined"
    /\ UNCHANGED <<why, outcome, stages, revoked, commands, plannerVars,
                   workerVars, clocks>>

(* The handler of QualificationDecline polls the caller only: the          *)
(* attempt's own clock no longer counts.                                   *)
DeclineStands ==
    /\ hpc = "declined" /\ ~CallerStops
    /\ hpc' = "replaying"
    /\ UNCHANGED <<why, outcome, stages, revoked, commands, plannerVars,
                   workerVars, clocks, faults>>

Replayed ==
    /\ hpc = "replaying" /\ ~CallerStops
    /\ hpc' = "done" /\ outcome' = "serial"
    /\ UNCHANGED <<why, stages, revoked, commands, plannerVars, workerVars,
                   clocks, faults>>

StopsAfterRetirement ==
    /\ \/ hpc = "verifying" /\ HostMustStop
       \/ hpc \in {"declined", "replaying"} /\ CallerStops
    /\ hpc' = "done" /\ outcome' = "terminal"
    /\ UNCHANGED <<why, stages, revoked, commands, plannerVars, workerVars,
                   clocks, faults>>

HostStep ==
    \/ BeginSession \/ StartPlanner \/ NoTimeToStart
    \/ \E kind \in Kinds : SubmitStage(kind)
    \/ ReadReply \/ PlannerEndedBeforeReply
    \/ Finish \/ JoinPlanner \/ PlannerEndedBeforeResult
    \/ HostStops \/ Close \/ Accept
    \/ DeclineStands \/ Replayed \/ StopsAfterRetirement

HostFault == HostRefuses \/ CloseFails \/ SampleMismatch

-----------------------------------------------------------------------------
(* The planner. *)

(* An exception leaves the command loop for the `finally`. *)
Abandon(status) == ppc' = "retiring" /\ verdict' = status

SpawnWorker ==
    /\ ppc = "spawning"
    /\ wpc' = [wpc EXCEPT ![at] = "waiting"]
    /\ IF at = NumWorkers
       THEN ppc' = "waiting" /\ UNCHANGED at
       ELSE at' = at + 1 /\ UNCHANGED ppc
    /\ UNCHANGED <<hostVars, commands, seen, verdict, replies, presult, wseen,
                   wcommands, admitted, wreplies, wresult, clocks, faults>>

(* The planner waits for a command up to its full deadline and looks at    *)
(* nothing else meanwhile.                                                 *)
TakeCommand ==
    /\ ppc = "waiting" /\ seen < Len(commands) /\ "planner" \notin expired
    /\ at' = 1
    /\ IF commands[seen + 1] = "finish"
       THEN /\ ppc' = "joining"
            /\ wcommands' = [w \in Workers |-> seen + 1]
       ELSE ppc' = "dispatching" /\ UNCHANGED wcommands
    /\ UNCHANGED <<hostVars, commands, seen, verdict, replies, presult, wpc,
                   wseen, admitted, wreplies, wresult, clocks, faults>>

LastOf(first) ==
    IF first + StartupConcurrency - 1 < NumWorkers
    THEN first + StartupConcurrency - 1 ELSE NumWorkers

(* Mutant of Batch: every worker is told at once. *)
WholeBatch(first) == Workers

(* The workers told together: StartupConcurrency of them. *)
Batch(first) == first..LastOf(first)

(* The commands of a batch are all written before the first admission of   *)
(* it is awaited.                                                          *)
Dispatch ==
    /\ ppc = "dispatching"
    /\ wcommands' = [w \in Workers |-> IF w \in Batch(at) THEN seen + 1
                                       ELSE wcommands[w]]
    /\ ppc' = "admitting"
    /\ UNCHANGED <<hostVars, commands, at, seen, verdict, replies, presult,
                   wpc, wseen, admitted, wreplies, wresult, clocks, faults>>

(* Batches start at 1, 1 + StartupConcurrency, ... *)
EndsBatch(w) == w = NumWorkers \/ w % StartupConcurrency = 0

Admit ==
    /\ ppc = "admitting" /\ admitted[at] > seen /\ "margin" \notin expired
    /\ CASE at = NumWorkers -> ppc' = "collecting" /\ at' = 1
         [] EndsBatch(at) /\ at < NumWorkers ->
                ppc' = "dispatching" /\ at' = at + 1
         [] OTHER -> at' = at + 1 /\ UNCHANGED ppc
    /\ UNCHANGED <<hostVars, commands, seen, verdict, replies, presult,
                   workerVars, clocks, faults>>

(* Replies are read in worker order; after the last, the planner's own     *)
(* reply is written and the stage counts as seen.                          *)
Collect ==
    /\ ppc = "collecting" /\ wreplies[at] > seen /\ "margin" \notin expired
    /\ IF at = NumWorkers
       THEN /\ ppc' = "waiting"
            /\ replies' = seen + 1 /\ seen' = seen + 1
            /\ UNCHANGED at
       ELSE at' = at + 1 /\ UNCHANGED <<ppc, replies, seen>>
    /\ UNCHANGED <<hostVars, commands, verdict, presult, workerVars, clocks,
                   faults>>

AwaitedMissing ==
    IF ppc = "admitting" THEN admitted[at] <= seen ELSE wreplies[at] <= seen

(* Mutant of Inherited: every worker failure is an ordinary refusal. *)
AlwaysDeclined(status) == "declined"

(* What a worker that ended without the awaited file makes of the planner. *)
Inherited(status) == IF status \in Terminal THEN status ELSE "declined"

(* _wait_file: the worker ended without the awaited file. *)
WorkerEndedBeforeFile ==
    /\ ppc \in {"admitting", "collecting"}
    /\ wpc[at] \in Gone /\ AwaitedMissing
    /\ Abandon(Inherited(wresult[at]))
    /\ UNCHANGED <<hostVars, commands, at, seen, replies, presult, workerVars,
                   clocks, faults>>

(* Mutant of JoinedVerdict: the exit is enough, the result is not read. *)
ExitIsEnough(w) == "passed"

(* tree.wait refuses a nonzero exit; then the result is judged.  *)
JoinedVerdict(w) ==
    IF wpc[w] = "killed" THEN "declined"
    ELSE IF wresult[w] = "passed" /\ wseen[w] = seen THEN "passed"
    ELSE Inherited(wresult[w])

(* The finish command: every worker's exit, in order. *)
JoinWorker ==
    /\ ppc = "joining" /\ wpc[at] \in Gone /\ "margin" \notin expired
    /\ IF JoinedVerdict(at) # "passed"
       THEN Abandon(JoinedVerdict(at)) /\ UNCHANGED at
       ELSE IF at = NumWorkers THEN Abandon("passed") /\ UNCHANGED at
       ELSE at' = at + 1 /\ UNCHANGED <<ppc, verdict>>
    /\ UNCHANGED <<hostVars, commands, seen, replies, presult, workerVars,
                   clocks, faults>>

(* Mutant of PlannerExpires: only the waits for workers are bounded. *)
ExpiresWhileAwaiting ==
    /\ ppc \in {"admitting", "collecting", "joining"} /\ "margin" \in expired
    /\ Abandon("deadline")
    /\ UNCHANGED <<hostVars, commands, at, seen, replies, presult, workerVars,
                   clocks, faults>>

PlannerExpires ==
    /\ \/ ppc = "waiting" /\ "planner" \in expired
       \/ ppc \in {"admitting", "collecting", "joining"} /\ "margin" \in expired
    /\ Abandon("deadline")
    /\ UNCHANGED <<hostVars, commands, at, seen, replies, presult, workerVars,
                   clocks, faults>>

(* _retire_session_tree: the workers' Job is terminated. *)
Retire ==
    /\ ppc = "retiring"
    /\ wpc' = [w \in Workers |-> Kill(wpc[w])]
    /\ ppc' = "reporting"
    /\ UNCHANGED <<hostVars, commands, at, seen, verdict, replies, presult,
                   wseen, wcommands, admitted, wreplies, wresult, clocks,
                   faults>>

RetireFails ==
    /\ ppc = "retiring" /\ Fault
    /\ ppc' = "reporting" /\ verdict' = "cleanup_error"
    /\ UNCHANGED <<hostVars, commands, at, seen, replies, presult, workerVars,
                   clocks>>

(* main of the child process: the result is written last of all. *)
Report ==
    /\ ppc = "reporting"
    /\ presult' = verdict
    /\ ppc' = "leaving"
    /\ UNCHANGED <<hostVars, commands, at, seen, verdict, replies, workerVars,
                   clocks, faults>>

Leave ==
    /\ ppc = "leaving"
    /\ ppc' = "ended"
    /\ UNCHANGED <<hostVars, commands, at, seen, verdict, replies, presult,
                   workerVars, clocks, faults>>

(* A check of the planner fails. *)
PlannerFails ==
    /\ ppc \notin Gone \cup {"retiring", "reporting", "leaving"} /\ Fault
    /\ \E status \in {"declined", "source_changed"} : Abandon(status)
    /\ UNCHANGED <<hostVars, commands, at, seen, replies, presult, workerVars,
                   clocks>>

PlannerKilled ==
    /\ ppc \notin Gone /\ Fault
    /\ ppc' = "killed"
    /\ UNCHANGED <<hostVars, commands, at, seen, verdict, replies, presult,
                   workerVars, clocks>>

PlannerStep ==
    \/ SpawnWorker \/ TakeCommand \/ Dispatch \/ Admit \/ Collect
    \/ WorkerEndedBeforeFile \/ JoinWorker \/ PlannerExpires
    \/ Retire \/ Report \/ Leave

PlannerFault == PlannerFails \/ PlannerKilled \/ RetireFails

-----------------------------------------------------------------------------
(* A worker. *)

(* Mutant of HasWork: the worker follows the commands of the session. *)
FollowsSession(w) == wseen[w] < Len(commands)

HasWork(w) == wseen[w] < wcommands[w]

(* A command is taken up: `finish` ends the loop, a stage starts a gate. *)
TakeWork(w) ==
    /\ wpc[w] = "waiting" /\ HasWork(w) /\ w \notin wexpired
    /\ IF commands[wseen[w] + 1] = "finish"
       THEN /\ wresult' = [wresult EXCEPT ![w] = "passed"]
            /\ wpc' = [wpc EXCEPT ![w] = "leaving"]
       ELSE /\ wpc' = [wpc EXCEPT ![w] = "starting"]
            /\ UNCHANGED wresult
    /\ UNCHANGED <<hostVars, commands, plannerVars, wseen, wcommands,
                   admitted, wreplies, clocks, faults>>

(* gate.start has returned: the admission is written. *)
StartGate(w) ==
    /\ wpc[w] = "starting"
    /\ admitted' = [admitted EXCEPT ![w] = wseen[w] + 1]
    /\ wpc' = [wpc EXCEPT ![w] = "running"]
    /\ UNCHANGED <<hostVars, commands, plannerVars, wseen, wcommands,
                   wreplies, wresult, clocks, faults>>

RunTasks(w) ==
    /\ wpc[w] = "running" /\ w \notin wexpired
    /\ wreplies' = [wreplies EXCEPT ![w] = wseen[w] + 1]
    /\ wseen' = [wseen EXCEPT ![w] = @ + 1]
    /\ wpc' = [wpc EXCEPT ![w] = "waiting"]
    /\ UNCHANGED <<hostVars, commands, plannerVars, wcommands, admitted,
                   wresult, clocks, faults>>

Give(w, status) ==
    /\ wresult' = [wresult EXCEPT ![w] = status]
    /\ wpc' = [wpc EXCEPT ![w] = "leaving"]
    /\ UNCHANGED <<hostVars, commands, plannerVars, wseen, wcommands,
                   admitted, wreplies, clocks>>

WorkerExpires(w) ==
    /\ wpc[w] \in {"waiting", "running"} /\ w \in wexpired
    /\ Give(w, "deadline") /\ UNCHANGED faults

WorkerLeaves(w) ==
    /\ wpc[w] = "leaving"
    /\ wpc' = [wpc EXCEPT ![w] = "ended"]
    /\ UNCHANGED <<hostVars, commands, plannerVars, wseen, wcommands,
                   admitted, wreplies, wresult, clocks, faults>>

(* The planner held the last handle of the workers' Job. *)
OrphanDies(w) ==
    /\ ppc \in Gone /\ wpc[w] \notin Gone
    /\ wpc' = [wpc EXCEPT ![w] = "killed"]
    /\ UNCHANGED <<hostVars, commands, plannerVars, wseen, wcommands,
                   admitted, wreplies, wresult, clocks, faults>>

WorkerFails(w) ==
    /\ wpc[w] \in {"waiting", "starting", "running"} /\ Fault
    /\ \E status \in {"declined", "source_changed"} : Give(w, status)

(* Killed, or out of memory before a failure reply was armed. *)
WorkerKilled(w) ==
    /\ wpc[w] \notin Gone /\ Fault
    /\ wpc' = [wpc EXCEPT ![w] = "killed"]
    /\ UNCHANGED <<hostVars, commands, plannerVars, wseen, wcommands,
                   admitted, wreplies, wresult, clocks>>

WorkerStep(w) ==
    \/ TakeWork(w) \/ StartGate(w) \/ RunTasks(w)
    \/ WorkerExpires(w) \/ WorkerLeaves(w) \/ OrphanDies(w)

WorkerFault(w) == WorkerFails(w) \/ WorkerKilled(w)

-----------------------------------------------------------------------------
(* The caller and the clocks. *)

(* The caller cancels or its overall deadline passes: early while the      *)
(* processes are still the host's to retire, late afterwards.              *)
Revoke ==
    /\ revoked = "no" /\ outcome = "none"
    /\ revoked' = IF hpc \in {"planning", "starting", "waiting", "finishing",
                              "closing"}
                  THEN "early" ELSE "late"
    /\ UNCHANGED <<hpc, why, outcome, stages, commands, plannerVars,
                   workerVars, clocks, faults>>

(* A clock runs out, where its reader is about to read it: sooner would    *)
(* not be noticed.                                                         *)
Expire(clock) ==
    /\ clock \notin expired
    /\ CASE clock = "host" ->
                hpc \in {"planning", "starting", "waiting", "finishing",
                        "verifying"}
         [] clock = "planner" -> ppc = "waiting"
         [] OTHER -> ppc \in {"admitting", "collecting", "joining"}
    /\ expired' = expired \cup {clock}
    /\ UNCHANGED <<hostVars, commands, plannerVars, workerVars, wexpired,
                   faults>>

ExpireWorker(w) ==
    /\ w \notin wexpired /\ wpc[w] \in {"waiting", "running"}
    /\ wexpired' = wexpired \cup {w}
    /\ UNCHANGED <<hostVars, commands, plannerVars, workerVars, expired,
                   faults>>

(* The caller has its answer: the one way to stop. *)
Over == outcome # "none" /\ UNCHANGED vars

Next ==
    \/ HostStep \/ HostFault
    \/ PlannerStep \/ PlannerFault
    \/ \E w \in Workers : WorkerStep(w) \/ WorkerFault(w)
    \/ Revoke
    \/ \E clock \in Clocks : Expire(clock)
    \/ \E w \in Workers : ExpireWorker(w)
    \/ Over

(* Only the host and its clock are counted on: a planner or a worker may    *)
(* hang, and nothing obliges a fault or the caller.                        *)
Fairness == WF_vars(HostStep) /\ WF_vars(Expire("host"))

Spec == Init /\ [][Next]_vars /\ Fairness

-----------------------------------------------------------------------------
(* Properties. *)

HostStates == {"planning", "starting", "waiting", "finishing", "closing",
               "verifying", "declined", "replaying", "done"}
PlannerStates == {"absent", "ended", "killed", "spawning", "waiting",
                  "dispatching", "admitting", "collecting", "joining",
                  "retiring", "reporting", "leaving"}
WorkerStates == {"absent", "ended", "killed", "waiting", "starting",
                 "running", "leaving"}

HostTypes ==
    /\ hpc \in HostStates
    /\ why \in {"none", "accepted", "declined", "terminal"}
    /\ outcome \in {"none", "parallel", "serial", "terminal"}
    /\ stages \in Seq(Kinds) /\ commands \in Seq(Kinds \cup {"finish"})

PlannerTypes ==
    /\ ppc \in PlannerStates
    /\ at \in Workers /\ seen \in Nat /\ replies \in Nat
    /\ verdict \in Statuses /\ presult \in Statuses \cup {"none"}

WorkerTypes ==
    /\ wpc \in [Workers -> WorkerStates]
    /\ wresult \in [Workers -> Statuses \cup {"none"}]
    /\ wseen \in [Workers -> Nat] /\ wcommands \in [Workers -> Nat]
    /\ admitted \in [Workers -> Nat] /\ wreplies \in [Workers -> Nat]

OtherTypes ==
    /\ revoked \in {"no", "early", "late"}
    /\ expired \subseteq Clocks /\ wexpired \subseteq Workers
    /\ faults \in 0..MaxFaults

(* Types of the variables. *)
TypeOK == HostTypes /\ PlannerTypes /\ WorkerTypes /\ OtherTypes

(* "The producer must finish before either results or serial replay        *)
(* escape": no process is alive when the host verifies, replays or answers *)
(* with values, whatever ended the session and however far it had come.    *)
RetiredBeforeOutcome ==
    \/ hpc \in {"verifying", "declined", "replaying"}
    \/ outcome \in {"parallel", "serial"}
    => AllGone

(* A parallel answer stands for a session that came to its end: the planner *)
(* and every worker left by themselves after exactly the accepted stages.  *)
AcceptedIsComplete ==
    hpc = "verifying" \/ outcome = "parallel" =>
        \/ ppc = "absent" /\ stages = <<>>
        \/ /\ presult = "passed" /\ ppc = "ended"
           /\ commands = Append(stages, "finish")
           /\ \A w \in Workers :
                  /\ wresult[w] = "passed" /\ wpc[w] = "ended"
                  /\ wreplies[w] = Len(stages)

(* Host, planner and workers never drift apart by more than the stage in   *)
(* hand: nobody runs ahead of the commands or answers one twice.           *)
Lockstep ==
    /\ Len(stages) <= replies /\ replies = seen /\ seen <= Len(commands)
    /\ Len(commands) <= Len(stages) + 1
    /\ \A w \in Workers :
           /\ seen <= wseen[w] /\ wseen[w] <= seen + 1
           /\ wseen[w] <= admitted[w] /\ admitted[w] <= wcommands[w]
           /\ wcommands[w] <= seen + 1 /\ wcommands[w] <= Len(commands)

(* At most StartupConcurrency workers start a gate at once, also across    *)
(* the batches of a stage: a batch is told only when every worker of the   *)
(* one before is admitted.                                                 *)
StartupBounded ==
    Cardinality({w \in Workers : wpc[w] = "starting"}) <= StartupConcurrency

(* "Consumed owned deadline is terminal": in whatever order the deadlines  *)
(* of host, planner and workers pass, and whoever notices first, without a *)
(* failure somewhere the host answers with values or raises.  Clocks alone *)
(* cause a serial replay in one way only: the host's time runs out just    *)
(* before it would have started the planner.                               *)
ReplayNeedsFault ==
    hpc \in {"declined", "replaying"} =>
        faults > 0 \/ (ppc = "absent" /\ "host" \in expired)

(* "Cancellation wins": a caller that cancelled, or whose overall deadline *)
(* passed, before the processes were retired gets no values, neither       *)
(* parallel ones nor those of a serial replay.                             *)
CancellationWins == revoked = "early" => outcome \notin {"parallel", "serial"}

(* The host always answers, even if planner and workers hang: its own      *)
(* clock ends every wait.                                                  *)
HostDecides == <>(outcome # "none")

(* No process outlives the attempt for ever, not even one whose Job the    *)
(* host could not terminate, as long as whatever can move moves.           *)
AnyStep ==
    \/ HostStep \/ PlannerStep \/ \E w \in Workers : WorkerStep(w)
    \/ \E clock \in Clocks : Expire(clock)
    \/ \E w \in Workers : ExpireWorker(w)
EverythingEnds == WF_vars(AnyStep) => <>[]AllGone

=============================================================================
