----------------------------- MODULE HostdoExec -----------------------------
(***************************************************************************)
(* Host command execution: POST /exec from the first check of a request to *)
(* the end of its command.  A request is synchronous (its handler waits)   *)
(* or detached (a job of the registry, with a task of its own).  A request *)
(* the policy prompts for goes through the approval queue to the event     *)
(* loop, whose answer races the five-minute limit, a kill of the job, a    *)
(* cancellation in the interface, the close of the session and a client    *)
(* that hangs up.                                                          *)
(*                                                                         *)
(* What the rules say, output, input and wording are left out; an activity *)
(* shows what its last event said or the interface has set since.          *)
(***************************************************************************)
EXTENDS Naturals, Sequences, FiniteSets, Functions

CONSTANTS
  Request,      \* requests; a client that tries again makes a new one
  Session,      \* sessions
  Owner,        \* the session of each request
  Kinds,        \* the kinds of requests that may come
  MaxPermits,   \* handlers that may run at once
  MaxActive,    \* jobs that may run at once
  MaxTotal,     \* jobs the registry remembers
  QueueCap      \* room in the approval queue

AnyKind == [detached : BOOLEAN, auto : BOOLEAN, image : BOOLEAN]

ASSUME HostdoAssumption ==
  /\ Owner \in [Request -> Session]
  /\ Kinds \subseteq AnyKind
  /\ MaxPermits \in Nat /\ QueueCap \in Nat
  /\ MaxActive \in Nat /\ MaxTotal \in Nat /\ MaxActive <= MaxTotal

VARIABLES
  pc,       \* where the handler or the task of a request is
  kind,     \* how it asked and what the policy said
  open,     \* sessions the registry knows
  queue,    \* approval queue, from the handlers to the event loop
  pending,  \* approvals the event loop shows
  reply,    \* what the event loop answered
  cancel,   \* the cancel flag
  child,    \* the host process
  held,     \* a descendant of the process holds its output open
  job,      \* the registry's entry
  born,     \* the order in which jobs were registered
  audit,    \* audit entries written for the request
  shown,    \* state the interface shows, with the events on their way
  result    \* how it ended

vars == <<pc, kind, open, queue, pending, reply, cancel, child, held, job,
          born, audit, shown, result>>
gateVars == <<open, queue, pending, reply>>
procVars == <<child, held>>
jobVars == <<job, born>>

Stage == {"new", "admitted", "sending", "waiting", "imaging", "pulling",
          "spawning", "running", "draining", "ending", "done", "gone"}
InHandler == {"sending", "waiting", "imaging", "pulling", "spawning",
              "running", "draining", "ending"}
Over == {"done", "gone"}
Finished == {"complete", "failed", "cancelled", "denied"}   \* activity states
NoKind == [detached |-> FALSE, auto |-> FALSE, image |-> FALSE]

Init ==
  /\ pc = [r \in Request |-> "new"]
  /\ kind = [r \in Request |-> NoKind]
  /\ open = Session
  /\ queue = <<>> /\ pending = {}
  /\ reply = [r \in Request |-> "none"]
  /\ cancel = [r \in Request |-> FALSE]
  /\ child = [r \in Request |-> "none"]
  /\ held = [r \in Request |-> FALSE]
  /\ job = [r \in Request |-> "none"]
  /\ born = [r \in Request |-> 0]
  /\ audit = [r \in Request |-> <<>>]
  /\ shown = [r \in Request |-> "none"]
  /\ result = [r \in Request |-> "none"]

-----------------------------------------------------------------------------
(* The registry of jobs *)

Known == {r \in Request : job[r] \in {"running", "complete", "failed"}}
Active == {r \in Request : job[r] = "running"}

\* A job is refused when enough of them run.
Full == Cardinality(Active) >= MaxActive

\* Mutant: a job that runs may be dropped as well.
DroppableAll == Known

\* Only a finished job may be dropped, the oldest first.
Droppable == {r \in Known : job[r] # "running"}
Oldest(S) == CHOOSE r \in S : \A s \in S : born[r] <= born[s]

\* Register a job; at the ceiling the oldest finished one makes room.
Insert(r, state) ==
  LET full == Cardinality(Known) >= MaxTotal /\ Droppable # {} IN
  /\ job' = [s \in Request |-> IF s = r THEN state
                               ELSE IF full /\ s = Oldest(Droppable)
                                 THEN "forgotten" ELSE job[s]]
  /\ born' = [born EXCEPT ![r] = Cardinality({s \in Request : born[s] > 0}) + 1]

\* Change the entry of a job, if the request has one that is not dropped.
JobAfter(r, state) ==
  [job EXCEPT ![r] = IF r \in Known THEN state ELSE @]

\* Time or the output budget drops a finished job.
Forget ==
  /\ Droppable # {}
  /\ job' = [job EXCEPT ![Oldest(Droppable)] = "forgotten"]
  /\ UNCHANGED <<pc, kind, gateVars, cancel, procVars, born, audit, shown,
                 result>>

-----------------------------------------------------------------------------
(* The handler *)

Permits == {r \in Request : \/ pc[r] = "admitted"
                            \/ ~kind[r].detached /\ pc[r] \in InHandler}

\* The request ends: what the client is told, and the activity's last state.
End(r, how, state) ==
  /\ pc' = [pc EXCEPT ![r] = "done"]
  /\ result' = [result EXCEPT ![r] = how]
  /\ shown' = [shown EXCEPT ![r] = state]
Audit(r, entry) == audit' = [audit EXCEPT ![r] = Append(@, entry)]

\* Refused by the rules, by the guard of the rules, or for its directory or
\* workspace; rules that cannot be read leave no entry.
Refuse(r) ==
  /\ pc[r] = "new"
  /\ Owner[r] \in open
  /\ Cardinality(Permits) < MaxPermits
  /\ pc' = [pc EXCEPT ![r] = "done"]
  /\ result' = [result EXCEPT ![r] = "refused"]
  /\ Audit(r, "policy") \/ UNCHANGED audit
  /\ UNCHANGED <<kind, gateVars, cancel, procVars, jobVars, shown>>

\* The checks pass; a detached request looked at the registry first.  The
\* activity is announced.
Admit(r, k) ==
  /\ pc[r] = "new"
  /\ Owner[r] \in open
  /\ Cardinality(Permits) < MaxPermits
  /\ k.detached => ~Full
  /\ pc' = [pc EXCEPT ![r] = "admitted"]
  /\ kind' = [kind EXCEPT ![r] = k]
  /\ shown' = [shown EXCEPT ![r] = IF ~k.auto THEN "pending"
                                   ELSE IF k.image THEN "pulling" ELSE "running"]
  /\ UNCHANGED <<gateVars, cancel, procVars, jobVars, audit, result>>

FirstStage(r) == IF kind[r].image THEN "imaging" ELSE "spawning"

\* A synchronous request goes on in its handler.
EnterSync(r) ==
  /\ pc[r] = "admitted" /\ ~kind[r].detached
  /\ pc' = [pc EXCEPT ![r] = IF kind[r].auto THEN FirstStage(r) ELSE "sending"]
  /\ UNCHANGED <<kind, gateVars, cancel, procVars, jobVars, audit, shown,
                 result>>

\* A detached one is registered; others may have filled the registry since.
EnterFull(r) ==
  /\ pc[r] = "admitted" /\ kind[r].detached /\ Full
  /\ cancel' = [cancel EXCEPT ![r] = @ \/ ~kind[r].auto]
  /\ End(r, "busy", "failed")
  /\ UNCHANGED <<kind, gateVars, procVars, jobVars, audit>>

\* Mutant: the registry is not looked at again when the job is registered.
EnterAutoUnchecked(r) ==
  /\ pc[r] = "admitted" /\ kind[r].detached /\ kind[r].auto
  /\ Insert(r, "running")
  /\ pc' = [pc EXCEPT ![r] = FirstStage(r)]
  /\ UNCHANGED <<kind, gateVars, cancel, procVars, audit, shown, result>>

\* One the policy lets pass starts at once.
EnterAuto(r) ==
  /\ pc[r] = "admitted" /\ kind[r].detached /\ kind[r].auto /\ ~Full
  /\ Insert(r, "running")
  /\ pc' = [pc EXCEPT ![r] = FirstStage(r)]
  /\ UNCHANGED <<kind, gateVars, cancel, procVars, audit, shown, result>>

\* A job that needs approval is queued, or fails at once when there is no room.
EnterPrompt(r) ==
  /\ pc[r] = "admitted" /\ kind[r].detached /\ ~kind[r].auto /\ ~Full
  /\ IF Len(queue) < QueueCap
       THEN /\ Insert(r, "running")
            /\ queue' = Append(queue, r)
            /\ pc' = [pc EXCEPT ![r] = "waiting"]
            /\ UNCHANGED <<shown, result>>
       ELSE /\ Insert(r, "failed")
            /\ End(r, "busy", "failed")
            /\ UNCHANGED queue
  /\ UNCHANGED <<kind, open, pending, reply, cancel, procVars, audit>>

\* A synchronous request waits for room in the queue.
Send(r) ==
  /\ pc[r] = "sending"
  /\ Len(queue) < QueueCap
  /\ queue' = Append(queue, r)
  /\ pc' = [pc EXCEPT ![r] = "waiting"]
  /\ UNCHANGED <<kind, open, pending, reply, cancel, procVars, jobVars, audit,
                 shown, result>>

-----------------------------------------------------------------------------
(* The event loop and the user's decisions *)

Take ==
  /\ queue # <<>>
  /\ pending' = pending \cup {Head(queue)}
  /\ queue' = Tail(queue)
  /\ UNCHANGED <<pc, kind, open, reply, cancel, procVars, jobVars, audit, shown,
                 result>>

\* An answer is lost when nobody waits for it any more.
Answered(f, S, decision) ==
  [r \in Request |-> IF r \in S /\ pc[r] = "waiting" THEN decision ELSE f[r]]

\* The user allows or denies; an approval is turned into a denial while the
\* rules file is not trusted.
Decide(r, decision) ==
  /\ r \in pending
  /\ reply' = Answered(reply, {r}, decision)
  /\ pending' = pending \ {r}
  /\ UNCHANGED <<pc, kind, open, queue, cancel, procVars, jobVars, audit, shown,
                 result>>

\* The interface calls activities cancelled; an event on its way overwrites that.
CalledOff(S) ==
  \E stay \in SUBSET S :
    shown' = [r \in Request |-> IF r \in stay THEN "cancelled" ELSE shown[r]]

\* Ctrl+C on an activity: the flag is raised, and a prompt for it is denied.  One
\* without a prompt is shown as cancelled, whatever its task is doing.
CancelActivity(r) ==
  /\ shown[r] # "none"
  /\ cancel' = [cancel EXCEPT ![r] = TRUE]
  /\ reply' = Answered(reply, {r} \cap pending, "deny")
  /\ pending' = pending \ {r}
  /\ CalledOff({r} \ pending)
  /\ UNCHANGED <<pc, kind, open, queue, procVars, jobVars, audit, result>>

\* A session closes: its prompts are denied and called off, those still queued
\* are not.
CloseSession(s) ==
  LET its == {r \in pending : Owner[r] = s} IN
  /\ s \in open
  /\ open' = open \ {s}
  /\ reply' = Answered(reply, its, "deny")
  /\ pending' = pending \ its
  /\ CalledOff(its)
  /\ UNCHANGED <<pc, kind, queue, cancel, procVars, jobVars, audit, result>>

\* The session asks to kill one of its jobs.
Kill(r) ==
  /\ Owner[r] \in open
  /\ job[r] = "running"
  /\ cancel' = [cancel EXCEPT ![r] = TRUE]
  /\ UNCHANGED <<pc, kind, gateVars, procVars, jobVars, audit, shown, result>>

-----------------------------------------------------------------------------
(* The wait for approval ends *)

\* Mutants: the limit counts as an approval; only the handler has the limit, and
\* the task waits without one.
ExpireAllows(r) ==
  /\ pc[r] = "waiting" /\ reply[r] = "none"
  /\ pc' = [pc EXCEPT ![r] = FirstStage(r)]
  /\ UNCHANGED <<kind, gateVars, cancel, procVars, jobVars, audit, shown, result>>
ExpireInHandler(r) ==
  /\ pc[r] = "waiting" /\ reply[r] = "none" /\ ~kind[r].detached
  /\ job' = JobAfter(r, "failed")
  /\ End(r, "expired", "failed")
  /\ Audit(r, "timedout")
  /\ UNCHANGED <<kind, gateVars, cancel, procVars, born>>

\* Five minutes have passed and no answer has come.
Expire(r) ==
  /\ pc[r] = "waiting" /\ reply[r] = "none"
  /\ job' = JobAfter(r, "failed")
  /\ End(r, "expired", "failed")
  /\ Audit(r, "timedout")
  /\ UNCHANGED <<kind, gateVars, cancel, procVars, born>>

TakeDeny(r) ==
  /\ pc[r] = "waiting" /\ reply[r] = "deny"
  /\ job' = JobAfter(r, "failed")
  /\ End(r, "denied", IF cancel[r] THEN "cancelled" ELSE "denied")
  /\ Audit(r, "denied")
  /\ UNCHANGED <<kind, gateVars, cancel, procVars, born>>

TakeApprove(r) ==
  /\ pc[r] = "waiting" /\ reply[r] = "approve"
  /\ pc' = [pc EXCEPT ![r] = FirstStage(r)]
  /\ UNCHANGED <<kind, gateVars, cancel, procVars, jobVars, audit, shown, result>>

-----------------------------------------------------------------------------
(* The image of a command that runs in one *)

\* The image is there, or has to be pulled.
CheckImage(r) ==
  /\ pc[r] = "imaging"
  /\ \/ /\ pc' = [pc EXCEPT ![r] = "spawning"]
        /\ UNCHANGED shown
     \/ /\ pc' = [pc EXCEPT ![r] = "pulling"]
        /\ shown' = [shown EXCEPT ![r] = "pulling"]
  /\ UNCHANGED <<kind, gateVars, cancel, procVars, jobVars, audit, result>>

Pulled(r) ==
  /\ pc[r] = "pulling"
  /\ pc' = [pc EXCEPT ![r] = "spawning"]
  /\ UNCHANGED <<kind, gateVars, cancel, procVars, jobVars, audit, shown, result>>

\* No image: the check or the pull fails, is cancelled, or takes too long.
NoImage(r, state) ==
  /\ job' = JobAfter(r, "failed")
  /\ End(r, "unstarted", state)
  /\ UNCHANGED <<kind, gateVars, cancel, procVars, born, audit>>

CheckFails(r) == pc[r] = "imaging" /\ NoImage(r, "failed")
PullFails(r) == pc[r] = "pulling" /\ NoImage(r, "failed")
PullCancelled(r) == pc[r] = "pulling" /\ cancel[r] /\ NoImage(r, "cancelled")

-----------------------------------------------------------------------------
(* The command *)

Spawn(r) ==
  /\ pc[r] = "spawning"
  /\ pc' = [pc EXCEPT ![r] = "running"]
  /\ child' = [child EXCEPT ![r] = "running"]
  /\ shown' = [shown EXCEPT ![r] = "running"]
  /\ job' = JobAfter(r, "running")
  /\ UNCHANGED <<kind, gateVars, cancel, held, born, audit, result>>

\* The command cannot be built or started: the activity is not told.
SpawnFails(r) ==
  /\ pc[r] = "spawning"
  /\ pc' = [pc EXCEPT ![r] = "done"]
  /\ result' = [result EXCEPT ![r] = "unstarted"]
  /\ job' = JobAfter(r, "failed")
  /\ UNCHANGED <<kind, gateVars, cancel, procVars, born, audit, shown>>

\* The command ends by itself; a descendant may go on with its output.
ChildExits(r, descendant) ==
  /\ child[r] = "running"
  /\ child' = [child EXCEPT ![r] = "exited"]
  /\ held' = [held EXCEPT ![r] = descendant]
  /\ UNCHANGED <<pc, kind, gateVars, cancel, jobVars, audit, shown, result>>

DescendantEnds(r) ==
  /\ held[r]
  /\ held' = [held EXCEPT ![r] = FALSE]
  /\ UNCHANGED <<pc, kind, gateVars, cancel, child, jobVars, audit, shown, result>>

\* Mutant: the command is given up and goes on.
StopOnly(r, how) ==
  /\ pc[r] = "running"
  /\ pc' = [pc EXCEPT ![r] = "ending"]
  /\ result' = [result EXCEPT ![r] = how]
  /\ UNCHANGED <<kind, gateVars, cancel, procVars, jobVars, audit, shown>>

\* The flag or the time limit: the process group is killed and waited for.
Stop(r, how) ==
  /\ pc[r] = "running"
  /\ child' = [child EXCEPT ![r] = "killed"]
  /\ held' = [held EXCEPT ![r] = FALSE]
  /\ pc' = [pc EXCEPT ![r] = "ending"]
  /\ result' = [result EXCEPT ![r] = how]
  /\ UNCHANGED <<kind, gateVars, cancel, jobVars, audit, shown>>
StopOnCancel(r) == cancel[r] /\ Stop(r, "cancelled")
StopOnTimeout(r) == Stop(r, "timedout")

\* The exit is seen in a turn of the loop that saw no flag.
Reap(r) ==
  /\ pc[r] = "running" /\ ~cancel[r] /\ child[r] = "exited"
  /\ pc' = [pc EXCEPT ![r] = "draining"]
  /\ UNCHANGED <<kind, gateVars, cancel, procVars, jobVars, audit, shown, result>>

RunEntry(r) == IF kind[r].auto THEN "auto" ELSE "approved"

\* All output is read, without a time limit; or reading it fails.
Drained(r) ==
  /\ pc[r] = "draining" /\ ~held[r]
  /\ Audit(r, RunEntry(r))
  /\ End(r, "completed", "complete")
  /\ job' = JobAfter(r, "complete")
  /\ UNCHANGED <<kind, gateVars, cancel, procVars, born>>
DrainFails(r) ==
  /\ pc[r] = "draining"
  /\ pc' = [pc EXCEPT ![r] = "done"]
  /\ result' = [result EXCEPT ![r] = "unread"]
  /\ job' = JobAfter(r, "failed")
  /\ UNCHANGED <<kind, gateVars, cancel, procVars, born, audit, shown>>

\* Mutant: a command that was killed is not written to the history.
ReportOnly(r) ==
  /\ pc[r] = "ending"
  /\ End(r, result[r], IF result[r] = "cancelled" THEN "cancelled" ELSE "failed")
  /\ job' = JobAfter(r, "failed")
  /\ UNCHANGED <<kind, gateVars, cancel, procVars, born, audit>>

\* The killed command is reported.
Report(r) ==
  /\ pc[r] = "ending"
  /\ Audit(r, RunEntry(r))
  /\ End(r, result[r], IF result[r] = "cancelled" THEN "cancelled" ELSE "failed")
  /\ job' = JobAfter(r, "failed")
  /\ UNCHANGED <<kind, gateVars, cancel, procVars, born>>

\* The client of a synchronous request hangs up: its handler is dropped where
\* it waits, and the process it started is not killed.
Hangup(r) ==
  /\ ~kind[r].detached /\ pc[r] \in InHandler
  /\ pc' = [pc EXCEPT ![r] = "gone"]
  /\ UNCHANGED <<kind, gateVars, cancel, procVars, jobVars, audit, shown, result>>

-----------------------------------------------------------------------------
Handler(r) ==
  \/ Refuse(r) \/ \E k \in Kinds : Admit(r, k)
  \/ EnterSync(r) \/ EnterFull(r) \/ EnterAuto(r) \/ EnterPrompt(r)
User(r) ==
  \/ Decide(r, "approve") \/ Decide(r, "deny") \/ CancelActivity(r) \/ Kill(r)
Answer(r) == Expire(r) \/ TakeDeny(r) \/ TakeApprove(r)
Image(r) ==
  \/ CheckImage(r) \/ CheckFails(r)
  \/ Pulled(r) \/ PullFails(r) \/ PullCancelled(r)
Command(r) ==
  \/ Spawn(r) \/ SpawnFails(r) \/ StopOnCancel(r) \/ StopOnTimeout(r)
  \/ Reap(r) \/ Drained(r) \/ DrainFails(r) \/ Report(r)
World(r) ==
  \/ \E descendant \in BOOLEAN : ChildExits(r, descendant)
  \/ DescendantEnds(r) \/ Hangup(r)

Next ==
  \/ \E r \in Request : \/ Handler(r) \/ Send(r) \/ User(r) \/ Answer(r)
                        \/ Image(r) \/ Command(r) \/ World(r)
  \/ Take \/ Forget
  \/ \E s \in Session : CloseSession(s)

Spec == Init /\ [][Next]_vars

(***************************************************************************)
(* The event loop takes what is queued; tasks run on; the timers of the    *)
(* approval, of the pull and of the command go off.  The queue serves      *)
(* waiting senders in turn, hence strong fairness of Send.  Nothing is     *)
(* assumed of the user, the client, the command, its descendants, or of    *)
(* docker when asked whether it has an image.                              *)
(***************************************************************************)
Fairness ==
  /\ WF_vars(Take)
  /\ \A r \in Request :
       /\ WF_vars(EnterSync(r) \/ EnterFull(r) \/ EnterAuto(r) \/ EnterPrompt(r))
       /\ SF_vars(Send(r))
       /\ WF_vars(Answer(r))
       /\ WF_vars(Pulled(r) \/ PullFails(r))
       /\ WF_vars(Spawn(r) \/ SpawnFails(r))
       /\ WF_vars(StopOnTimeout(r))
       /\ WF_vars(Drained(r))
       /\ WF_vars(Report(r))

FairSpec == Spec /\ Fairness

-----------------------------------------------------------------------------
(* Properties *)

Results == {"none", "refused", "busy", "expired", "denied", "unstarted",
            "cancelled", "timedout", "completed", "unread"}
Entries == {"policy", "timedout", "denied", "auto", "approved"}

\* However many handlers look at the registry before any of them registers its
\* job, no more than the ceilings run and are remembered (handlers.rs, "new job
\* creation is refused").
RegistryBounded ==
  /\ Cardinality(Active) <= MaxActive
  /\ Cardinality(Known) <= MaxTotal

\* Every variable has its type, the queue and the registry keep within their
\* room, and no request is queued or shown before it has waited for an answer.
TypeOK ==
  /\ pc \in [Request -> Stage]
  /\ kind \in [Request -> AnyKind]
  /\ open \subseteq Session
  /\ queue \in Seq(Request) /\ Len(queue) <= QueueCap
  /\ pending \subseteq Request
  /\ reply \in [Request -> {"none", "approve", "deny"}]
  /\ cancel \in [Request -> BOOLEAN]
  /\ child \in [Request -> {"none", "running", "exited", "killed"}]
  /\ held \in [Request -> BOOLEAN]
  /\ job \in [Request -> {"none", "running", "complete", "failed", "forgotten"}]
  /\ born \in [Request -> Nat]
  /\ audit \in [Request -> Seq(Entries)]
  /\ shown \in [Request -> Finished \cup {"none", "pending", "pulling", "running"}]
  /\ result \in [Request -> Results]
  /\ RegistryBounded
  /\ \A r \in pending \cup Range(queue) : pc[r] \notin {"new", "admitted", "sending"}

\* A job is in the registry as running exactly while its task is alive: the
\* registry drops no job whose task still waits or runs, though it is full of
\* finished ones, and lists none whose task is over (ExecJobRegistry, insert
\* and update; run_job_after_approval).
RunningJobsAreKept ==
  \A r \in Request :
    job[r] = "running" <=> kind[r].detached /\ pc[r] \in InHandler

\* A command that is reported as ended, to the client, in the registry or in the
\* interface, does not run any more, and after a kill nor does its process group.
\* The interface calls one cancelled before it is dead (cancel_activity), but
\* never one whose task has not been told, and its task reports no other end of
\* it while it lives.
EndedIsDead ==
  \A r \in Request :
    /\ pc[r] = "done" \/ job[r] \in {"complete", "failed"}
         \/ shown[r] \in Finished \ {"cancelled"}
         => child[r] # "running" /\ (child[r] = "killed" => ~held[r])
    /\ shown[r] = "cancelled" /\ child[r] = "running" => cancel[r]

\* A request leaves one audit entry at most, and one that says a command ran
\* belongs to a process that was started; a process whose handler lived to see
\* its end and its output is in the history under the decision that let it run.
StartedIsAudited ==
  \A r \in Request :
    /\ Len(audit[r]) <= 1
    /\ Range(audit[r]) \cap {"auto", "approved"} # {} => child[r] # "none"
    /\ pc[r] = "done" /\ child[r] # "none" /\ result[r] # "unread"
         => audit[r] = <<RunEntry(r)>>

\* A request comes to rest, except where the code sets no limit: while docker
\* is asked for an image, and while a descendant holds the command's output.
NothingWaitsForever ==
  \A r \in Request : <>[](pc[r] \in Over \cup {"new", "imaging", "draining"})

(***************************************************************************)
(* What the gate promises: a command runs once, after the policy or the    *)
(* user allowed this very request, and never after a denial or a timeout.  *)
(***************************************************************************)
StageOf(r) ==
  IF child[r] = "running" THEN "running"
  ELSE IF child[r] # "none" \/ pc[r] \in Over THEN "over"
  ELSE IF pc[r] = "new" THEN "new"
  ELSE IF kind[r].auto \/ reply[r] = "approve" THEN "allowed"
  ELSE IF reply[r] = "deny" THEN "denied"
  ELSE "asked"

Gate == INSTANCE HostdoGate WITH stage <- [r \in Request |-> StageOf(r)]

\* The handlers, the event loop and the user together keep that promise.
GateHolds == Gate!Spec

-----------------------------------------------------------------------------
(* What the documents say of the code, and the code does not keep *)

\* "`hostdo` command timeouts now still apply while draining output from
\* processes whose parent has exited but whose descendants kept stdout or
\* stderr open" (CHANGELOG.md).
EveryCommandEnds ==
  \A r \in Request : pc[r] = "running" ~> pc[r] \in Over

=============================================================================
