---------------------------- MODULE HostdoProofs ----------------------------
(***************************************************************************)
(* Theorems about HostdoExec, for any requests, sessions, kinds of         *)
(* requests and ceilings: the registry of jobs keeps within its bounds and *)
(* lists the jobs that run, what is reported as ended is dead, what was    *)
(* started is in the history, and the whole implements the gate.           *)
(***************************************************************************)
EXTENDS HostdoExec, TLAPS, Facts

JobState == {"none", "running", "complete", "failed", "forgotten"}
Unasked == {"new", "admitted", "sending"}

\* The registered jobs, those the registry has dropped included.
Born == {r \in Request : born[r] > 0}

(***************************************************************************)
(* The inductive invariant.  The type invariant bounds the registry, which *)
(* says something only of finite sets.                                     *)
(***************************************************************************)
RegistryFinite == IsFiniteSet(Known) /\ IsFiniteSet(Born)

\* A prompt that a closing session has denied starts no command.
CalledOffUnstarted(r) ==
  /\ child[r] = "none"
  /\ pc[r] = "gone" \/ (pc[r] = "waiting" /\ reply[r] = "deny")

\* What a request may have at each stage of its handler.
Fits(r) ==
  /\ pc[r] \in Unasked => reply[r] = "none"
  /\ pc[r] \in {"new", "admitted"} => job[r] = "none"
  /\ job[r] \notin {"none", "running"} => pc[r] = "done"
  /\ shown[r] \in Finished \ {"cancelled"} => pc[r] = "done"
  /\ shown[r] = "cancelled" => cancel[r] \/ pc[r] = "done" \/ CalledOffUnstarted(r)
  /\ child[r] # "none" => pc[r] \in {"running", "draining", "ending"} \cup Over
  /\ child[r] # "none" => kind[r].auto \/ reply[r] = "approve"
  /\ pc[r] \in {"sending", "waiting"} => ~kind[r].auto
  /\ pc[r] = "running" => child[r] # "none"
  /\ pc[r] = "draining" => child[r] = "exited"
  /\ pc[r] = "ending" => child[r] = "killed"
  /\ pc[r] = "done" => child[r] # "running"
  /\ held[r] => child[r] = "exited"
  /\ pc[r] \in {"imaging", "pulling", "spawning"}
       => kind[r].auto \/ reply[r] = "approve"

\* The history is written when a request ends, and then once.
Recorded(r) ==
  /\ pc[r] # "done" => audit[r] = <<>>
  /\ audit[r] = <<>> \/ \E e \in Entries : audit[r] = <<e>>
  /\ audit[r] \in {<<"auto">>, <<"approved">>} => child[r] # "none"
  /\ pc[r] = "done" /\ child[r] # "none" /\ result[r] # "unread"
       => audit[r] = <<RunEntry(r)>>

\* A request is queued once, the policy did not let it pass, and it has no answer
\* while it is queued or shown.
AskedOnce ==
  /\ IsInjective(queue)
  /\ pending \cap Range(queue) = {}
  /\ \A r \in pending \cup Range(queue) : ~kind[r].auto /\ reply[r] = "none"

Inv ==
  /\ TypeOK
  /\ RegistryFinite
  /\ RunningJobsAreKept
  /\ \A r \in Request : Fits(r) /\ Recorded(r)
  /\ AskedOnce

-----------------------------------------------------------------------------
(* The registry *)

RegistryType == job \in [Request -> JobState] /\ born \in [Request -> Nat]
RegistryInv == RegistryType /\ RegistryBounded /\ RegistryFinite

\* Among registered jobs there is an oldest one.
LEMMA OldestIsOne ==
  ASSUME born \in [Request -> Nat], NEW S \in SUBSET Request, S # {}
  PROVE  Oldest(S) \in S
<1> DEFINE Ages == {born[s] : s \in S}
           Less == OpToRel(<, Nat)
<1>1. Ages \subseteq Nat /\ Ages # {}
  OBVIOUS
<1>2. \A i, j \in Nat : i < j => <<i, j>> \in Less
  BY Zenon DEF OpToRel
<1>3. IsWellFoundedOn(Less, Nat)
  BY NatLessThanWellFounded, Zenon
<1> HIDE DEF Less
<1>4. PICK age \in Ages : \A other \in Ages : <<other, age>> \notin Less
  <2> HIDE DEF Ages
  <2> QED BY <1>1, <1>3, WFMin
<1>5. \A other \in Ages : age <= other
  <2>1. \A other \in Ages : ~(other < age)
    BY <1>1, <1>2, <1>4, Zenon
  <2> QED BY <1>1, <2>1
<1>6. \E r \in S : \A s \in S : born[r] <= born[s]
  BY <1>4, <1>5
<1> QED BY <1>6 DEF Oldest

\* A registry with no more jobs, and none that runs but those that ran, is
\* within its bounds.
LEMMA RegistryShrinks ==
  ASSUME RegistryInv, RegistryType', Known' \subseteq Known,
         Active' \subseteq Active, UNCHANGED born
  PROVE  RegistryInv'
<1>1. Active \subseteq Known /\ IsFiniteSet(Known)
  BY DEF RegistryInv, RegistryFinite, Active, Known
<1>2. IsFiniteSet(Active)
  BY <1>1, FS_Subset
<1>3. /\ IsFiniteSet(Known') /\ Cardinality(Known') <= MaxTotal
      /\ Cardinality(Active') <= MaxActive
  BY <1>1, <1>2, SubsetBound, HostdoAssumption DEF RegistryInv, RegistryBounded
<1>4. Born' = Born
  BY DEF Born
<1> QED BY <1>3, <1>4 DEF RegistryInv, RegistryFinite, RegistryBounded

\* A change of state keeps the entry where it is.
LEMMA UpdateKept ==
  ASSUME RegistryInv, NEW r \in Request, NEW state \in JobState \ {"none", "forgotten"},
         state = "running" /\ r \in Known => job[r] = "running",
         job' = JobAfter(r, state), UNCHANGED born
  PROVE  RegistryInv'
<1>1. RegistryType'
  BY DEF RegistryInv, RegistryType, JobAfter, JobState
<1>2. Known' \subseteq Known /\ Active' \subseteq Active
  BY DEF RegistryInv, RegistryType, JobAfter, JobState, Known, Active
<1> QED BY <1>1, <1>2, RegistryShrinks

LEMMA ForgetKept ==
  ASSUME RegistryInv, Forget
  PROVE  RegistryInv'
<1>1. Oldest(Droppable) \in Droppable
  BY OldestIsOne DEF RegistryInv, RegistryType, Forget, Droppable, Known
<1>2. RegistryType'
  BY <1>1 DEF RegistryInv, RegistryType, Forget, Droppable, Known, JobState
<1>3. Known' \subseteq Known /\ Active' \subseteq Active
  BY <1>1 DEF RegistryInv, RegistryType, Forget, Droppable, Known, Active
<1> QED BY <1>2, <1>3, RegistryShrinks DEF Forget

\* The ceilings hold when a job is registered while fewer than MaxActive run: at
\* MaxTotal some of the jobs are finished, since no more than MaxActive run.
LEMMA InsertKept ==
  ASSUME RegistryInv, ~Full, NEW r \in Request, job[r] = "none",
         NEW state \in {"running", "failed"}, Insert(r, state)
  PROVE  RegistryInv'
<1> DEFINE old == Oldest(Droppable)
           atCeiling == Cardinality(Known) >= MaxTotal
           dropping == atCeiling /\ Droppable # {}
<1>1. /\ RegistryType
      /\ IsFiniteSet(Known) /\ IsFiniteSet(Born)
      /\ Active \subseteq Known /\ Droppable \subseteq Known
      /\ r \notin Known
  BY DEF RegistryInv, RegistryFinite, Active, Known, Droppable
<1>2. /\ IsFiniteSet(Active) /\ Cardinality(Active) \in Nat
      /\ Cardinality(Known) \in Nat /\ Cardinality(Born) \in Nat
  BY <1>1, FS_Subset, FS_CardinalityType
<1>3. dropping => old \in Droppable
  BY <1>1, OldestIsOne DEF RegistryType, Droppable, Known
<1>4. /\ job' = [s \in Request |-> IF s = r THEN state
                                   ELSE IF dropping /\ s = old THEN "forgotten"
                                   ELSE job[s]]
      /\ born' = [born EXCEPT ![r] = Cardinality(Born) + 1]
  BY DEF Insert, Born
<1>5. RegistryType'
  BY <1>1, <1>2, <1>4 DEF RegistryType, JobState
<1>6. Born' \subseteq Born \cup {r}
  BY <1>1, <1>2, <1>4 DEF RegistryType, Born
<1>7. Active' \subseteq Active \cup {r}
  BY <1>1, <1>4 DEF RegistryType, Active
<1>8. /\ Known' \subseteq Known \cup {r}
      /\ dropping => Known' \subseteq (Known \ {old}) \cup {r}
  BY <1>1, <1>3, <1>4 DEF RegistryType, Known, Droppable
<1>9. IsFiniteSet(Born')
  BY <1>1, <1>6, FS_AddElement, FS_Subset
<1>10. Cardinality(Active') <= MaxActive
  <2>1. /\ IsFiniteSet(Active \cup {r})
        /\ Cardinality(Active \cup {r}) <= MaxActive
    <3>1. Cardinality(Active) < MaxActive
      BY <1>2, HostdoAssumption DEF Full
    <3> QED BY <1>2, <3>1, AddBound, HostdoAssumption
  <2> QED BY <1>7, <2>1, SubsetBound, HostdoAssumption
<1>11. IsFiniteSet(Known') /\ Cardinality(Known') <= MaxTotal
  <2>1. CASE dropping
    <3>1. /\ IsFiniteSet((Known \ {old}) \cup {r})
          /\ Cardinality((Known \ {old}) \cup {r}) <= MaxTotal
      BY <1>1, <1>3, <2>1, SwapBound, HostdoAssumption
         DEF RegistryInv, RegistryBounded
    <3> QED BY <1>8, <2>1, <3>1, SubsetBound, HostdoAssumption
  <2>2. CASE ~atCeiling
    <3>1. /\ IsFiniteSet(Known \cup {r})
          /\ Cardinality(Known \cup {r}) <= MaxTotal
      <4>1. Cardinality(Known) < MaxTotal
        BY <1>2, <2>2, HostdoAssumption
      <4> QED BY <1>1, <4>1, AddBound, HostdoAssumption
    <3> QED BY <1>8, <3>1, SubsetBound, HostdoAssumption
  <2>3. CASE atCeiling /\ Droppable = {}
    <3>1. Known = Active
      BY <2>3 DEF Droppable, Known, Active
    <3> QED BY <1>2, <2>3, <3>1, HostdoAssumption DEF Full
  <2> QED BY <2>1, <2>2, <2>3
<1> QED BY <1>5, <1>9, <1>10, <1>11
        DEF RegistryInv, RegistryFinite, RegistryBounded

-----------------------------------------------------------------------------
(* Steps and the registry *)

LEMMA RegistryOf == Inv => RegistryInv
BY DEF Inv, TypeOK, RegistryInv, RegistryType, JobState

\* A command that starts has its job still running, if it has one.
LEMMA SpawnUpdates ==
  ASSUME Inv, NEW r \in Request, pc[r] = "spawning", r \in Known
  PROVE  job[r] = "running"
BY DEF Inv, Fits, Known

LEMMA NextRegistry == Inv /\ [Next]_vars => RegistryInv'
<1> SUFFICES ASSUME Inv, [Next]_vars
             PROVE  RegistryInv'
  OBVIOUS
<1>1. RegistryInv
  BY RegistryOf
<1>2. CASE UNCHANGED jobVars
  BY <1>1, <1>2 DEF RegistryInv, RegistryType, RegistryBounded, RegistryFinite,
                    Known, Active, Born, jobVars
<1>3. ASSUME NEW r \in Request, NEW state \in {"complete", "failed"},
             job' = JobAfter(r, state), UNCHANGED born
      PROVE  RegistryInv'
  BY <1>1, <1>3, UpdateKept DEF JobState
<1>4. ASSUME NEW r \in Request, Spawn(r)
      PROVE  RegistryInv'
  BY <1>1, <1>4, UpdateKept, SpawnUpdates DEF JobState, Spawn
<1>5. ASSUME NEW r \in Request, NEW state \in {"running", "failed"},
             pc[r] = "admitted", ~Full, Insert(r, state)
      PROVE  RegistryInv'
  BY <1>1, <1>5, InsertKept DEF Inv, Fits
<1>6. CASE Forget
  BY <1>1, <1>6, ForgetKept
<1>7. ASSUME NEW r \in Request,
             EnterAuto(r) \/ EnterPrompt(r)
      PROVE  RegistryInv'
  BY <1>5, <1>7 DEF EnterAuto, EnterPrompt
<1>8. ASSUME NEW r \in Request, Answer(r) \/ Image(r) \/ Command(r)
      PROVE  RegistryInv'
  BY <1>2, <1>3, <1>4, <1>8
     DEF Answer, Expire, TakeDeny, TakeApprove, Image, CheckImage, CheckFails,
         Pulled, PullFails, PullCancelled, NoImage, Command, SpawnFails,
         StopOnCancel, StopOnTimeout, Stop, Reap, Drained, DrainFails, Report
<1>9. ASSUME NEW r \in Request, Handler(r) \/ Send(r) \/ User(r) \/ World(r)
      PROVE  RegistryInv'
  BY <1>2, <1>7, <1>9
     DEF Handler, Refuse, Admit, EnterSync, EnterFull, Send, User, Decide,
         CancelActivity, Kill, World, ChildExits, DescendantEnds, Hangup
<1>10. ASSUME Take \/ \E s \in Session : CloseSession(s)
       PROVE  RegistryInv'
  BY <1>2, <1>10 DEF Take, CloseSession
<1>11. CASE UNCHANGED vars
  BY <1>2, <1>11 DEF vars, jobVars
<1> QED BY <1>6, <1>8, <1>9, <1>10, <1>11 DEF Next

-----------------------------------------------------------------------------
(* The queue *)

QueueInv ==
  /\ queue \in Seq(Request) /\ Len(queue) <= QueueCap
  /\ pending \subseteq Request
  /\ AskedOnce
  /\ \A r \in pending \cup Range(queue) : pc[r] \notin Unasked

LEMMA NextQueue == Inv /\ [Next]_vars => QueueInv'
<1> SUFFICES ASSUME Inv, [Next]_vars
             PROVE  QueueInv'
  OBVIOUS
<1>1. QueueInv
  BY DEF Inv, TypeOK, QueueInv, Unasked
<1>2. /\ Range(queue) \subseteq Request
      /\ pc \in [Request -> Stage] /\ reply \in [Request -> {"none", "approve", "deny"}]
      /\ kind \in [Request -> AnyKind]
  BY RangeOfSeq DEF Inv, TypeOK
<1>3. ASSUME UNCHANGED <<queue, pending, reply>>,
             \A r \in Request : kind'[r] = kind[r] \/ pc[r] \in Unasked,
             \A r \in Request : pc'[r] = pc[r] \/ pc'[r] \notin Unasked
                                \/ pc[r] \in Unasked
      PROVE  QueueInv'
  BY <1>1, <1>2, <1>3 DEF QueueInv, AskedOnce
<1>4. ASSUME NEW r \in Request, pc[r] \in Unasked, Len(queue) < QueueCap,
             ~kind[r].auto,
             queue' = Append(queue, r), pc' = [pc EXCEPT ![r] = "waiting"],
             UNCHANGED <<pending, reply, kind>>
      PROVE  QueueInv'
  <2>1. r \notin pending \cup Range(queue) /\ reply[r] = "none"
    BY <1>1, <1>4 DEF QueueInv, Inv, Fits
  <2>2. /\ queue' \in Seq(Request) /\ Len(queue') = Len(queue) + 1
        /\ Range(queue') = Range(queue) \cup {r}
        /\ IsInjective(queue')
    BY <1>1, <1>4, <2>1, AppendOnce DEF QueueInv, AskedOnce
  <2>3. Len(queue') <= QueueCap
    BY <1>1, <1>4, <2>2, LenProperties, HostdoAssumption DEF QueueInv
  <2> QED BY <1>1, <1>2, <1>4, <2>1, <2>2, <2>3 DEF QueueInv, AskedOnce, Unasked
<1>5. CASE Take
  <2>1. /\ Head(queue) \in Request /\ Head(queue) \in Range(queue)
        /\ queue' \in Seq(Request) /\ Len(queue') <= Len(queue)
        /\ Range(queue') \subseteq Range(queue) \ {Head(queue)}
        /\ IsInjective(queue')
    BY <1>1, <1>5, TailOnce DEF QueueInv, AskedOnce, Take
  <2>2. Len(queue') <= QueueCap
    BY <1>1, <2>1, LenProperties, HostdoAssumption DEF QueueInv
  <2> QED BY <1>1, <1>2, <1>5, <2>1, <2>2 DEF QueueInv, AskedOnce, Take
<1>6. ASSUME NEW S \in SUBSET pending, NEW decision,
             reply' = Answered(reply, S, decision), pending' = pending \ S,
             UNCHANGED <<queue, pc, kind>>
      PROVE  QueueInv'
  BY <1>1, <1>2, <1>6 DEF QueueInv, AskedOnce, Answered
<1>7. ASSUME NEW r \in Request,
             Refuse(r) \/ (\E k \in Kinds : Admit(r, k)) \/ EnterSync(r)
               \/ EnterFull(r) \/ EnterAuto(r) \/ Kill(r)
      PROVE  QueueInv'
  BY <1>2, <1>3, <1>7
     DEF Refuse, Admit, EnterSync, EnterFull, EnterAuto, Kill, End, Unasked, gateVars
<1>8. ASSUME NEW r \in Request, EnterPrompt(r)
      PROVE  QueueInv'
  <2>1. CASE Len(queue) < QueueCap
    BY <1>4, <1>8, <2>1 DEF EnterPrompt, Unasked
  <2>2. CASE ~(Len(queue) < QueueCap)
    BY <1>2, <1>3, <1>8, <2>2 DEF EnterPrompt, End, Unasked
  <2> QED BY <2>1, <2>2
<1>9. ASSUME NEW r \in Request, Send(r)
      PROVE  QueueInv'
  BY <1>4, <1>9 DEF Send, Unasked, Inv, Fits
<1>10. ASSUME NEW r \in Request, Decide(r, "approve") \/ Decide(r, "deny")
       PROVE  QueueInv'
  BY <1>6, <1>10 DEF Decide
<1>11. ASSUME NEW r \in Request, CancelActivity(r)
       PROVE  QueueInv'
  <2>1. pending \ {r} = pending \ ({r} \cap pending)
    OBVIOUS
  <2> QED BY <1>6, <1>11, <2>1 DEF CancelActivity
<1>12. ASSUME NEW s \in Session, CloseSession(s)
       PROVE  QueueInv'
  BY <1>6, <1>12 DEF CloseSession
<1>13. ASSUME NEW r \in Request, Answer(r) \/ Image(r)
       PROVE  QueueInv'
  BY <1>2, <1>3, <1>13
     DEF Answer, Expire, TakeDeny, TakeApprove, Image, CheckImage, CheckFails,
         Pulled, PullFails, PullCancelled, NoImage, End, FirstStage, Unasked, gateVars
<1>14. ASSUME NEW r \in Request, Command(r) \/ World(r)
       PROVE  QueueInv'
  BY <1>2, <1>3, <1>14
     DEF Command, Spawn, SpawnFails, StopOnCancel, StopOnTimeout, Stop, Reap,
         Drained, DrainFails, Report, World, ChildExits, DescendantEnds, Hangup,
         End, InHandler, Unasked, gateVars
<1>15. CASE Forget \/ UNCHANGED vars
  BY <1>3, <1>15 DEF Forget, vars, gateVars
<1> QED BY <1>5, <1>7, <1>8, <1>9, <1>10, <1>11, <1>12, <1>13, <1>14, <1>15
        DEF Next, Handler, User

-----------------------------------------------------------------------------
(* The stages of a request *)

StageTypes ==
  /\ pc \in [Request -> Stage]
  /\ kind \in [Request -> AnyKind]
  /\ reply \in [Request -> {"none", "approve", "deny"}]
  /\ cancel \in [Request -> BOOLEAN]
  /\ child \in [Request -> {"none", "running", "exited", "killed"}]
  /\ held \in [Request -> BOOLEAN]
  /\ audit \in [Request -> Seq(Entries)]
  /\ shown \in [Request -> Finished \cup {"none", "pending", "pulling", "running"}]
  /\ result \in [Request -> Results]
  /\ open \subseteq Session

LEMMA AuditType ==
  ASSUME audit \in [Request -> Seq(Entries)], NEW r, NEW e \in Entries, Audit(r, e)
  PROVE  audit' \in [Request -> Seq(Entries)]
<1>1. ASSUME NEW s \in Request
      PROVE  Append(audit[s], e) \in Seq(Entries)
  BY AppendProperties
<1>2. audit' = [s \in Request |-> IF s = r THEN Append(audit[s], e) ELSE audit[s]]
  BY DEF Audit
<1> QED BY <1>1, <1>2, Zenon

LEMMA NextTypes == Inv /\ [Next]_vars => StageTypes'
<1> SUFFICES ASSUME Inv, [Next]_vars
             PROVE  StageTypes'
  OBVIOUS
<1>1. StageTypes
  BY DEF Inv, TypeOK, StageTypes
<1> USE DEF StageTypes, Stage, Results, Finished, gateVars, procVars, End
<1>2. ASSUME NEW r \in Request
      PROVE  FirstStage(r) \in Stage /\ RunEntry(r) \in Entries
  BY DEF FirstStage, RunEntry, Entries
<1>3. ASSUME NEW r \in Request, Refuse(r)
      PROVE  StageTypes'
  BY <1>1, <1>3, AuditType DEF Refuse, Entries
<1>4. ASSUME NEW r \in Request, NEW k \in Kinds, Admit(r, k)
      PROVE  StageTypes'
  BY <1>1, <1>4, HostdoAssumption DEF Admit
<1>5. ASSUME NEW r \in Request,
             EnterSync(r) \/ EnterFull(r) \/ EnterAuto(r) \/ EnterPrompt(r) \/ Send(r)
      PROVE  StageTypes'
  BY ZenonT(60), <1>1, <1>2, <1>5 DEF EnterSync, EnterFull, EnterAuto, EnterPrompt, Send
<1>6. ASSUME NEW r \in Request, User(r)
      PROVE  StageTypes'
  <2>1. ASSUME NEW S, NEW decision \in {"approve", "deny"}
        PROVE  Answered(reply, S, decision)
                 \in [Request -> {"none", "approve", "deny"}]
    BY <1>1, <2>1 DEF Answered
  <2>2. ASSUME NEW decision \in {"approve", "deny"}, Decide(r, decision)
        PROVE  StageTypes'
    BY <1>1, <2>1, <2>2 DEF Decide
  <2>3. CASE CancelActivity(r)
    BY <1>1, <2>1, <2>3 DEF CancelActivity, CalledOff
  <2>4. CASE Kill(r)
    BY <1>1, <2>4 DEF Kill
  <2> QED BY <1>6, <2>2, <2>3, <2>4 DEF User
<1>7. ASSUME NEW s \in Session, CloseSession(s)
      PROVE  StageTypes'
  BY <1>1, <1>7 DEF CloseSession, CalledOff, Answered
<1>8. ASSUME NEW r \in Request, Answer(r)
      PROVE  StageTypes'
  BY <1>1, <1>2, <1>8, AuditType DEF Answer, Expire, TakeDeny, TakeApprove, Entries
<1>9. ASSUME NEW r \in Request, Image(r)
      PROVE  StageTypes'
  BY ZenonT(60), <1>1, <1>9
     DEF Image, CheckImage, CheckFails, Pulled, PullFails, PullCancelled, NoImage
<1>10. ASSUME NEW r \in Request, Command(r)
       PROVE  StageTypes'
  BY ZenonT(60), <1>1, <1>2, <1>10, AuditType
     DEF Command, Spawn, SpawnFails, StopOnCancel, StopOnTimeout, Stop, Reap,
         Drained, DrainFails, Report
<1>11. ASSUME NEW r \in Request, World(r)
       PROVE  StageTypes'
  BY ZenonT(60), <1>1, <1>11 DEF World, ChildExits, DescendantEnds, Hangup
<1>12. CASE Take \/ Forget \/ UNCHANGED vars
  BY <1>1, <1>12 DEF Take, Forget, vars
<1> QED BY <1>3, <1>4, <1>5, <1>6, <1>7, <1>8, <1>9, <1>10, <1>11, <1>12
        DEF Next, Handler

\* What holds of one request, the registry's entry included.
Whole(r) ==
  /\ Fits(r) /\ Recorded(r)
  /\ job[r] = "running" <=> kind[r].detached /\ pc[r] \in InHandler

\* A request keeps that while nothing of it changes but an answer it may wait
\* for, its flag when that is raised, an activity that is called off, and the
\* finished job that is dropped.
LEMMA OthersKept ==
  ASSUME NEW s \in Request, Whole(s),
         UNCHANGED <<pc[s], kind[s], child[s], held[s], audit[s], result[s]>>,
         cancel[s] => cancel'[s],
         \/ shown'[s] = shown[s]
         \/ shown'[s] = "cancelled" /\ (cancel'[s] \/ pc[s] = "done"
                                          \/ CalledOffUnstarted(s)'),
         \/ job'[s] = job[s]
         \/ job[s] \in {"complete", "failed"} /\ job'[s] = "forgotten",
         reply'[s] = reply[s] \/ (pc[s] = "waiting" /\ reply[s] = "none")
  PROVE  Whole(s)'
BY DEF Whole, Fits, CalledOffUnstarted, Recorded, RunEntry, Unasked, InHandler, Finished

\* A step of one request changes no other, but for the registry.
LEMMA OthersStill ==
  ASSUME StageTypes, NEW r \in Request, NEW s \in Request, r # s,
         Handler(r) \/ Send(r) \/ Answer(r) \/ Image(r) \/ Command(r) \/ World(r)
  PROVE  UNCHANGED <<pc[s], kind[s], child[s], held[s], audit[s], shown[s],
                     result[s], reply[s], cancel[s]>>
BY DEF StageTypes, gateVars, procVars, End,
       Handler, Refuse, Admit, EnterSync, EnterFull, EnterAuto, EnterPrompt, Send,
       Answer, Expire, TakeDeny, TakeApprove, Audit,
       Image, CheckImage, CheckFails, Pulled, PullFails, PullCancelled, NoImage,
       Command, Spawn, SpawnFails, StopOnCancel, StopOnTimeout, Stop, Reap,
       Drained, DrainFails, Report, World, ChildExits, DescendantEnds, Hangup

LEMMA NextWhole == Inv /\ [Next]_vars => \A s \in Request : Whole(s)'
<1> SUFFICES ASSUME Inv, [Next]_vars, NEW s \in Request
             PROVE  Whole(s)'
  OBVIOUS
<1>1. /\ StageTypes /\ RegistryType /\ Whole(s)
      /\ Droppable # {} => Oldest(Droppable) \in Droppable
  BY OldestIsOne DEF Inv, TypeOK, StageTypes, RegistryType, JobState, Whole,
                     RunningJobsAreKept, Droppable, Known
<1> USE DEF StageTypes, RegistryType, gateVars, procVars, jobVars, End
<1>2. CASE Forget
  BY <1>1, <1>2, OthersKept DEF Forget, Droppable, Known
<1>3. CASE Take \/ UNCHANGED vars
  BY <1>1, <1>3, OthersKept DEF Take, vars
<1>4. ASSUME NEW t \in Session, CloseSession(t)
      PROVE  Whole(s)'
  <2>1. /\ UNCHANGED <<pc, kind, cancel, child, held, job, audit, result>>
        /\ \/ reply'[s] = reply[s]
           \/ pc[s] = "waiting" /\ reply[s] = "none" /\ reply'[s] = "deny"
    BY <1>1, <1>4 DEF CloseSession, Answered, Inv, AskedOnce
  <2>2. CASE s \notin pending
    <3>1. shown'[s] = shown[s]
      BY <1>4, <2>2 DEF CloseSession, CalledOff
    <3> QED BY <1>1, <2>1, <3>1, OthersKept
  <2>3. CASE s \in pending
    <3>1. child[s] = "none" /\ pc[s] \in {"waiting"} \cup Over
      BY <1>1, <2>3 DEF Inv, TypeOK, AskedOnce, Whole, Fits, Stage, Over
    <3>2. shown'[s] \in {shown[s], "cancelled"}
      BY <1>4 DEF CloseSession, CalledOff
    <3>3. CASE shown'[s] = "cancelled" /\ ~(shown'[s] = shown[s])
      <4>1. pc[s] = "waiting" => reply'[s] = "deny"
        BY <1>1, <1>4, <3>3 DEF CloseSession, CalledOff, Answered
      <4> QED BY <1>1, <2>1, <3>1, <3>3, <4>1, OthersKept DEF CalledOffUnstarted, Over
    <3> QED BY <1>1, <2>1, <3>2, <3>3, OthersKept
  <2> QED BY <2>2, <2>3
<1>5. ASSUME NEW r \in Request, User(r)
      PROVE  Whole(s)'
  <2>1. pending \subseteq Request /\ \A q \in pending : reply[q] = "none"
    BY DEF Inv, TypeOK, AskedOnce
  <2>2. CASE Decide(r, "approve") \/ Decide(r, "deny") \/ Kill(r)
    BY <1>1, <2>1, <2>2, OthersKept DEF Decide, Kill, Answered
  <2>3. CASE CancelActivity(r)
    <3>1. /\ UNCHANGED <<pc, kind, child, held, job, audit, result>>
          /\ cancel[s] => cancel'[s]
          /\ reply'[s] = reply[s] \/ (pc[s] = "waiting" /\ reply[s] = "none")
      BY <1>1, <2>1, <2>3 DEF CancelActivity, Answered
    <3>2. \/ shown'[s] = shown[s]
          \/ shown'[s] = "cancelled" /\ cancel'[s]
      BY <1>1, <2>3 DEF CancelActivity, CalledOff
    <3> QED BY <1>1, <3>1, <3>2, OthersKept
  <2> QED BY <1>5, <2>2, <2>3 DEF User
<1>6. ASSUME NEW r \in Request, NEW state, Insert(r, state), r # s
      PROVE  \/ job'[s] = job[s]
             \/ job[s] \in {"complete", "failed"} /\ job'[s] = "forgotten"
  BY <1>1, <1>6 DEF Insert, Droppable, Known
<1>7. ASSUME NEW r \in Request, r # s,
             Handler(r) \/ Send(r) \/ Answer(r) \/ Image(r) \/ Command(r) \/ World(r)
      PROVE  Whole(s)'
  <2>1. UNCHANGED <<pc[s], kind[s], child[s], held[s], audit[s], shown[s],
                    result[s], reply[s], cancel[s]>>
    BY <1>1, <1>7, OthersStill
  <2>2. \/ job'[s] = job[s]
        \/ job[s] \in {"complete", "failed"} /\ job'[s] = "forgotten"
    BY <1>1, <1>6, <1>7
       DEF Handler, Refuse, Admit, EnterSync, EnterFull, EnterAuto, EnterPrompt, Send,
           Answer, Expire, TakeDeny, TakeApprove, JobAfter,
           Image, CheckImage, CheckFails, Pulled, PullFails, PullCancelled, NoImage,
           Command, Spawn, SpawnFails, StopOnCancel, StopOnTimeout, Stop, Reap,
           Drained, DrainFails, Report, World, ChildExits, DescendantEnds, Hangup
  <2> QED BY <1>1, <2>1, <2>2, OthersKept
<1>8. ASSUME NEW state, pc[s] # "done"
      PROVE  JobAfter(s, state)[s] = IF job[s] = "running" THEN state ELSE job[s]
  BY <1>1, <1>8 DEF Whole, Fits, JobAfter, Known
<1> USE DEF Whole, Fits, CalledOffUnstarted, Recorded, RunEntry, Unasked, Over,
            InHandler
<1>9. CASE Refuse(s)
  <2>1. Fits(s)' /\ (job'[s] = "running" <=> kind'[s].detached /\ pc'[s] \in InHandler)
    BY <1>1, <1>9 DEF Refuse
  <2>2. Recorded(s)'
    <3>1. /\ pc'[s] = "done" /\ child'[s] = "none"
          /\ audit'[s] \in {<<>>, <<"policy">>}
      BY <1>1, <1>9 DEF Refuse, Audit
    <3>2. <<"policy">> \notin {<<"auto">>, <<"approved">>} /\ "policy" \in Entries
      BY DEF Entries
    <3> QED BY <3>1, <3>2
  <2> QED BY <2>1, <2>2
<1>10. ASSUME NEW k \in Kinds, Admit(s, k)
      PROVE  Whole(s)'
  BY <1>1, <1>10 DEF Admit, Finished
<1>11. CASE EnterSync(s) \/ EnterFull(s)
  BY <1>1, <1>11 DEF EnterSync, EnterFull, FirstStage, Finished
<1>12. CASE EnterAuto(s)
  BY <1>1, <1>12 DEF EnterAuto, Insert, FirstStage
<1>13. CASE EnterPrompt(s)
  BY <1>1, <1>13 DEF EnterPrompt, Insert, Finished
<1>14. CASE Send(s)
  BY <1>1, <1>14 DEF Send
<1>15. ASSUME NEW state \in {"complete", "failed"}, job' = JobAfter(s, state),
              pc[s] \notin {"new", "admitted", "done", "gone"},
              pc' = [pc EXCEPT ![s] = "done"], UNCHANGED <<kind, reply, child, held>>,
              child[s] # "running",
              \/ UNCHANGED audit /\ (child[s] = "none" \/ result'[s] = "unread")
              \/ \E e \in Entries : /\ Audit(s, e)
                                    /\ e \in {"auto", "approved"} => child[s] # "none"
                                    /\ child[s] # "none" => e = RunEntry(s)
       PROVE  Whole(s)'
  <2>1. /\ pc'[s] = "done" /\ job'[s] = (IF job[s] = "running" THEN state ELSE "none")
        /\ UNCHANGED <<kind[s], reply[s], child[s], held[s]>>
        /\ audit[s] = <<>>
    BY <1>1, <1>8, <1>15
  <2>2. Fits(s)' /\ ~(job'[s] = "running")
    BY <1>1, <1>15, <2>1
  <2>3. CASE UNCHANGED audit
    <3>1. UNCHANGED audit[s] /\ (child[s] = "none" \/ result'[s] = "unread")
      BY <1>1, <1>15, <2>1, <2>3 DEF Audit
    <3>2. Recorded(s)'
      BY <1>1, <2>1, <3>1
    <3> QED BY <2>1, <2>2, <3>2
  <2>4. ASSUME NEW e \in Entries, Audit(s, e),
               e \in {"auto", "approved"} => child[s] # "none",
               child[s] # "none" => e = RunEntry(s)
        PROVE  Whole(s)'
    <3>1. audit'[s] = <<e>>
      BY <1>1, <2>1, <2>4 DEF Audit
    <3>2. <<e>> \in {<<"auto">>, <<"approved">>} => e \in {"auto", "approved"}
      OBVIOUS
    <3>3. RunEntry(s)' = RunEntry(s)
      BY <2>1
    <3>4. Recorded(s)'
      BY <2>1, <2>4, <3>1, <3>2, <3>3
    <3> QED BY <2>1, <2>2, <3>4
  <2> QED BY <1>15, <2>3, <2>4
<1>16. CASE Expire(s) \/ TakeDeny(s)
  <2>1. child[s] = "none" /\ {"timedout", "denied"} \subseteq Entries
    BY <1>1, <1>16 DEF Expire, TakeDeny, Entries
  <2> QED BY <1>15, <1>16, <2>1 DEF Expire, TakeDeny
<1>17. CASE TakeApprove(s)
  BY <1>1, <1>17 DEF TakeApprove, FirstStage
<1>18. CASE CheckFails(s) \/ PullFails(s) \/ PullCancelled(s) \/ SpawnFails(s)
  BY <1>1, <1>15, <1>18 DEF CheckFails, PullFails, PullCancelled, NoImage, SpawnFails
<1>19. CASE CheckImage(s) \/ Pulled(s)
  <2>1. /\ pc'[s] \in {"pulling", "spawning"} /\ shown'[s] \in {shown[s], "pulling"}
        /\ UNCHANGED <<kind, reply, cancel, child, held, job, audit, result>>
    BY <1>1, <1>19 DEF CheckImage, Pulled
  <2>2. pc[s] \in {"imaging", "pulling"}
    BY <1>19 DEF CheckImage, Pulled
  <2>3. Fits(s)'
    BY <1>1, <2>1, <2>2 DEF Finished
  <2> QED BY <1>1, <2>1, <2>2, <2>3
<1>20. CASE Spawn(s)
  <2>1. job'[s] = job[s]
    BY <1>1, <1>8, <1>20 DEF Spawn
  <2>2. Fits(s)'
    BY <1>1, <1>20, <2>1 DEF Spawn, Finished
  <2>3. Recorded(s)'
    BY <1>1, <1>20 DEF Spawn
  <2> QED BY <1>1, <1>20, <2>1, <2>2, <2>3 DEF Spawn
<1>21. CASE StopOnCancel(s) \/ StopOnTimeout(s) \/ Reap(s)
  <2>1. /\ pc[s] = "running" /\ pc'[s] \in {"draining", "ending"}
        /\ pc'[s] = "draining" => child'[s] = "exited" /\ UNCHANGED held
        /\ pc'[s] = "ending" => child'[s] = "killed" /\ ~held'[s]
        /\ UNCHANGED <<kind, reply, cancel, job, audit, shown>>
    BY <1>1, <1>21 DEF StopOnCancel, StopOnTimeout, Stop, Reap
  <2> QED BY <1>1, <2>1 DEF Finished
<1>22. CASE Drained(s) \/ DrainFails(s) \/ Report(s)
  <2>1. RunEntry(s) \in Entries /\ child[s] \notin {"none", "running"}
    BY <1>1, <1>22 DEF Drained, DrainFails, Report, Entries
  <2>2. DrainFails(s) => result'[s] = "unread"
    BY <1>1 DEF DrainFails
  <2> QED BY <1>15, <1>22, <2>1, <2>2 DEF Drained, DrainFails, Report
<1>23. CASE World(s)
  BY <1>1, <1>23 DEF World, ChildExits, DescendantEnds, Hangup
<1> QED BY <1>2, <1>3, <1>4, <1>5, <1>7, <1>9, <1>10, <1>11, <1>12, <1>13, <1>14,
           <1>16, <1>17, <1>18, <1>19, <1>20, <1>21, <1>22, <1>23
        DEF Next, Handler, Answer, Image, Command

-----------------------------------------------------------------------------
(* The theorems *)

LEMMA InitInv == Init => Inv
<1> SUFFICES ASSUME Init
             PROVE  Inv
  OBVIOUS
<1>1. /\ Known = {} /\ Active = {} /\ Born = {}
      /\ IsFiniteSet({}) /\ Cardinality({}) = 0
  BY FS_EmptySet DEF Init, Known, Active, Born
<1>2. Range(queue) = {} /\ IsInjective(queue)
  BY DEF Init, Range, IsInjective
<1>3. RegistryBounded /\ RegistryFinite
  BY <1>1, HostdoAssumption DEF RegistryBounded, RegistryFinite
<1>4. StageTypes /\ RegistryType /\ QueueInv
  BY <1>2, HostdoAssumption
     DEF Init, StageTypes, RegistryType, QueueInv, AskedOnce, JobState, Stage,
         AnyKind, NoKind, Results
<1>5. \A r \in Request : Whole(r)
  BY DEF Init, Whole, Fits, CalledOffUnstarted, Recorded, NoKind, InHandler, Unasked,
         Finished
<1> QED BY <1>3, <1>4, <1>5
        DEF Inv, TypeOK, StageTypes, RegistryType, JobState, QueueInv, Unasked,
            RunningJobsAreKept, Whole

LEMMA NextInv == Inv /\ [Next]_vars => Inv'
<1> SUFFICES ASSUME Inv, [Next]_vars
             PROVE  Inv'
  OBVIOUS
<1>1. RegistryInv' /\ QueueInv' /\ StageTypes' /\ \A r \in Request : Whole(r)'
  BY NextRegistry, NextQueue, NextTypes, NextWhole
<1>2. TypeOK'
  BY <1>1 DEF TypeOK, StageTypes, RegistryInv, RegistryType, JobState, QueueInv, Unasked
<1>3. RunningJobsAreKept' /\ \A r \in Request : Fits(r)' /\ Recorded(r)'
  BY <1>1 DEF RunningJobsAreKept, Whole
<1> QED BY <1>1, <1>2, <1>3 DEF Inv, RegistryInv, QueueInv

LEMMA Inductive == Spec => []Inv
BY InitInv, NextInv, PTL DEF Spec

\* Every variable keeps its type, the registry and the queue keep within their
\* ceilings whatever the handlers do between their look at the registry and the
\* registration, and nothing is queued or shown before it waits for an answer.
THEOREM TypeCorrect == Spec => []TypeOK
<1>1. Inv => TypeOK
  BY DEF Inv
<1> QED BY <1>1, Inductive, PTL

\* A job is listed as running exactly while its task is alive (ExecJobRegistry).
THEOREM JobsAreKept == Spec => []RunningJobsAreKept
<1>1. Inv => RunningJobsAreKept
  BY DEF Inv
<1> QED BY <1>1, Inductive, PTL

\* What the client, the registry or the interface is told has ended is dead, after
\* a kill with its whole process group; what the interface calls cancelled while
\* it runs has its flag raised.
THEOREM EndedStaysDead == Spec => []EndedIsDead
<1>1. Inv => EndedIsDead
  <2> SUFFICES ASSUME Inv, NEW r \in Request
               PROVE  /\ pc[r] = "done" \/ job[r] \in {"complete", "failed"}
                           \/ shown[r] \in Finished \ {"cancelled"}
                           => child[r] # "running" /\ (child[r] = "killed" => ~held[r])
                      /\ shown[r] = "cancelled" /\ child[r] = "running" => cancel[r]
    BY DEF EndedIsDead
  <2> QED BY DEF Inv, Fits, CalledOffUnstarted
<1> QED BY <1>1, Inductive, PTL

\* A command that ran to an end its handler saw is in the history, once, under
\* the decision that let it run, and nothing is written there of a command that
\* did not start.
THEOREM HistoryIsTrue == Spec => []StartedIsAudited
<1>1. Inv => StartedIsAudited
  <2> SUFFICES ASSUME Inv, NEW r \in Request
               PROVE  /\ Len(audit[r]) <= 1
                      /\ Range(audit[r]) \cap {"auto", "approved"} # {}
                           => child[r] # "none"
                      /\ pc[r] = "done" /\ child[r] # "none" /\ result[r] # "unread"
                           => audit[r] = <<RunEntry(r)>>
    BY DEF StartedIsAudited
  <2>1. Recorded(r)
    BY DEF Inv
  <2>2. CASE audit[r] = <<>>
    BY <2>1, <2>2 DEF Recorded, Range
  <2>3. ASSUME NEW e \in Entries, audit[r] = <<e>>
        PROVE  Len(audit[r]) <= 1 /\ Range(audit[r]) = {e}
    BY <2>3 DEF Range
  <2>4. ASSUME NEW e \in Entries, audit[r] = <<e>>, e \in {"auto", "approved"}
        PROVE  child[r] # "none"
    BY <2>1, <2>4 DEF Recorded
  <2> QED BY <2>1, <2>2, <2>3, <2>4 DEF Recorded
<1> QED BY <1>1, Inductive, PTL

-----------------------------------------------------------------------------
(* The gate *)

Stages == [r \in Request |-> StageOf(r)]

\* The moves of one request that the gate allows.
Moves == {<<"new", "allowed">>, <<"new", "asked">>, <<"asked", "allowed">>,
          <<"asked", "denied">>, <<"allowed", "running">>}
MayMove(from, to) ==
  \/ from = to \/ <<from, to>> \in Moves
  \/ from # "over" /\ to = "over"

LEMMA OneMoves ==
  ASSUME NEW r \in Request,
         \A s \in Request \ {r} : StageOf(s)' = StageOf(s),
         MayMove(StageOf(r), StageOf(r)')
  PROVE  Gate!Next \/ Stages' = Stages
<1>1. Stages' = [Stages EXCEPT ![r] = StageOf(r)']
  BY DEF Stages
<1>2. CASE StageOf(r)' = StageOf(r)
  BY <1>1, <1>2 DEF Stages
<1>3. CASE StageOf(r) = "asked" /\ StageOf(r)' = "denied"
  <2>1. Gate!Deny({r})
    BY <1>1, <1>3 DEF Gate!Deny, Stages
  <2> QED BY <2>1 DEF Gate!Next
<1>4. CASE MayMove(StageOf(r), StageOf(r)')
             /\ ~(StageOf(r)' = StageOf(r))
             /\ ~(StageOf(r) = "asked" /\ StageOf(r)' = "denied")
  <2>1. \/ Gate!Pass(r) \/ Gate!Ask(r) \/ Gate!Allow(r)
        \/ Gate!Start(r) \/ Gate!Finish(r)
    BY <1>1, <1>4 DEF MayMove, Moves, Stages, Gate!Pass, Gate!Ask, Gate!Allow,
                      Gate!Start, Gate!Finish
  <2> QED BY <2>1 DEF Gate!Next
<1> QED BY <1>2, <1>3, <1>4

\* A decision of the user answers requests that are shown and wait.
LEMMA AnswersMove ==
  ASSUME Inv, NEW S \in SUBSET pending, NEW decision \in {"approve", "deny"},
         decision = "approve" => \E r \in Request : S = {r},
         reply' = Answered(reply, S, decision), UNCHANGED <<pc, kind, child>>
  PROVE  Gate!Next \/ Stages' = Stages
<1> DEFINE D == {r \in S : StageOf(r) = "asked" /\ pc[r] = "waiting"}
<1>1. /\ S \subseteq Request /\ \A r \in S : reply[r] = "none"
      /\ reply \in [Request -> {"none", "approve", "deny"}]
  BY DEF Inv, TypeOK, AskedOnce
<1>2. ASSUME NEW s \in Request
      PROVE  StageOf(s)' = IF s \in D
                             THEN IF decision = "approve" THEN "allowed" ELSE "denied"
                             ELSE StageOf(s)
  BY <1>1, <1>2 DEF StageOf, Answered
<1>3. CASE decision = "deny"
  <2>1. Stages' = [s \in Request |-> IF s \in D THEN "denied" ELSE Stages[s]]
    BY <1>2, <1>3 DEF Stages
  <2>2. D \in SUBSET Request /\ \A s \in D : Stages[s] = "asked"
    BY <1>1 DEF Stages
  <2>3. Gate!Deny(D)
    BY <2>1, <2>2 DEF Gate!Deny, Stages
  <2> QED BY <2>2, <2>3 DEF Gate!Next
<1>4. ASSUME NEW r \in Request, S = {r}, decision = "approve"
      PROVE  Gate!Next \/ Stages' = Stages
  <2>1. \A s \in Request \ {r} : StageOf(s)' = StageOf(s)
    BY <1>2, <1>4
  <2>2. MayMove(StageOf(r), StageOf(r)')
    BY <1>2, <1>4 DEF MayMove, Moves
  <2> QED BY <2>1, <2>2, OneMoves
<1> QED BY <1>3, <1>4

LEMMA NextGate == Inv /\ [Next]_vars => Gate!Next \/ Stages' = Stages
<1> SUFFICES ASSUME Inv, [Next]_vars
             PROVE  Gate!Next \/ Stages' = Stages
  OBVIOUS
<1>1. StageTypes /\ \A r \in Request : Fits(r)
  BY DEF Inv, TypeOK, StageTypes
<1>2. CASE UNCHANGED <<pc, kind, reply, child>>
  BY <1>2 DEF Stages, StageOf
<1>3. CASE Take \/ Forget \/ UNCHANGED vars
  BY <1>2, <1>3 DEF Take, Forget, vars, gateVars, procVars
<1>4. ASSUME NEW s \in Session, CloseSession(s)
      PROVE  Gate!Next \/ Stages' = Stages
  BY <1>4, AnswersMove DEF CloseSession, procVars
<1>5. ASSUME NEW r \in Request, User(r)
      PROVE  Gate!Next \/ Stages' = Stages
  <2>1. ASSUME NEW decision \in {"approve", "deny"}, Decide(r, decision)
        PROVE  Gate!Next \/ Stages' = Stages
    BY <2>1, AnswersMove DEF Decide, procVars
  <2>2. CASE CancelActivity(r)
    BY <2>2, AnswersMove DEF CancelActivity, procVars
  <2>3. CASE Kill(r)
    BY <1>2, <2>3 DEF Kill, gateVars, procVars
  <2> QED BY <1>5, <2>1, <2>2, <2>3 DEF User
<1>6. ASSUME NEW r \in Request,
             Handler(r) \/ Send(r) \/ Answer(r) \/ Image(r) \/ Command(r) \/ World(r)
      PROVE  Gate!Next \/ Stages' = Stages
  <2>1. \A s \in Request \ {r} : StageOf(s)' = StageOf(s)
    BY <1>1, <1>6, OthersStill DEF StageOf
  <2>2. MayMove(StageOf(r), StageOf(r)')
    <3> USE DEF StageTypes, MayMove, Moves, StageOf, gateVars, procVars, End, Over
    <3>1. CASE Refuse(r) \/ (\E k \in Kinds : Admit(r, k))
      BY <1>1, <3>1 DEF Refuse, Admit, Fits, Unasked
    <3>2. CASE EnterSync(r) \/ EnterFull(r) \/ EnterAuto(r) \/ EnterPrompt(r) \/ Send(r)
      BY <1>1, <3>2
         DEF EnterSync, EnterFull, EnterAuto, EnterPrompt, Send, FirstStage, Fits,
             Unasked
    <3>3. CASE Answer(r)
      BY <1>1, <3>3 DEF Answer, Expire, TakeDeny, TakeApprove, FirstStage, Fits
    <3>4. CASE Image(r)
      BY <1>1, <3>4
         DEF Image, CheckImage, CheckFails, Pulled, PullFails, PullCancelled, NoImage, Fits
    <3>5. CASE Spawn(r) \/ SpawnFails(r)
      BY <1>1, <3>5 DEF Spawn, SpawnFails, Fits
    <3>6. CASE StopOnCancel(r) \/ StopOnTimeout(r) \/ Reap(r)
      BY <1>1, <3>6 DEF StopOnCancel, StopOnTimeout, Stop, Reap, Fits
    <3>7. CASE Drained(r) \/ DrainFails(r) \/ Report(r)
      BY <1>1, <3>7 DEF Drained, DrainFails, Report, Fits
    <3>8. CASE World(r)
      BY <1>1, <3>8 DEF World, ChildExits, DescendantEnds, Hangup, InHandler, Fits
    <3> QED BY <1>6, <3>1, <3>2, <3>3, <3>4, <3>5, <3>6, <3>7, <3>8
            DEF Handler, Command
  <2> QED BY <2>1, <2>2, OneMoves
<1> QED BY <1>3, <1>4, <1>5, <1>6 DEF Next

\* The handlers, the queue, the event loop and the user together implement the
\* gate: a command is started once, after the policy or the user let this very
\* request pass, and never after a denial or once the request is over.
THEOREM GateIsKept == Spec => GateHolds
<1>1. Init => Gate!Init
  BY DEF Init, Gate!Init, StageOf, Over, NoKind
<1>2. Inv /\ [Next]_vars => [Gate!Next]_([r \in Request |-> StageOf(r)])
  BY NextGate DEF Stages
<1> QED BY <1>1, <1>2, Inductive, PTL DEF Spec, GateHolds, Gate!Spec

=============================================================================
