---------------------------- MODULE SessionLife ----------------------------
(***************************************************************************)
(* The life of a session: a launch asked for by the hat client or in the   *)
(* interface, the build of a missing image, the start of the container and *)
(* its adoption, the container's end, stops, and the session's close.      *)
(* The event loop does all of it one handler at a time; the control        *)
(* server, Docker, the threads that remove containers and whoever edits    *)
(* the configuration file run beside it.                                   *)
(*                                                                         *)
(* A launch makes one session at most, so a launch also names its session, *)
(* its token and its container.                                            *)
(***************************************************************************)
EXTENDS Naturals, Sequences

CONSTANTS
  Workspace,
  Launch,        \* attempts to launch a session
  NoLaunch,      \* nothing is built
  NoWorkspace,
  Files,         \* what the configuration file may list, in its order
  Weather        \* what Docker may be like: "up", "down", "absent"

ASSUME SessionLifeAssumption ==
  /\ NoLaunch \notin Launch /\ NoWorkspace \notin Workspace
  /\ Files \subseteq Seq(Workspace) /\ Files # {}
  /\ \A f \in Files : \A i, j \in DOMAIN f : f[i] = f[j] => i = j
  /\ "up" \in Weather /\ Weather \subseteq {"up", "down", "absent"}

VARIABLES
  disk,      \* the workspaces in the configuration file
  cfg,       \* the workspaces of the configuration in force
  docker,    \* up; down: the client runs and fails; absent: it cannot be run
  image,     \* the template's image is there
  prompt,    \* the workspace the build pane is about, by index; 0: none
  build,     \* the build that runs or has yet to be noticed
  stage,     \* how far each launch is
  asked,     \* the workspace it was asked for, until it fails or closes
  at,        \* the index it was found at
  of,        \* the workspace its session was started for, while there is one
  registry,  \* its token: none, unbound (no container yet), bound
  box,       \* its container
  attached,  \* its docker client, which owns the session's terminal, runs
  exited,    \* the session's own idea that the container has ended
  detached,  \* ... that only the terminal is gone
  remover,   \* the thread that removes the container
  stop,      \* the stop request in the channel: none, unbound, bound
  told       \* the container was told that it stopped

configVars == <<disk, cfg>>
launchVars == <<prompt, build, stage, asked, at, of>>
sessionVars == <<exited, detached>>
dockerVars == <<docker, image, box, attached, remover>>
stopVars == <<stop, told>>
vars == <<configVars, launchVars, sessionVars, dockerVars, registry, stopVars>>

Index == {0} \cup UNION {DOMAIN f : f \in Files}
NoBuild == [launch |-> NoLaunch, cancel |-> FALSE, end |-> "running"]

Init ==
  /\ disk \in Files /\ cfg = disk
  /\ docker = "up" /\ image \in BOOLEAN
  /\ prompt = 0 /\ build = NoBuild
  /\ stage = [l \in Launch |-> "new"]
  /\ asked = [l \in Launch |-> NoWorkspace] /\ of = asked
  /\ at = [l \in Launch |-> 0]
  /\ registry = [l \in Launch |-> "none"] /\ box = registry
  /\ remover = registry /\ stop = registry
  /\ attached = [l \in Launch |-> FALSE] /\ told = attached
  /\ exited = attached /\ detached = attached

-----------------------------------------------------------------------------
(* Docker, editors, and the threads that remove containers *)

EditConfig(file) ==
  /\ disk' = file
  /\ UNCHANGED <<cfg, launchVars, sessionVars, dockerVars, registry, stopVars>>

DockerChanges(d) ==
  /\ docker' = d
  /\ UNCHANGED <<image, box, attached, remover, configVars, launchVars,
                 sessionVars, registry, stopVars>>

ImageGoes ==
  /\ image' = FALSE
  /\ UNCHANGED <<docker, box, attached, remover, configVars, launchVars,
                 sessionVars, registry, stopVars>>

Becomes(l, b, client) ==
  /\ box' = [box EXCEPT ![l] = b]
  /\ attached' = [attached EXCEPT ![l] = client]
  /\ UNCHANGED <<docker, image, remover, configVars, launchVars, sessionVars,
                 registry, stopVars>>

\* docker run creates the container, or ends without one.
BoxStarts(l) ==
  box[l] = "asked" /\ docker = "up" /\ Becomes(l, "running", attached[l])
RunFails(l) == box[l] = "asked" /\ Becomes(l, "never", FALSE)
\* The container ends; its client may end before it, after it, or unnoticed.
BoxEnds(l) == box[l] = "running" /\ Becomes(l, "gone", attached[l])
ClientEnds(l) == attached[l] /\ stage[l] = "open" /\ Becomes(l, box[l], FALSE)

\* docker rm, when the daemon answers.
Removed(l) == IF docker = "up" /\ box[l] = "running" THEN "gone" ELSE box[l]

RemoverRuns(l) ==
  /\ remover[l] = "due"
  /\ box' = [box EXCEPT ![l] = Removed(l)]
  /\ remover' = [remover EXCEPT ![l] = IF docker = "up" THEN "done" ELSE "failed"]
  /\ UNCHANGED <<docker, image, attached, configVars, launchVars, sessionVars,
                 registry, stopVars>>

\* hat restart: the configuration is read again, and nothing else is touched.
\* (A workspace that is added in the interface is an edit and this.)
Refresh ==
  /\ cfg' = disk
  /\ UNCHANGED <<disk, launchVars, sessionVars, dockerVars, registry, stopVars>>

-----------------------------------------------------------------------------
(* Launching.  While a container is started or rolled back the event loop  *)
(* does nothing else.                                                      *)

Idle == \A l \in Launch : stage[l] \notin {"starting", "undoing"}

ImageMissing == docker = "down" \/ (docker = "up" /\ ~image)

\* Mutant: where a workspace is, or one past the end.
PositionOrEnd(c, w) ==
  IF \E i \in DOMAIN c : c[i] = w THEN CHOOSE i \in DOMAIN c : c[i] = w
                                  ELSE Len(c) + 1
\* Where a workspace is in a configuration; 0: nowhere.
Position(c, w) ==
  IF \E i \in DOMAIN c : c[i] = w THEN CHOOSE i \in DOMAIN c : c[i] = w ELSE 0

Fails(l) ==
  /\ stage' = [stage EXCEPT ![l] = "failed"]
  /\ asked' = [asked EXCEPT ![l] = NoWorkspace]
  /\ UNCHANGED <<of, registry, box, attached>>

\* The launch of what configuration c lists at index i: it may be refused (its
\* rules, its directory, its listener), find the image missing, and then shows
\* the build pane, or register a token and run docker.
Begin(l, c, i, pane) ==
  \/ /\ i \in DOMAIN c /\ docker = "up" /\ image
     /\ stage' = [stage EXCEPT ![l] = "starting"]
     /\ of' = [of EXCEPT ![l] = c[i]]
     /\ registry' = [registry EXCEPT ![l] = "unbound"]
     /\ box' = [box EXCEPT ![l] = "asked"]
     /\ attached' = [attached EXCEPT ![l] = TRUE]
     /\ prompt' = pane /\ asked' = asked
  \/ i \in DOMAIN c /\ ImageMissing /\ Fails(l) /\ prompt' = i
  \/ Fails(l) /\ prompt' = pane

\* A build for launch l of what is at index i.
StartBuild(l, i) ==
  /\ build' = [NoBuild EXCEPT !.launch = l]
  /\ stage' = [stage EXCEPT ![l] = "building"]
  /\ at' = [at EXCEPT ![l] = i]
  /\ prompt' = i
  /\ UNCHANGED <<of, registry, box, attached>>

\* The hat client asks to launch in a workspace.
Request(l, w) ==
  /\ stage[l] = "new"
  /\ stage' = [stage EXCEPT ![l] = "queued"]
  /\ asked' = [asked EXCEPT ![l] = w]
  /\ UNCHANGED <<prompt, build, at, of, configVars, sessionVars, dockerVars,
                 registry, stopVars>>

\* Mutant: a build that runs is no obstacle.
TakeLaunchAnyway(l) ==
  /\ Idle /\ stage[l] = "queued"
  /\ UNCHANGED <<disk, docker, image, remover, sessionVars, stopVars>>
  /\ cfg' = disk
  /\ LET i == Position(disk, asked[l]) IN
       \/ i # 0 /\ StartBuild(l, i) /\ asked' = asked
       \/ Fails(l) /\ UNCHANGED <<prompt, build, at>>
       \/ i # 0 /\ ~ImageMissing /\ Begin(l, disk, i, prompt)
            /\ UNCHANGED <<build, at>>

\* The event loop takes a request: it reloads the configuration, finds the
\* workspace, and builds the image if it is missing or the client says so.  One
\* build runs at a time.
TakeLaunch(l) ==
  /\ Idle /\ stage[l] = "queued"
  /\ UNCHANGED <<disk, docker, image, remover, sessionVars, stopVars>>
  /\ \/ cfg' = cfg /\ Fails(l) /\ UNCHANGED <<prompt, build, at>>
     \/ /\ cfg' = disk
        /\ LET i == Position(disk, asked[l]) IN
             \/ i # 0 /\ build = NoBuild /\ StartBuild(l, i) /\ asked' = asked
             \/ i # 0 /\ build = NoBuild /\ Fails(l) /\ prompt' = i
                  /\ UNCHANGED <<build, at>>
             \/ Fails(l) /\ UNCHANGED <<prompt, build, at>>
             \/ i # 0 /\ ~ImageMissing /\ Begin(l, disk, i, prompt)
                  /\ UNCHANGED <<build, at>>

\* In the interface, a workspace is picked by its index, and the template in a
\* second step, which takes all keys while it lasts; or the build pane's build is
\* started.
Keys == Idle /\ \A l \in Launch : stage[l] # "picking"

OpenPicker(l, i) ==
  /\ Keys /\ stage[l] = "new" /\ i \in DOMAIN cfg
  /\ stage' = [stage EXCEPT ![l] = "picking"]
  /\ asked' = [asked EXCEPT ![l] = cfg[i]]
  /\ at' = [at EXCEPT ![l] = i]
  /\ UNCHANGED <<prompt, build, of, configVars, sessionVars, dockerVars,
                 registry, stopVars>>

PickTemplate(l) ==
  /\ Idle /\ stage[l] = "picking"
  /\ Begin(l, cfg, at[l], prompt)
  /\ at' = [at EXCEPT ![l] = 0]
  /\ UNCHANGED <<build, configVars, sessionVars, docker, image,
                 remover, stopVars>>

ClosePicker(l) ==
  /\ Idle /\ stage[l] = "picking" /\ Fails(l)
  /\ at' = [at EXCEPT ![l] = 0]
  /\ UNCHANGED <<prompt, build, configVars, sessionVars, docker, image, remover,
                 stopVars>>

BuildPrompted(l) ==
  /\ Keys /\ stage[l] = "new" /\ prompt \in DOMAIN cfg
  /\ build = NoBuild
  /\ asked' = [asked EXCEPT ![l] = cfg[prompt]]
  /\ StartBuild(l, prompt)
  /\ UNCHANGED <<configVars, sessionVars, docker, image, remover, stopVars>>

LeavePane ==
  /\ Keys /\ build = NoBuild /\ prompt' = 0
  /\ UNCHANGED <<build, stage, asked, at, of, configVars, sessionVars, dockerVars,
                 registry, stopVars>>

CancelBuild ==
  /\ Idle /\ build # NoBuild
  /\ build' = [build EXCEPT !.cancel = TRUE]
  /\ UNCHANGED <<prompt, stage, asked, at, of, configVars, sessionVars,
                 dockerVars, registry, stopVars>>

\* The build's task: docker build ends, or is killed at the flag.
BuildEnds(end) ==
  /\ build # NoBuild /\ build.end = "running"
  /\ end = "cancelled" => build.cancel
  /\ end = "ok" => docker = "up"
  /\ build' = [build EXCEPT !.end = end]
  /\ image' = (image \/ end = "ok")
  /\ UNCHANGED <<prompt, stage, asked, at, of, configVars, sessionVars, docker,
                 box, attached, remover, registry, stopVars>>

\* The event loop notices, and goes on with the launch from the index it kept.
BuildFinished ==
  LET l == build.launch IN
  /\ Idle /\ build # NoBuild /\ build.end # "running"
  /\ build' = NoBuild
  /\ CASE build.end = "ok" -> Begin(l, cfg, at[l], 0)
       [] build.end = "failed" -> Fails(l) /\ prompt' = prompt
       [] build.end = "cancelled" -> Fails(l) /\ prompt' = 0
  /\ at' = [at EXCEPT ![l] = 0]
  /\ UNCHANGED <<configVars, sessionVars, docker, image, remover,
                 stopVars>>

\* The container's identifier is read: the session is there.
Adopt(l) ==
  /\ stage[l] = "starting" /\ box[l] \in {"running", "gone"}
  /\ stage' = [stage EXCEPT ![l] = "open"]
  /\ registry' = [registry EXCEPT ![l] = "bound"]
  /\ UNCHANGED <<prompt, build, asked, at, of, configVars, sessionVars,
                 dockerVars, stopVars>>

\* No identifier: docker run has ended, or five seconds are over.
GiveUp(l) ==
  /\ stage[l] = "starting" /\ box[l] \in {"asked", "never"}
  /\ stage' = [stage EXCEPT ![l] = "undoing"]
  /\ UNCHANGED <<prompt, build, asked, at, of, configVars, sessionVars,
                 dockerVars, registry, stopVars>>

\* Mutant: the token stays registered.
RollBackKeepsToken(l) ==
  /\ stage[l] = "undoing"
  /\ stage' = [stage EXCEPT ![l] = "failed"]
  /\ box' = [box EXCEPT ![l] = Removed(l)]
  /\ attached' = [attached EXCEPT ![l] = FALSE]
  /\ of' = [of EXCEPT ![l] = NoWorkspace]
  /\ asked' = [asked EXCEPT ![l] = NoWorkspace]
  /\ UNCHANGED <<prompt, build, at, configVars, sessionVars, docker,
                 image, remover, registry, stopVars>>

\* The rollback removes the container, if there is one, and the token.
RollBack(l) ==
  /\ stage[l] = "undoing"
  /\ stage' = [stage EXCEPT ![l] = "failed"]
  /\ box' = [box EXCEPT ![l] = Removed(l)]
  /\ registry' = [registry EXCEPT ![l] = "none"]
  /\ attached' = [attached EXCEPT ![l] = FALSE]
  /\ of' = [of EXCEPT ![l] = NoWorkspace]
  /\ asked' = [asked EXCEPT ![l] = NoWorkspace]
  /\ UNCHANGED <<prompt, build, at, configVars, sessionVars, docker,
                 image, remover, stopVars>>

-----------------------------------------------------------------------------
(* The end of a session *)

InspectedRunning(l) == docker = "up" /\ box[l] = "running"
InspectAnswers == docker # "absent"

\* Mutant: a terminal that is gone is a container that is gone.
CheckTerminalOnly(l) ==
  /\ Idle /\ stage[l] = "open" /\ ~attached[l] /\ ~exited[l] /\ ~detached[l]
  /\ InspectAnswers
  /\ exited' = [exited EXCEPT ![l] = TRUE]
  /\ UNCHANGED <<detached, configVars, launchVars, dockerVars,
                 registry, stopVars>>

\* The terminal is gone: docker inspect says whether the container is.
CheckTerminal(l) ==
  /\ Idle /\ stage[l] = "open" /\ ~attached[l] /\ ~exited[l] /\ ~detached[l]
  /\ InspectAnswers
  /\ IF InspectedRunning(l)
       THEN detached' = [detached EXCEPT ![l] = TRUE] /\ UNCHANGED exited
       ELSE exited' = [exited EXCEPT ![l] = TRUE] /\ UNCHANGED detached
  /\ UNCHANGED <<configVars, launchVars, dockerVars, registry,
                 stopVars>>

\* Mutant: only sessions whose terminal is gone are looked at.
ReconcileGoneTerminals(l) ==
  /\ Idle /\ stage[l] = "open" /\ ~exited[l] /\ ~attached[l] /\ ~detached[l]
  /\ InspectAnswers /\ ~InspectedRunning(l)
  /\ exited' = [exited EXCEPT ![l] = TRUE]
  /\ UNCHANGED <<detached, configVars, launchVars, dockerVars,
                 registry, stopVars>>

\* Every two seconds, whatever the terminal says.
Reconcile(l) ==
  /\ Idle /\ stage[l] = "open" /\ ~exited[l]
  /\ InspectAnswers /\ ~InspectedRunning(l)
  /\ exited' = [exited EXCEPT ![l] = TRUE]
  /\ UNCHANGED <<detached, configVars, launchVars, dockerVars,
                 registry, stopVars>>

\* Sessions that close are gone with what they knew, and so are their tokens.
Forget(its) ==
  LET Dropped(f, none) == [l \in Launch |-> IF l \in its THEN none ELSE f[l]] IN
  /\ stage' = Dropped(stage, "closed")
  /\ registry' = Dropped(registry, "none")
  /\ of' = Dropped(of, NoWorkspace) /\ asked' = Dropped(asked, NoWorkspace)
  /\ attached' = Dropped(attached, FALSE) /\ exited' = Dropped(exited, FALSE)
  /\ detached' = Dropped(detached, FALSE)
  /\ UNCHANGED <<prompt, build, at, docker, image, box, stopVars>>

\* Mutant: their containers are left to themselves.
ClosePlainly(its) == Forget(its) /\ remover' = remover

\* Threads remove the containers of those that are not known to have ended.
Close(its) ==
  /\ Forget(its)
  /\ remover' = [l \in Launch |->
                   IF l \in its /\ ~exited[l] THEN "due" ELSE remover[l]]

\* Once its end was shown, and fifteen seconds after the launch.
CloseExited(l) ==
  /\ Idle /\ stage[l] = "open" /\ exited[l]
  /\ Close({l}) /\ UNCHANGED configVars

\* A configuration without what it lists at index i.
Without(c, i) == SubSeq(c, 1, i - 1) \o SubSeq(c, i + 1, Len(c))

\* A workspace is removed: its sessions close, then the file is rewritten, if it
\* lists the workspace, and reloaded, unless one of the two fails.
RemoveWorkspace(w) ==
  LET i == Position(disk, w) IN
  /\ Keys
  /\ Close({l \in Launch : stage[l] = "open" /\ of[l] = w})
  /\ \/ UNCHANGED configVars
     \/ /\ i # 0 /\ disk' = Without(disk, i)
        /\ cfg' \in {cfg, disk'}

\* The session is told to stop: a thread removes the container, and the session
\* counts as ended at once.
MarkStopped(l) ==
  IF exited[l] THEN UNCHANGED <<exited, remover>>
  ELSE /\ exited' = [exited EXCEPT ![l] = TRUE]
       /\ remover' = [remover EXCEPT ![l] = "due"]

StopFromTui(l) ==
  /\ Keys /\ stage[l] = "open" /\ ~exited[l]
  /\ MarkStopped(l)
  /\ UNCHANGED <<detached, docker, image, box, attached, configVars,
                 launchVars, registry, stopVars>>

\* The container asks to be stopped, as who its token says it is; it may ask
\* again when an earlier request has been seen to.
AskStop(l) ==
  /\ registry[l] # "none" /\ box[l] = "running"
  /\ ~told[l] /\ stop[l] = "none"
  /\ stop' = [stop EXCEPT ![l] = registry[l]]
  /\ UNCHANGED <<told, configVars, launchVars, sessionVars, dockerVars, registry>>

\* The event loop matches the request by workspace and container, and the
\* handler answers unless it has waited for ten seconds.
HandleStop(l) ==
  /\ Idle /\ stop[l] # "none"
  /\ stop' = [stop EXCEPT ![l] = "none"]
  /\ IF stop[l] = "bound" /\ stage[l] = "open"
       THEN MarkStopped(l) /\ \E late \in BOOLEAN : told' = [told EXCEPT ![l] = ~late]
       ELSE UNCHANGED <<exited, remover, told>>
  /\ UNCHANGED <<detached, docker, image, box, attached, configVars, launchVars,
                 registry>>

-----------------------------------------------------------------------------
Docker ==
  \/ \E d \in Weather : DockerChanges(d)
  \/ ImageGoes
  \/ \E l \in Launch : BoxStarts(l) \/ RunFails(l) \/ BoxEnds(l) \/ ClientEnds(l)

Launching ==
  \/ \E l \in Launch :
       \/ \E w \in Workspace : Request(l, w)
       \/ \E i \in Index : OpenPicker(l, i)
       \/ TakeLaunch(l) \/ PickTemplate(l) \/ ClosePicker(l) \/ BuildPrompted(l)
       \/ Adopt(l) \/ GiveUp(l) \/ RollBack(l)
  \/ LeavePane \/ CancelBuild \/ BuildFinished
  \/ \E end \in {"ok", "failed", "cancelled"} : BuildEnds(end)

Ending ==
  \/ \E l \in Launch :
       \/ CheckTerminal(l) \/ Reconcile(l) \/ CloseExited(l)
       \/ StopFromTui(l) \/ AskStop(l) \/ HandleStop(l) \/ RemoverRuns(l)
  \/ \E w \in Workspace : RemoveWorkspace(w)

Next ==
  Docker \/ Launching \/ Ending \/ (Idle /\ Refresh) \/ \E f \in Files : EditConfig(f)

Spec == Init /\ [][Next]_vars

\* What a round of the event loop sees to.
Round ==
  \/ BuildFinished
  \/ \E l \in Launch :
       \/ TakeLaunch(l) \/ Adopt(l) \/ GiveUp(l) \/ RollBack(l)
       \/ Reconcile(l) \/ CloseExited(l)

\* The event loop goes round, and Docker's builds end.  Nobody has to ask, pick,
\* edit, cancel or stop, containers need not end, nor need docker rm run.
FairSpec ==
  /\ Spec
  /\ WF_vars(Round)
  /\ WF_vars(\E end \in {"ok", "failed", "cancelled"} : BuildEnds(end))

-----------------------------------------------------------------------------
(* What should hold *)

Stages == {"new", "queued", "picking", "building", "starting", "undoing",
           "open", "failed", "closed"}

\* Types; the index a launch keeps is one that some configuration had.
TypeOK ==
  /\ disk \in Seq(Workspace) /\ cfg \in Seq(Workspace)
  /\ docker \in Weather /\ image \in BOOLEAN /\ prompt \in Index
  /\ build \in [launch : Launch \cup {NoLaunch}, cancel : BOOLEAN,
                end : {"running", "ok", "failed", "cancelled"}]
  /\ stage \in [Launch -> Stages]
  /\ asked \in [Launch -> Workspace \cup {NoWorkspace}]
  /\ of \in [Launch -> Workspace \cup {NoWorkspace}]
  /\ at \in [Launch -> Index]
  /\ registry \in [Launch -> {"none", "unbound", "bound"}]
  /\ box \in [Launch -> {"none", "asked", "never", "running", "gone"}]
  /\ {attached, exited, detached, told} \subseteq [Launch -> BOOLEAN]
  /\ remover \in [Launch -> {"none", "due", "done", "failed"}]
  /\ stop \in [Launch -> {"none", "unbound", "bound"}]

\* A token is good exactly while its session starts, when it stands for no
\* container, and while it is open; an attempt that failed leaves none.
SessionsAreAuthorized ==
  \A l \in Launch :
    registry[l] = CASE stage[l] = "open" -> "bound"
                    [] stage[l] \in {"starting", "undoing"} -> "unbound"
                    [] OTHER -> "none"

\* A session that was closed, or whose container was told that it stopped, has
\* no container left, unless docker rm is yet to run or has failed.
LeftIsRemoved ==
  \A l \in Launch :
    stage[l] = "closed" \/ told[l] =>
      box[l] # "running" \/ remover[l] \in {"due", "failed"}

\* A container that runs is taken for ended only by what also removes it.
RunningIsKept ==
  [][\A l \in Launch :
       exited'[l] /\ ~exited[l] /\ box[l] = "running" => remover'[l] = "due"]_vars

\* Every launch comes to an end, though builds exclude one another: again and
\* again none is under way.
LaunchesEnd ==
  []<>\A l \in Launch :
        stage[l] \notin {"queued", "building", "starting", "undoing"}

\* Sessions whose container is gone close, whatever their terminals say, unless
\* Docker cannot be asked.
GoneIsClosed ==
  []<>(docker = "absent" \/ \A l \in Launch : ~(stage[l] = "open" /\ box[l] = "gone"))

\* "Failed launches no longer leave an unmanaged container" (CHANGELOG.md): a
\* launch that failed has no container that runs.
FailedLeavesNothing ==
  \A l \in Launch : stage[l] = "failed" => box[l] # "running"

\* "A failed inspection must not be treated as an exit" (runtime.rs): while the
\* daemon is down no session ends but by what also removes its container.
OutageIsNoExit ==
  [][\A l \in Launch :
       docker = "down" /\ exited'[l] /\ ~exited[l] => remover'[l] = "due"]_vars

\* "`hat ws` uses the host directory you run it from to select a configured
\* workspace" (02-workspaces.md), and a refresh goes "without touching ...
\* builds" (core.rs): the session a build was for is one of the workspace that
\* was asked for.
BuiltWhereAsked ==
  [][\A l \in Launch :
       stage[l] = "building" /\ stage'[l] = "starting" => of'[l] = asked[l]]_vars

=============================================================================
