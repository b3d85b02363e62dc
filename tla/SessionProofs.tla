---------------------------- MODULE SessionProofs ----------------------------
(***************************************************************************)
(* Theorems about SessionLife, for any workspaces, launches and            *)
(* configuration files: tokens are good exactly while they should be, and  *)
(* while Docker answers (it is up, or it cannot be run at all) no          *)
(* container is left behind by a session that is gone or was told that it  *)
(* stopped.                                                                *)
(***************************************************************************)
EXTENDS SessionLife, TLAPS, Facts

\* What a launch has at each stage.  The build that runs is for one that waits
\* for it; a session that is open has a container or had one.
StageInv ==
  /\ SessionsAreAuthorized
  /\ build # NoBuild => build.launch \in Launch /\ stage[build.launch] = "building"
  /\ \A l \in Launch :
       /\ stage[l] = "open" => box[l] \in {"running", "gone"}
       /\ exited[l] => stage[l] = "open"
       /\ told[l] => stage[l] \in {"open", "closed"}
       /\ stage[l] = "closed" => box[l] \in {"running", "gone"}

\* An index is one a file has, also after a workspace was taken out.
IndexInv == DOMAIN disk \subseteq Index /\ DOMAIN cfg \subseteq Index

Inv == TypeOK /\ IndexInv /\ StageInv

\* What counts as ended, to the interface or to the container, is removed, is to
\* be removed, or could not be removed.
RemovalInv ==
  \A l \in Launch :
    exited[l] \/ told[l] \/ stage[l] = "closed" =>
      box[l] # "running" \/ remover[l] \in {"due", "failed"}

-----------------------------------------------------------------------------
(* Types *)

LaunchTypes ==
  /\ stage \in [Launch -> Stages] /\ prompt \in Index
  /\ asked \in [Launch -> Workspace \cup {NoWorkspace}]
  /\ of \in [Launch -> Workspace \cup {NoWorkspace}]
  /\ registry \in [Launch -> {"none", "unbound", "bound"}]
  /\ box \in [Launch -> {"none", "asked", "never", "running", "gone"}]
  /\ attached \in [Launch -> BOOLEAN]

BuildTypes ==
  /\ build \in [launch : Launch \cup {NoLaunch}, cancel : BOOLEAN,
                end : {"running", "ok", "failed", "cancelled"}]
  /\ at \in [Launch -> Index]

EndTypes ==
  /\ docker \in Weather /\ image \in BOOLEAN
  /\ exited \in [Launch -> BOOLEAN] /\ detached \in [Launch -> BOOLEAN]
  /\ told \in [Launch -> BOOLEAN]
  /\ remover \in [Launch -> {"none", "due", "done", "failed"}]
  /\ stop \in [Launch -> {"none", "unbound", "bound"}]

ConfigTypes == disk \in Seq(Workspace) /\ cfg \in Seq(Workspace) /\ IndexInv

LEMMA TypeParts ==
  TypeOK /\ IndexInv <=> LaunchTypes /\ BuildTypes /\ EndTypes /\ ConfigTypes
BY DEF TypeOK, LaunchTypes, BuildTypes, EndTypes, ConfigTypes

LEMMA PositionType ==
  ASSUME NEW c \in Seq(Workspace), NEW w
  PROVE  Position(c, w) \in {0} \cup DOMAIN c
BY DEF Position

\* What is listed at an index is a workspace.
LEMMA ListedType ==
  ASSUME NEW c \in Seq(Workspace), NEW i \in DOMAIN c
  PROVE  c[i] \in Workspace
BY LenProperties, ElementOfSeq

LEMMA WithoutType ==
  ASSUME NEW c \in Seq(Workspace), DOMAIN c \subseteq Index, NEW i \in DOMAIN c
  PROVE  Without(c, i) \in Seq(Workspace) /\ DOMAIN Without(c, i) \subseteq Index
<1>1. Without(c, i) \in Seq(Workspace) /\ Len(Without(c, i)) = Len(c) - 1
  BY DropOne DEF Without
<1>2. DOMAIN Without(c, i) = 1 .. Len(Without(c, i)) /\ DOMAIN c = 1 .. Len(c) /\ Len(c) \in Nat
  BY <1>1, LenProperties
<1> HIDE DEF Without
<1> QED BY <1>1, <1>2

LEMMA BeginType ==
  ASSUME LaunchTypes, NEW l \in Launch, NEW c \in Seq(Workspace),
         DOMAIN c \subseteq Index, NEW i, NEW pane \in Index, Begin(l, c, i, pane)
  PROVE  LaunchTypes'
BY ListedType DEF LaunchTypes, Begin, Fails, Stages

LEMMA StartBuildType ==
  ASSUME LaunchTypes, BuildTypes, NEW l \in Launch, NEW i \in Index,
         asked' \in [Launch -> Workspace \cup {NoWorkspace}], StartBuild(l, i)
  PROVE  LaunchTypes' /\ BuildTypes'
BY DEF LaunchTypes, BuildTypes, StartBuild, NoBuild, Stages

LEMMA FailsType ==
  ASSUME LaunchTypes, NEW l \in Launch, Fails(l), prompt' \in Index
  PROVE  LaunchTypes'
BY DEF LaunchTypes, Fails, Stages

Typed == LaunchTypes /\ BuildTypes /\ EndTypes /\ ConfigTypes

LEMMA LaunchingTypes == Typed /\ StageInv /\ Launching => Typed'
<1> SUFFICES ASSUME Typed, StageInv, Launching
             PROVE  Typed'
  OBVIOUS
<1> USE DEF Typed
<1>1. 0 \in Index /\ \A w : Position(cfg, w) \in Index /\ Position(disk, w) \in Index
  BY PositionType DEF Index, ConfigTypes, IndexInv
<1>2. ASSUME NEW l \in Launch, TakeLaunch(l)
      PROVE  Typed'
  <2>1. EndTypes' /\ ConfigTypes' /\ prompt \in Index
    BY <1>2 DEF TakeLaunch, EndTypes, ConfigTypes, IndexInv, sessionVars, stopVars,
                LaunchTypes
  <2> DEFINE i == Position(disk, asked[l])
  <2>2. i \in Index /\ disk \in Seq(Workspace) /\ DOMAIN disk \subseteq Index
    BY <1>1 DEF ConfigTypes, IndexInv
  <2> HIDE DEF i
  <2>3. CASE StartBuild(l, i) /\ asked' = asked
    <3>1. asked' \in [Launch -> Workspace \cup {NoWorkspace}]
      BY <2>3 DEF LaunchTypes
    <3> QED BY <2>1, <2>2, <2>3, <3>1, StartBuildType
  <2>4. CASE Fails(l) /\ prompt' \in {i, prompt} /\ UNCHANGED <<build, at>>
    BY <2>1, <2>2, <2>4, FailsType DEF BuildTypes
  <2>5. CASE Begin(l, disk, i, prompt) /\ UNCHANGED <<build, at>>
    BY <2>1, <2>2, <2>5, BeginType DEF BuildTypes
  <2> QED BY <1>2, <2>3, <2>4, <2>5 DEF TakeLaunch, i
<1>3. ASSUME NEW l \in Launch, NEW w \in Workspace, Request(l, w)
      PROVE  Typed'
  BY <1>3 DEF Request, LaunchTypes, BuildTypes, EndTypes, ConfigTypes, IndexInv,
              Stages, configVars, sessionVars, dockerVars, stopVars
<1>4. ASSUME NEW l \in Launch, NEW i \in Index, OpenPicker(l, i)
      PROVE  Typed'
  <2>1. cfg[i] \in Workspace
    BY <1>4, ListedType DEF OpenPicker, ConfigTypes
  <2> QED BY <1>4, <2>1 DEF OpenPicker, LaunchTypes, BuildTypes, EndTypes,
             ConfigTypes, IndexInv, Stages, configVars, sessionVars, dockerVars, stopVars
<1>5. ASSUME NEW l \in Launch, PickTemplate(l)
      PROVE  Typed'
  <2>1. LaunchTypes'
    BY <1>5, BeginType DEF PickTemplate, LaunchTypes, ConfigTypes, IndexInv
  <2> QED BY <1>1, <1>5, <2>1 DEF PickTemplate, BuildTypes, EndTypes,
             ConfigTypes, IndexInv, configVars, sessionVars, stopVars
<1>6. ASSUME NEW l \in Launch, ClosePicker(l)
      PROVE  Typed'
  <2>1. LaunchTypes'
    BY <1>6, FailsType DEF ClosePicker, LaunchTypes
  <2> QED BY <1>1, <1>6, <2>1 DEF ClosePicker, BuildTypes, EndTypes,
             ConfigTypes, IndexInv, configVars, sessionVars, stopVars
<1>7. ASSUME NEW l \in Launch, BuildPrompted(l)
      PROVE  Typed'
  <2>1. cfg[prompt] \in Workspace /\ prompt \in Index
    BY <1>7, ListedType DEF BuildPrompted, ConfigTypes, LaunchTypes
  <2>2. asked' \in [Launch -> Workspace \cup {NoWorkspace}]
    BY <1>7, <2>1 DEF BuildPrompted, LaunchTypes
  <2>3. LaunchTypes' /\ BuildTypes'
    BY <1>7, <2>1, <2>2, StartBuildType DEF BuildPrompted
  <2> QED BY <1>7, <2>3 DEF BuildPrompted, EndTypes, ConfigTypes, IndexInv,
             configVars, sessionVars, stopVars
<1>8. CASE LeavePane \/ CancelBuild \/ \E end \in {"ok", "failed", "cancelled"} : BuildEnds(end)
  BY ZenonT(60), <1>1, <1>8 DEF LeavePane, CancelBuild, BuildEnds, LaunchTypes, BuildTypes, EndTypes,
             ConfigTypes, IndexInv, configVars, sessionVars, dockerVars, stopVars
<1>9. CASE BuildFinished
  <2> DEFINE l == build.launch
  <2>1. /\ l \in Launch /\ build.end \in {"ok", "failed", "cancelled"}
        /\ cfg \in Seq(Workspace) /\ DOMAIN cfg \subseteq Index
    BY <1>9 DEF BuildFinished, BuildTypes, StageInv, ConfigTypes, IndexInv
  <2> HIDE DEF l
  <2>2. ASSUME Begin(l, cfg, at[l], 0)
        PROVE  LaunchTypes'
    BY <1>1, <2>1, <2>2, BeginType
  <2>3. ASSUME Fails(l), prompt' \in {prompt, 0}
        PROVE  LaunchTypes'
    BY <1>1, <2>1, <2>3, FailsType DEF LaunchTypes
  <2>4. LaunchTypes'
    BY <1>9, <2>1, <2>2, <2>3 DEF BuildFinished, l
  <2>5. BuildTypes'
    BY <1>1, <1>9 DEF BuildFinished, BuildTypes, NoBuild
  <2> QED BY <1>9, <2>4, <2>5 DEF BuildFinished, EndTypes, ConfigTypes, IndexInv,
             configVars, sessionVars, stopVars
<1>10. ASSUME NEW l \in Launch, Adopt(l) \/ GiveUp(l) \/ RollBack(l)
       PROVE  Typed'
  BY ZenonT(60), <1>10 DEF Adopt, GiveUp, RollBack, Removed, LaunchTypes, BuildTypes, EndTypes,
             ConfigTypes, IndexInv, Stages, configVars, sessionVars, dockerVars, stopVars
<1> QED BY <1>2, <1>3, <1>4, <1>5, <1>6, <1>7, <1>8, <1>9, <1>10 DEF Launching

LEMMA ForgetType ==
  ASSUME Typed, NEW its, Close(its)
  PROVE  LaunchTypes' /\ BuildTypes' /\ EndTypes'
BY DEF Typed, LaunchTypes, BuildTypes, EndTypes, Close, Forget, Stages, stopVars

LEMMA EndingTypes == Typed /\ Ending => Typed'
<1> SUFFICES ASSUME Typed, Ending
             PROVE  Typed'
  OBVIOUS
<1> USE DEF Typed
<1>1. ASSUME NEW l \in Launch, CheckTerminal(l) \/ Reconcile(l) \/ StopFromTui(l)
      PROVE  Typed'
  BY ZenonT(60), <1>1 DEF CheckTerminal, Reconcile, StopFromTui, MarkStopped, LaunchTypes, BuildTypes,
              EndTypes, ConfigTypes, IndexInv, configVars, launchVars, dockerVars, stopVars
<1>2. ASSUME NEW l \in Launch, CloseExited(l)
      PROVE  Typed'
  BY <1>2, ForgetType DEF CloseExited, ConfigTypes, IndexInv, configVars
<1>3. ASSUME NEW l \in Launch, AskStop(l) \/ HandleStop(l)
      PROVE  Typed'
  <2>1. LaunchTypes' /\ BuildTypes' /\ ConfigTypes' /\ UNCHANGED <<docker, image, detached>>
    BY <1>3 DEF AskStop, HandleStop, LaunchTypes, BuildTypes, ConfigTypes, IndexInv,
                configVars, launchVars, sessionVars, dockerVars, stopVars
  <2>2. CASE AskStop(l)
    BY <2>1, <2>2 DEF AskStop, LaunchTypes, EndTypes, sessionVars, dockerVars
  <2>3. CASE HandleStop(l)
    <3>1. /\ exited' \in [Launch -> BOOLEAN]
          /\ remover' \in [Launch -> {"none", "due", "done", "failed"}]
      BY <2>3 DEF HandleStop, MarkStopped, EndTypes
    <3>2. told' \in [Launch -> BOOLEAN] /\ stop' \in [Launch -> {"none", "unbound", "bound"}]
      BY <2>3 DEF HandleStop, EndTypes
    <3> QED BY <2>1, <3>1, <3>2 DEF EndTypes
  <2> QED BY <1>3, <2>2, <2>3
<1>4. ASSUME NEW l \in Launch, RemoverRuns(l)
      PROVE  Typed'
  BY <1>4 DEF RemoverRuns, Removed, LaunchTypes, BuildTypes,
              EndTypes, ConfigTypes, IndexInv, configVars, launchVars, sessionVars, stopVars
<1>5. ASSUME NEW w \in Workspace, RemoveWorkspace(w)
      PROVE  Typed'
  <2> DEFINE i == Position(disk, w)
  <2>1. disk \in Seq(Workspace) /\ DOMAIN disk \subseteq Index
    BY DEF ConfigTypes, IndexInv
  <2>2. i # 0 => i \in DOMAIN disk
    BY <2>1, PositionType
  <2> HIDE DEF i
  <2>3. i # 0 => /\ Without(disk, i) \in Seq(Workspace)
                 /\ DOMAIN Without(disk, i) \subseteq Index
    BY <2>1, <2>2, WithoutType
  <2>4. ConfigTypes'
    BY <1>5, <2>3 DEF RemoveWorkspace, i, ConfigTypes, IndexInv, configVars
  <2> QED BY <1>5, <2>4, ForgetType DEF RemoveWorkspace
<1> QED BY <1>1, <1>2, <1>3, <1>4, <1>5 DEF Ending

LEMMA NextTypes == Inv /\ [Next]_vars => Typed'
<1> SUFFICES ASSUME Inv, [Next]_vars
             PROVE  Typed'
  OBVIOUS
<1>1. Typed /\ StageInv
  BY TypeParts DEF Inv, Typed
<1> USE DEF Typed, configVars, launchVars, sessionVars, dockerVars, stopVars
<1>2. CASE Docker
  <2>1. ASSUME NEW l \in Launch, NEW b \in {"never", "running", "gone", box[l]},
               NEW client \in BOOLEAN, Becomes(l, b, client)
        PROVE  Typed'
    BY <1>1, <2>1 DEF Becomes, LaunchTypes, BuildTypes, EndTypes, ConfigTypes, IndexInv
  <2>2. ASSUME NEW l \in Launch
        PROVE  attached[l] \in BOOLEAN
    BY <1>1 DEF LaunchTypes
  <2>3. CASE ImageGoes \/ \E d \in Weather : DockerChanges(d)
    BY <1>1, <2>3 DEF DockerChanges, ImageGoes, LaunchTypes, BuildTypes, EndTypes,
                      ConfigTypes, IndexInv
  <2> HIDE DEF Typed
  <2> QED BY <1>2, <2>1, <2>2, <2>3 DEF Docker, BoxStarts, RunFails, BoxEnds, ClientEnds
<1>3. CASE Refresh
  BY <1>1, <1>3 DEF Refresh, LaunchTypes, BuildTypes, EndTypes, ConfigTypes, IndexInv
<1>4. ASSUME NEW f \in Files, EditConfig(f)
      PROVE  Typed'
  <2>1. f \in Seq(Workspace) /\ DOMAIN f \subseteq Index
    BY SessionLifeAssumption DEF Index
  <2> QED BY <1>1, <1>4, <2>1 DEF EditConfig, LaunchTypes, BuildTypes, EndTypes,
             ConfigTypes, IndexInv
<1>5. CASE UNCHANGED vars
  BY <1>1, <1>5 DEF vars, LaunchTypes, BuildTypes, EndTypes, ConfigTypes, IndexInv
<1> QED BY <1>1, <1>2, <1>3, <1>4, <1>5, LaunchingTypes, EndingTypes DEF Next

-----------------------------------------------------------------------------
(* Stages, tokens and containers *)

Authorized(l) ==
  registry[l] = CASE stage[l] = "open" -> "bound"
                  [] stage[l] \in {"starting", "undoing"} -> "unbound"
                  [] OTHER -> "none"

AtStage(l) ==
  /\ Authorized(l)
  /\ stage[l] = "open" => box[l] \in {"running", "gone"}
  /\ exited[l] => stage[l] = "open"
  /\ told[l] => stage[l] \in {"open", "closed"}
  /\ stage[l] = "closed" => box[l] \in {"running", "gone"}

BuildInv == build # NoBuild => build.launch \in Launch /\ stage[build.launch] = "building"

LEMMA StageParts == StageInv <=> BuildInv /\ \A l \in Launch : AtStage(l)
BY DEF StageInv, SessionsAreAuthorized, BuildInv, AtStage, Authorized

\* Before a session is there.
Early == {"new", "queued", "picking", "building"}

\* A launch that has yet to begin is taken one stage on; all others stay as they
\* are.
Onward(l) ==
  /\ stage[l] \in Early
  /\ \E to \in Early \cup {"starting", "failed"} :
       /\ stage' = [stage EXCEPT ![l] = to]
       /\ registry' = [registry EXCEPT ![l] = IF to = "starting" THEN "unbound" ELSE @]
  /\ \A k \in Launch \ {l} : box'[k] = box[k]
  /\ UNCHANGED <<exited, told>>

LEMMA BeginOnward ==
  ASSUME Inv, NEW l \in Launch, stage[l] \in Early, UNCHANGED <<exited, told>>,
         \/ \E c, i, pane : Begin(l, c, i, pane)
         \/ \E i : StartBuild(l, i)
         \/ Fails(l)
  PROVE  Onward(l)
BY DEF Inv, TypeOK, Begin, StartBuild, Fails, Onward, Early

LEMMA OnwardKept ==
  ASSUME Inv, NEW l \in Launch, Onward(l)
  PROVE  \A k \in Launch : AtStage(k)'
<1> SUFFICES ASSUME NEW k \in Launch
             PROVE  AtStage(k)'
  OBVIOUS
<1>1. AtStage(k) /\ LaunchTypes
  BY StageParts, TypeParts DEF Inv
<1>2. CASE k = l
  BY <1>1, <1>2 DEF Onward, Early, AtStage, Authorized, LaunchTypes
<1>3. CASE k # l
  <2>1. UNCHANGED <<stage[k], registry[k], box[k], exited[k], told[k]>>
    BY <1>1, <1>3 DEF Onward, LaunchTypes
  <2> QED BY <1>1, <2>1 DEF AtStage, Authorized
<1> QED BY <1>2, <1>3

\* Sessions that close.
LEMMA CloseKept ==
  ASSUME Inv, NEW its \in SUBSET {l \in Launch : stage[l] = "open"}, Close(its)
  PROVE  \A k \in Launch : AtStage(k)'
<1>1. Typed /\ \A k \in Launch : AtStage(k)
  BY StageParts, TypeParts DEF Inv, Typed
<1> QED BY <1>1 DEF Close, Forget, stopVars, AtStage, Authorized, Typed, LaunchTypes, EndTypes

LEMMA NextAtStage == Inv /\ [Next]_vars => \A l \in Launch : AtStage(l)'
<1> SUFFICES ASSUME Inv, [Next]_vars
             PROVE  \A l \in Launch : AtStage(l)'
  OBVIOUS
<1>1. LaunchTypes /\ EndTypes /\ BuildInv /\ \A l \in Launch : AtStage(l)
  BY StageParts, TypeParts DEF Inv
<1> USE DEF configVars, launchVars, sessionVars, dockerVars, stopVars
<1>2. CASE UNCHANGED <<stage, registry, box, exited, told>>
  BY <1>1, <1>2 DEF AtStage, Authorized
<1>3. CASE Docker
  <2>1. ASSUME NEW l \in Launch, BoxStarts(l) \/ RunFails(l) \/ BoxEnds(l) \/ ClientEnds(l),
               NEW k \in Launch
        PROVE  AtStage(k)'
    <3>1. UNCHANGED <<stage, registry, exited, told>>
      BY <2>1 DEF BoxStarts, RunFails, BoxEnds, ClientEnds, Becomes
    <3>2. box'[k] = box[k] \/ box[k] = "asked" \/ box'[k] = "gone"
      BY <1>1, <2>1 DEF BoxStarts, RunFails, BoxEnds, ClientEnds, Becomes, LaunchTypes
    <3> QED BY <1>1, <3>1, <3>2 DEF AtStage, Authorized
  <2> QED BY <1>2, <1>3, <2>1 DEF Docker, DockerChanges, ImageGoes
<1>4. ASSUME NEW l \in Launch,
             TakeLaunch(l) \/ PickTemplate(l) \/ ClosePicker(l) \/ BuildPrompted(l)
      PROVE  \A k \in Launch : AtStage(k)'
  BY <1>4, BeginOnward, OnwardKept
     DEF TakeLaunch, PickTemplate, ClosePicker, BuildPrompted, Early
<1>5. ASSUME NEW l \in Launch,
             \/ \E w \in Workspace : Request(l, w)
             \/ \E i \in Index : OpenPicker(l, i)
      PROVE  \A k \in Launch : AtStage(k)'
  <2>1. Onward(l)
    BY <1>1, <1>5 DEF Request, OpenPicker, Onward, Early, LaunchTypes
  <2> QED BY <2>1, OnwardKept
<1>6. CASE BuildFinished
  <2> DEFINE l == build.launch
  <2>1. /\ l \in Launch /\ stage[l] \in Early
        /\ build.end \in {"ok", "failed", "cancelled"}
    BY <1>1, <1>6 DEF BuildFinished, BuildInv, Early, TypeOK, Inv
  <2> HIDE DEF l
  <2>2. Begin(l, cfg, at[l], 0) \/ Fails(l)
    BY <1>6, <2>1 DEF BuildFinished, l
  <2>3. UNCHANGED <<exited, told>>
    BY <1>6 DEF BuildFinished
  <2> QED BY <2>1, <2>2, <2>3, BeginOnward, OnwardKept
<1>7. ASSUME NEW l \in Launch, Adopt(l) \/ GiveUp(l) \/ RollBack(l), NEW k \in Launch
      PROVE  AtStage(k)'
  BY <1>1, <1>7 DEF Adopt, GiveUp, RollBack, Removed, AtStage, Authorized, LaunchTypes
<1>8. CASE LeavePane \/ CancelBuild \/ \E end \in {"ok", "failed", "cancelled"} : BuildEnds(end)
  BY <1>2, <1>8 DEF LeavePane, CancelBuild, BuildEnds
<1>9. ASSUME NEW l \in Launch, CheckTerminal(l) \/ Reconcile(l) \/ StopFromTui(l), NEW k \in Launch
      PROVE  AtStage(k)'
  BY <1>1, <1>9 DEF CheckTerminal, Reconcile, StopFromTui, MarkStopped, AtStage, Authorized, EndTypes
<1>10. ASSUME NEW l \in Launch, CloseExited(l)
       PROVE  \A k \in Launch : AtStage(k)'
  BY <1>10, CloseKept DEF CloseExited
<1>11. ASSUME NEW w \in Workspace, RemoveWorkspace(w)
       PROVE  \A k \in Launch : AtStage(k)'
  BY <1>11, CloseKept DEF RemoveWorkspace
<1>12. ASSUME NEW l \in Launch, AskStop(l) \/ HandleStop(l), NEW k \in Launch
       PROVE  AtStage(k)'
  BY <1>1, <1>12 DEF AskStop, HandleStop, MarkStopped, AtStage, Authorized, EndTypes
<1>13. ASSUME NEW l \in Launch, RemoverRuns(l), NEW k \in Launch
       PROVE  AtStage(k)'
  BY <1>1, <1>13 DEF RemoverRuns, Removed, AtStage, Authorized, LaunchTypes
<1>14. CASE Refresh \/ (\E f \in Files : EditConfig(f)) \/ UNCHANGED vars
  BY <1>2, <1>14 DEF Refresh, EditConfig, vars
<1> QED BY <1>3, <1>4, <1>5, <1>6, <1>7, <1>8, <1>9, <1>10, <1>11, <1>12, <1>13, <1>14
        DEF Next, Launching, Ending

\* One build runs at a time, and the launch it is for waits for it.
LEMMA NextBuild == Inv /\ [Next]_vars => BuildInv'
<1> SUFFICES ASSUME Inv, [Next]_vars, build' # NoBuild
             PROVE  build'.launch \in Launch /\ stage'[build'.launch] = "building"
  BY DEF BuildInv
<1>1. LaunchTypes /\ BuildTypes /\ BuildInv
  BY StageParts, TypeParts DEF Inv
<1> USE DEF configVars, launchVars, sessionVars, dockerVars, stopVars
<1>2. ASSUME UNCHANGED build,
             \A l \in Launch : stage[l] = "building" => stage'[l] = "building"
      PROVE  build'.launch \in Launch /\ stage'[build'.launch] = "building"
  BY <1>1, <1>2 DEF BuildInv
<1>3. ASSUME NEW l \in Launch, NEW i, StartBuild(l, i)
      PROVE  build'.launch \in Launch /\ stage'[build'.launch] = "building"
  BY <1>1, <1>3 DEF StartBuild, NoBuild, LaunchTypes
<1>4. ASSUME NEW l \in Launch, stage[l] # "building", UNCHANGED build,
             (\E c, i, pane : Begin(l, c, i, pane)) \/ Fails(l)
      PROVE  build'.launch \in Launch /\ stage'[build'.launch] = "building"
  BY <1>1, <1>2, <1>4 DEF Begin, Fails, LaunchTypes
<1>5. ASSUME NEW l \in Launch, TakeLaunch(l) \/ PickTemplate(l) \/ ClosePicker(l) \/ BuildPrompted(l)
      PROVE  build'.launch \in Launch /\ stage'[build'.launch] = "building"
  BY <1>3, <1>4, <1>5 DEF TakeLaunch, PickTemplate, ClosePicker, BuildPrompted
<1>6. CASE Docker \/ Refresh \/ (\E f \in Files : EditConfig(f)) \/ UNCHANGED vars
  BY <1>2, <1>6 DEF Docker, DockerChanges, ImageGoes, BoxStarts, RunFails, BoxEnds, ClientEnds,
     Becomes, Refresh, EditConfig, vars
<1>7. ASSUME NEW l \in Launch,
             \/ \E w \in Workspace : Request(l, w)
             \/ \E i \in Index : OpenPicker(l, i)
             \/ Adopt(l) \/ GiveUp(l) \/ RollBack(l)
      PROVE  build'.launch \in Launch /\ stage'[build'.launch] = "building"
  BY <1>1, <1>2, <1>7 DEF Request, OpenPicker, Adopt, GiveUp, RollBack, LaunchTypes
<1>8. CASE LeavePane \/ CancelBuild \/ \E end \in {"ok", "failed", "cancelled"} : BuildEnds(end)
  BY <1>1, <1>8 DEF LeavePane, CancelBuild, BuildEnds, BuildTypes, BuildInv
<1>9. ~BuildFinished
  BY DEF BuildFinished
<1>10. ASSUME NEW its \in SUBSET {l \in Launch : stage[l] = "open"}, Close(its)
       PROVE  build'.launch \in Launch /\ stage'[build'.launch] = "building"
  BY <1>1, <1>2, <1>10 DEF Close, Forget, LaunchTypes
<1>11. CASE Ending
  BY <1>2, <1>10, <1>11 DEF Ending, CheckTerminal, Reconcile, CloseExited, StopFromTui,
     AskStop, HandleStop, RemoverRuns, RemoveWorkspace
<1> QED BY <1>5, <1>6, <1>7, <1>8, <1>9, <1>11 DEF Next, Launching

LEMMA InitInv == Init => Inv
<1> SUFFICES ASSUME Init
             PROVE  Inv
  OBVIOUS
<1>1. ConfigTypes
  BY SessionLifeAssumption DEF Init, ConfigTypes, IndexInv, Index
<1>2. LaunchTypes /\ BuildTypes /\ EndTypes
  BY SessionLifeAssumption
     DEF Init, LaunchTypes, BuildTypes, EndTypes, Index, Stages, NoBuild
<1>3. StageInv
  BY DEF Init, StageInv, SessionsAreAuthorized
<1> QED BY <1>1, <1>2, <1>3, TypeParts DEF Inv

LEMMA NextInv == Inv /\ [Next]_vars => Inv'
<1>1. (TypeOK /\ IndexInv)' <=> (LaunchTypes /\ BuildTypes /\ EndTypes /\ ConfigTypes)'
  BY TypeParts DEF TypeOK, IndexInv, LaunchTypes, BuildTypes, EndTypes, ConfigTypes
<1>2. StageInv' <=> BuildInv' /\ \A l \in Launch : AtStage(l)'
  BY DEF StageInv, SessionsAreAuthorized, BuildInv, AtStage, Authorized
<1> QED BY <1>1, <1>2, NextTypes, NextAtStage, NextBuild DEF Inv, Typed

LEMMA Inductive == Spec => []Inv
BY InitInv, NextInv, PTL DEF Spec

\* Every variable keeps its type; the index that a launch or the build pane keeps
\* while the file is edited and reloaded is one that some configuration had.
THEOREM TypeCorrect == Spec => []TypeOK
<1>1. Inv => TypeOK
  BY DEF Inv
<1> QED BY <1>1, Inductive, PTL

\* A token is good exactly while its session starts or is open, and it stands for
\* a container exactly while the session is open; an attempt that failed or was
\* rolled back leaves none.
THEOREM TokensAreTrue == Spec => []SessionsAreAuthorized
<1>1. Inv => SessionsAreAuthorized
  BY DEF Inv, StageInv
<1> QED BY <1>1, Inductive, PTL

-----------------------------------------------------------------------------
(* What is left behind.  While the daemon is down docker inspect fails and *)
(* a session is taken for ended (OutageIsNoExit is violated), so these     *)
(* theorems are about a Docker that is up or cannot be run.                *)

Removable(l) == box[l] # "running" \/ remover[l] \in {"due", "failed"}
Left(l) == exited[l] \/ told[l] \/ stage[l] = "closed"

LEMMA CloseRemoves ==
  ASSUME Inv, RemovalInv, NEW its \in SUBSET {l \in Launch : stage[l] = "open"},
         Close(its), NEW l \in Launch, Left(l)'
  PROVE  Removable(l)'
<1>1. LaunchTypes /\ EndTypes /\ (Left(l) => Removable(l))
  BY TypeParts DEF Inv, RemovalInv, Left, Removable
<1>2. CASE l \in its /\ ~exited[l]
  BY <1>1, <1>2 DEF Close, EndTypes, Removable
<1>3. CASE l \notin its \/ exited[l]
  <2>1. Left(l) /\ UNCHANGED <<box, remover[l]>>
    BY <1>1, <1>3 DEF Close, Forget, Left, EndTypes, LaunchTypes, stopVars
  <2> QED BY <1>1, <2>1 DEF Removable
<1> QED BY <1>2, <1>3

LEMMA NextRemoval ==
  ASSUME "down" \notin Weather
  PROVE  Inv /\ RemovalInv /\ [Next]_vars => RemovalInv'
<1> SUFFICES ASSUME Inv, RemovalInv, [Next]_vars, NEW l \in Launch, Left(l)'
             PROVE  Removable(l)'
  BY DEF RemovalInv, Left, Removable
<1>1. /\ LaunchTypes /\ EndTypes /\ BuildInv /\ AtStage(l)
      /\ Left(l) => Removable(l)
      /\ docker \in {"up", "absent"}
  BY StageParts, TypeParts, SessionLifeAssumption
     DEF Inv, RemovalInv, Left, Removable, EndTypes
<1> USE DEF configVars, launchVars, sessionVars, dockerVars, stopVars, Left, Removable
<1>2. CASE /\ UNCHANGED <<stage, exited, told, remover>>
           /\ box'[l] # "running" \/ box'[l] = box[l] \/ box[l] = "asked"
  BY <1>1, <1>2 DEF AtStage
<1>3. CASE Docker
  BY <1>1, <1>2, <1>3 DEF Docker, DockerChanges, ImageGoes, BoxStarts, RunFails, BoxEnds,
     ClientEnds, Becomes, LaunchTypes
<1>4. ASSUME NEW k \in Launch, Onward(k), UNCHANGED remover
      PROVE  Removable(l)'
  BY <1>1, <1>4 DEF Onward, Early, AtStage, LaunchTypes
<1>5. ASSUME NEW k \in Launch,
             TakeLaunch(k) \/ PickTemplate(k) \/ ClosePicker(k) \/ BuildPrompted(k)
      PROVE  Removable(l)'
  BY <1>4, <1>5, BeginOnward DEF TakeLaunch, PickTemplate, ClosePicker, BuildPrompted, Early
<1>6. ASSUME NEW k \in Launch,
             \/ \E w \in Workspace : Request(k, w)
             \/ \E i \in Index : OpenPicker(k, i)
      PROVE  Removable(l)'
  BY <1>1, <1>6 DEF Request, OpenPicker, LaunchTypes
<1>7. CASE BuildFinished
  <2> DEFINE k == build.launch
  <2>1. k \in Launch /\ stage[k] \in Early /\ build.end \in {"ok", "failed", "cancelled"}
    BY <1>1, <1>7 DEF BuildFinished, BuildInv, Early, TypeOK, Inv
  <2> HIDE DEF k
  <2>2. Begin(k, cfg, at[k], 0) \/ Fails(k)
    BY <1>7, <2>1 DEF BuildFinished, k
  <2>3. UNCHANGED <<exited, told, remover>>
    BY <1>7 DEF BuildFinished
  <2> QED BY <1>4, <2>1, <2>2, <2>3, BeginOnward
<1>8. ASSUME NEW k \in Launch, Adopt(k) \/ GiveUp(k) \/ RollBack(k)
      PROVE  Removable(l)'
  BY <1>1, <1>8 DEF Adopt, GiveUp, RollBack, Removed, LaunchTypes
<1>9. CASE LeavePane \/ CancelBuild \/ \E end \in {"ok", "failed", "cancelled"} : BuildEnds(end)
  BY <1>2, <1>9 DEF LeavePane, CancelBuild, BuildEnds
<1>10. ASSUME NEW k \in Launch, CheckTerminal(k) \/ Reconcile(k) \/ StopFromTui(k)
       PROVE  Removable(l)'
  BY <1>1, <1>10 DEF CheckTerminal, Reconcile, StopFromTui, MarkStopped, InspectedRunning,
     InspectAnswers, EndTypes
<1>11. ASSUME NEW k \in Launch, CloseExited(k)
       PROVE  Removable(l)'
  BY <1>11, CloseRemoves DEF CloseExited
<1>12. ASSUME NEW w \in Workspace, RemoveWorkspace(w)
       PROVE  Removable(l)'
  BY <1>12, CloseRemoves DEF RemoveWorkspace
<1>13. ASSUME NEW k \in Launch, AskStop(k) \/ HandleStop(k)
       PROVE  Removable(l)'
  BY <1>1, <1>13 DEF AskStop, HandleStop, MarkStopped, EndTypes
<1>14. ASSUME NEW k \in Launch, RemoverRuns(k)
       PROVE  Removable(l)'
  BY <1>1, <1>14 DEF RemoverRuns, Removed, LaunchTypes, EndTypes
<1>15. CASE Refresh \/ (\E f \in Files : EditConfig(f)) \/ UNCHANGED vars
  BY <1>2, <1>15 DEF Refresh, EditConfig, vars
<1> QED BY <1>3, <1>5, <1>6, <1>7, <1>8, <1>9, <1>10, <1>11, <1>12, <1>13, <1>14, <1>15
        DEF Next, Launching, Ending

\* A session that was closed, or whose container was told that it stopped, has no
\* container left, unless docker rm is yet to run or has failed.
THEOREM LeftIsGone ==
  ASSUME "down" \notin Weather
  PROVE  Spec => []LeftIsRemoved
<1>1. Init => RemovalInv
  BY DEF Init, RemovalInv
<1>2. Inv /\ RemovalInv /\ [Next]_vars => RemovalInv'
  BY NextRemoval
<1>3. RemovalInv => LeftIsRemoved
  BY DEF RemovalInv, LeftIsRemoved
<1> QED BY <1>1, <1>2, <1>3, Inductive, PTL DEF Spec

\* A container that runs is taken for ended only by what also removes it: not
\* because its terminal is gone, and not by the check every two seconds.
THEOREM RunningIsNotEnded ==
  ASSUME "down" \notin Weather
  PROVE  Spec => RunningIsKept
<1> DEFINE Kept == \A l \in Launch :
                     exited'[l] /\ ~exited[l] /\ box[l] = "running" => remover'[l] = "due"
<1>1. Inv /\ [Next]_vars => Kept
  <2> SUFFICES ASSUME Inv, [Next]_vars, NEW l \in Launch, exited'[l], ~exited[l],
                      box[l] = "running"
               PROVE  remover'[l] = "due"
    OBVIOUS
  <2>1. EndTypes /\ docker \in {"up", "absent"}
    BY TypeParts, SessionLifeAssumption DEF Inv, EndTypes
  <2>2. ASSUME NEW k \in Launch, CheckTerminal(k) \/ Reconcile(k)
        PROVE  FALSE
    BY <2>1, <2>2 DEF CheckTerminal, Reconcile, InspectedRunning, InspectAnswers, EndTypes
  <2>3. ASSUME NEW k \in Launch, StopFromTui(k) \/ HandleStop(k)
        PROVE  remover'[l] = "due"
    BY <2>1, <2>3 DEF StopFromTui, HandleStop, MarkStopped, EndTypes
  <2>4. ASSUME NEW its, Close(its)
        PROVE  FALSE
    BY <2>1, <2>4 DEF Close, Forget
  <2>5. ASSUME UNCHANGED exited
        PROVE  FALSE
    BY <2>5
  <2>6. Docker \/ Launching \/ Refresh \/ (\E f \in Files : EditConfig(f)) \/ UNCHANGED vars
          => UNCHANGED exited
    BY DEF Docker, DockerChanges, ImageGoes, BoxStarts, RunFails, BoxEnds, ClientEnds,
       Becomes, Refresh, EditConfig, vars, Launching, TakeLaunch, PickTemplate, ClosePicker,
       BuildPrompted, Request, OpenPicker, Adopt, GiveUp, RollBack, LeavePane, CancelBuild,
       BuildEnds, BuildFinished, sessionVars
  <2> QED BY <2>2, <2>3, <2>4, <2>5, <2>6
          DEF Next, Ending, CloseExited, RemoveWorkspace, AskStop, RemoverRuns, sessionVars
<1>2. Inv /\ [Next]_vars => [Kept]_vars
  BY <1>1
<1> QED BY <1>2, Inductive, PTL DEF Spec, RunningIsKept

=============================================================================
