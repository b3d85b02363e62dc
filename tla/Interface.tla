----------------------------- MODULE Interface -----------------------------
(***************************************************************************)
(* The manager's own terminal interface: what a turn of the event loop     *)
(* drains, what the frame then shows and what the next key acts on         *)
(* (src/tui/mod.rs event_loop, src/tui/app/{core,input,settings,runtime,   *)
(* build,launch}.rs, src/tui/render).                                      *)
(*                                                                         *)
(* One turn: the selected sidebar row is noted, the channels are drained   *)
(* in a fixed order, the selection is put back by value, builds and ended  *)
(* sessions are handled, aged activities are pruned, a frame is drawn if   *)
(* anything is known to have changed, and one key is read.  Nearly every   *)
(* pointer of the interface is an INDEX into a list some other event of    *)
(* the turn shortens or reloads: that is what the module is about.         *)
(*                                                                         *)
(* Left out: scrolling, text, bells, mouse selection, the daemon's         *)
(* attached clients (module AttachedTui) and native dialogs, so this is    *)
(* the interactive interface of Linux and Windows.  A group of sessions    *)
(* holds one terminal: every caller passes session_group = None.           *)
(***************************************************************************)
EXTENDS Naturals, FiniteSets, Lists

CONSTANTS
    Configs,        \* the lists of workspaces the configuration file may hold
    ExecRequests,   \* host commands that ask for an approval
    NetRequests,    \* connections that ask for one
    Unbuilt,        \* the workspaces whose image a launch may find missing
    MaxSessions,    \* bound: containers started in a behaviour
    MaxDrained,     \* bound: events drained in a behaviour
    MaxPressed      \* bound: keys pressed in a behaviour

Requests == ExecRequests \cup NetRequests
Workspaces == UNION {Range(c) : c \in Configs}

ASSUME InterfaceAssumption ==
    /\ Configs # {} /\ IsFiniteSet(Configs)
    /\ \A c \in Configs : c \in Seq(Workspaces) /\ IsInjective(c)
    /\ ExecRequests \cap NetRequests = {}
    /\ {MaxSessions, MaxDrained, MaxPressed} \subseteq Nat

Nobody == <<"nobody">>
NoIndex == 0        \* an index that is None; indexes count from 1 here

VARIABLES
    config,     \* the workspaces' names, in order (SharedConfig)
    app,        \* the App's lists: sessions, session_groups, activities, approvals
    ui,         \* the App's focus, cursor and pointers
    build,      \* the App's docker build
    asked,      \* per request: the session that made it, what reached the App
    cut,        \* the requests whose cancel flag is raised (shared with the proxy)
    turn,       \* where the event loop's turn stands
    drawn       \* what the last frame shows

interfaceVars == <<config, app, ui, build, asked, cut, turn, drawn>>

-----------------------------------------------------------------------------
\* The stages of a turn, in order.
ExecStage == 1     LaunchStage == 2    RefreshStage == 3
CutStage == 4      NetStage == 5       ElsewhereStage == 6  ActivityStage == 7
RestoreStage == 8  BuildStage == 9     ExitStage == 10      StopStage == 11
KeyStage == 12

Going(stage) == [turn EXCEPT !.at = stage]
Redrawing(stage) == [Going(stage) EXCEPT !.changed = TRUE]
Drained(stage) == [Redrawing(stage) EXCEPT !.events = @ + 1]

\* The first position of x in s, or 0.
Position(s, x) == FirstIn(s, {x})
Named(c, w) == Position(c, w)

-----------------------------------------------------------------------------
\* THE SIDEBAR

ActivitiesFor(a, si, requests) ==
    Keeping(a.activities, {x \in Range(a.activities) : /\ x.session = a.sessions[si].id
                                                      /\ x.id \in requests})
NetActivities(a, si) == ActivitiesFor(a, si, NetRequests)
CommandRows(a, si) ==
    LET commands == ActivitiesFor(a, si, ExecRequests)
    IN  [k \in DOMAIN commands |-> <<"Activity", commands[k].id>>]

GroupRows(a, g) ==
    LET group == a.session_groups[g]
        below == IF group.terminal = NoIndex THEN <<>>
                 ELSE <<<<"NetworkGroup", group.terminal>>>> \o CommandRows(a, group.terminal)
    IN  <<<<"Session", g>>>> \o below \o <<<<"Settings", group.workspace_idx>>>>

LaunchRows(c) ==
    IF c = <<>> THEN <<>>
    ELSE <<<<"WorkspacesHeader", NoIndex>>>> \o [pi \in DOMAIN c |-> <<"Launch", pi>>]

\* App::sidebar_items over the lists a, the configuration c and the build b.
SidebarItems(a, c, b) ==
    <<<<"NewSession", NoIndex>>>>
      \o FlattenSeq([g \in DOMAIN a.session_groups |-> GroupRows(a, g)])
      \o (IF b.ws \in DOMAIN c THEN <<<<"Build", b.ws>>>> ELSE <<>>)
      \o LaunchRows(c)
      \o <<<<"NewWorkspace", NoIndex>>>>

Selectable(row) == row[1] # "WorkspacesHeader"
RowAt(items, u) == IF u.sidebar_idx \in DOMAIN items THEN items[u.sidebar_idx] ELSE Nobody

\* restore_sidebar_selection: the first row equal to the one selected before,
\* else the same place, and never the heading.
RestoreInPlace(u, selected, items) ==
    LET idx == IF u.sidebar_idx > Len(items) THEN Len(items) ELSE u.sidebar_idx
    IN  [u EXCEPT !.sidebar_idx = IF Selectable(items[idx]) THEN idx ELSE 1]

\* Mutant: the cursor stays where it is, whatever moved under it.
RestoreClamped(u, selected, items) == RestoreInPlace(u, selected, items)

RestoreSelection(u, selected, items) ==
    LET idx == Position(items, selected)
    IN  IF idx # 0 THEN [u EXCEPT !.sidebar_idx = idx] ELSE RestoreInPlace(u, selected, items)

\* What a reader sees in a row: a session, a workspace, a request, or the row
\* itself.  Session groups and workspaces are looked up by index, as drawn.
Meaning(row, a, c) ==
    CASE row[1] = "Session" ->
           LET si == a.session_groups[row[2]].terminal
           IN  IF si = NoIndex THEN <<"group", row[2]>> ELSE <<"session", a.sessions[si].id>>
      [] row[1] = "NetworkGroup" -> <<"network", a.sessions[row[2]].id>>
      [] row[1] \in {"Settings", "Launch", "Build"} ->
           <<row[1], IF row[2] \in DOMAIN c THEN c[row[2]] ELSE Nobody>>
      [] OTHER -> row

\* selected_workspace_idx.  A Settings row's workspace index is read as the
\* index of a session group there.
SelectedWorkspace(row) ==
    CASE row[1] \in {"Session", "Settings"} /\ row[2] \in DOMAIN app.session_groups ->
           app.session_groups[row[2]].workspace_idx
      [] row[1] = "NetworkGroup" -> Named(config, app.sessions[row[2]].ws)
      [] row[1] = "Activity" ->
           LET owner == {k \in DOMAIN app.sessions : app.sessions[k].id = asked[row[2]].by}
           IN  IF owner = {} THEN NoIndex
               ELSE Named(config, app.sessions[CHOOSE k \in owner : TRUE].ws)
      [] row[1] \in {"Launch", "Build"} -> row[2]
      [] OTHER -> NoIndex

-----------------------------------------------------------------------------
\* THE FRAME

Showing(a) == IF a.pending_exec # <<>> THEN Head(a.pending_exec)
              ELSE IF a.pending_net # <<>> THEN Head(a.pending_net) ELSE Nobody

\* network_cursor_for_len: the pane's cursor, kept within the list.
NetworkPoint(a, u, si) ==
    LET rows == NetActivities(a, si)
        k == IF u.network_cursor + 1 > Len(rows) THEN Len(rows) ELSE u.network_cursor + 1
    IN  IF rows = <<>> THEN Nobody ELSE <<"request", rows[k].id>>

WorkspacePane(pi) == IF pi \in DOMAIN config THEN <<"workspace", config[pi]>> ELSE <<"idle">>
SessionPane(a, si) ==
    IF si \in DOMAIN a.sessions THEN <<"session", a.sessions[si].id>> ELSE <<"idle">>
PickerPane(u) ==
    CASE u.container_picker[1] = "workspace" -> <<"choose">>
      [] u.container_picker[1] = "template" -> WorkspacePane(u.container_picker[2])
      [] OTHER -> <<"idle">>
BuildPane == IF build.task # Nobody \/ build.done # Nobody THEN <<"build">> ELSE <<"prompt">>

\* render_right_pane, away from the sidebar: what it describes in full.
RightPane(a, u, items) ==
    CASE u.focus = "Sidebar" -> <<"preview">>
      [] u.focus = "Settings" -> WorkspacePane(u.active_settings_workspace)
      [] u.focus = "WorkspaceActions" -> WorkspacePane(u.workspace_action_workspace)
      [] u.focus = "ContainerPicker" -> PickerPane(u)
      [] u.focus = "Activity" -> <<"request", u.active_activity>>
      [] u.focus = "Network" -> SessionPane(a, u.active_network_session)
      [] u.focus = "ImageBuild" -> BuildPane
      [] OTHER -> IF build.task # Nobody /\ RowAt(items, u)[1] = "Build" THEN <<"build">>
                  ELSE IF u.focus = "NewWorkspace" THEN <<"form">>
                  ELSE SessionPane(a, u.active_session)

Pane(a, u, items) == IF u.log_fullscreen THEN <<"log">>
                  ELSE IF u.terminal_fullscreen THEN SessionPane(a, u.active_session)
                  ELSE RightPane(a, u, items)

\* The highlighted row; a cursor past the end is drawn on the last row.
Highlight(a, u, items) ==
    IF u.log_fullscreen \/ u.terminal_fullscreen THEN Nobody
    ELSE Meaning(items[IF u.sidebar_idx > Len(items) THEN Len(items) ELSE u.sidebar_idx],
                 a, config)

\* What a frame drawn in this state shows.
FrameOf(a, u, items) ==
    [overlay |-> Showing(a),
     confirm |-> IF u.log_fullscreen THEN Nobody ELSE u.remove_workspace_confirm,
     pane |-> Pane(a, u, items),
     point |-> IF u.focus = "Network" /\ u.active_network_session \in DOMAIN a.sessions
               THEN NetworkPoint(a, u, u.active_network_session) ELSE Nobody,
     row |-> Highlight(a, u, items),
     blind |-> \/ u.terminal_fullscreen /\ u.focus # "Terminal"
               \/ /\ u.focus = "Terminal" /\ ~u.terminal_fullscreen /\ build.task # Nobody
                  /\ RowAt(items, u)[1] = "Build"]

Items == SidebarItems(app, config, build)
Row == RowAt(Items, ui)
CurrentFrame == FrameOf(app, ui, Items)

-----------------------------------------------------------------------------
\* SESSIONS: st = [a, u, b], the App's lists, its pointers and its build

\* Mutant: the terminals behind the removed one keep their old indexes.
RemoveTerminalOnly(groups, si) ==
    Keeping(groups, {g \in Range(groups) : g.terminal \notin {NoIndex, si}})

\* remove_terminal_from_group and remove_empty_session_groups.
RemoveTerminal(groups, si) ==
    LET shifted == [g \in DOMAIN groups |->
                      [groups[g] EXCEPT !.terminal = IF @ = si THEN NoIndex
                                                     ELSE IF @ > si THEN @ - 1 ELSE @]]
    IN  Keeping(shifted, {g \in Range(shifted) : g.terminal # NoIndex})

\* Mutant: pointers behind the removed session are left where they were.
RemapDropped(u, si) ==
    [u EXCEPT !.active_session = IF @ = si THEN NoIndex ELSE @,
              !.active_network_session = IF @ = si THEN NoIndex ELSE @,
              !.focus = IF u.active_session = si \/ (@ = "Network" /\ u.active_network_session = si)
                        THEN "Sidebar" ELSE @]

\* remap_session_indices_after_removal.
Remap(u, si) ==
    LET moved(p) == IF p = si THEN NoIndex ELSE IF p > si THEN p - 1 ELSE p
    IN  [u EXCEPT !.active_session = moved(@),
                  !.active_network_session = moved(@),
                  !.network_cursor = IF u.active_network_session = si THEN 0 ELSE @,
                  !.terminal_fullscreen = @ /\ u.active_session # si,
                  !.focus = IF u.active_session = si
                               \/ (@ = "Network" /\ u.active_network_session = si)
                            THEN "Sidebar" ELSE @]

\* close_session: its approvals are denied, its activities cancelled, every
\* index moved, and the selected row looked for again.
CloseSession(st, si) ==
    LET mine == {r \in Requests : asked[r].by = st.a.sessions[si].id}
        denied == Range(st.a.pending_exec \o st.a.pending_net)
        a == [st.a EXCEPT
                !.pending_exec = Dropping(@, mine),
                !.pending_net = Dropping(@, mine),
                !.activities = [k \in DOMAIN @ |->
                    IF @[k].id \in mine \cap denied
                    THEN [@[k] EXCEPT !.over = TRUE, !.aged = FALSE] ELSE @[k]],
                !.session_groups = RemoveTerminal(@, si),
                !.sessions = RemoveAt(@, si)]
        selected == RowAt(SidebarItems(st.a, config, st.b), st.u)
    IN  [st EXCEPT !.a = a,
                   !.u = RestoreSelection(Remap(st.u, si), selected, SidebarItems(a, config, st.b))]

\* do_launch_container_on_workspace_with_priority_and_env: refused before
\* anything is kept, a build asked for, a container that does not start (its
\* group stays), or a session with the focus.
Prompted(st, pi) ==
    [st EXCEPT !.b = [@ EXCEPT !.ws = pi, !.ctr = TRUE, !.done = Nobody],
               !.u = [@ EXCEPT !.active_session = NoIndex, !.active_settings_workspace = NoIndex,
                               !.container_picker = <<"none", NoIndex>>, !.focus = "ImageBuild"]]

Grouped(st, pi, terminal) ==
    [st EXCEPT !.a.session_groups = Append(@, [workspace_idx |-> pi, terminal |-> terminal])]

Failed(st, pi) == [Grouped(st, pi, NoIndex) EXCEPT !.a.launched = @ + 1]

Started(st, c, pi) ==
    LET si == Len(st.a.sessions) + 1
        id == st.a.launched + 1
        g == Len(st.a.session_groups) + 1
        grouped == Grouped(st, pi, si)
        a == [grouped.a EXCEPT
                !.sessions = Append(@, [id |-> id, ws |-> c[pi], exited |-> FALSE]),
                !.launched = id]
    IN  [grouped EXCEPT
           !.a = a,
           !.u = [@ EXCEPT !.active_session = si, !.focus = "Terminal",
                           !.sidebar_idx = Position(SidebarItems(a, c, st.b), <<"Session", g>>)]]

LaunchOutcomes(st, c, pi) ==
    {st} \cup (IF pi \in DOMAIN c /\ c[pi] \in Unbuilt THEN {Prompted(st, pi)} ELSE {})
         \cup (IF pi \in DOMAIN c /\ st.a.launched < MaxSessions
               THEN {Failed(st, pi), Started(st, c, pi)} ELSE {})

\* start_docker_build.
StartBuild(st, c, pi) ==
    LET b == [st.b EXCEPT !.task = <<pi, c[pi]>>, !.done = Nobody, !.stop = FALSE,
                          !.ws = IF @ = NoIndex THEN pi ELSE @]
        idx == Position(SidebarItems(st.a, c, b), <<"Build", b.ws>>)
    IN  [st EXCEPT !.b = b,
                   !.u = [@ EXCEPT !.active_session = NoIndex, !.focus = "ImageBuild",
                                   !.sidebar_idx = IF idx # 0 THEN idx ELSE st.u.sidebar_idx]]

\* run_build_action: the workspace the build was opened for, or the one of the
\* selected row.  The dockerfile may be missing.
RunBuild(st, c, selected) ==
    LET target == IF st.b.ws # NoIndex THEN st.b.ws ELSE selected
    IN  IF ~st.b.ctr \/ target \notin DOMAIN c THEN {st}
        ELSE {[st EXCEPT !.u.focus = "ImageBuild"]}
             \cup (IF st.b.task = Nobody THEN {StartBuild(st, c, target)} ELSE {})

Whole == [a |-> app, u |-> ui, b |-> build]
Becomes(st) == app' = st.a /\ ui' = st.u /\ build' = st.b

-----------------------------------------------------------------------------
\* DRAINING THE CHANNELS

\* Approvals of connections that were cut are denied and leave the queue; their
\* activities end.
Uncut(queue) == Dropping(queue, cut)
EndCut(activities) ==
    [k \in DOMAIN activities |->
        IF activities[k].id \in cut \cap NetRequests
        THEN [activities[k] EXCEPT !.over = TRUE] ELSE activities[k]]

Event(stage) == turn.at <= stage /\ turn.events < MaxDrained

\* A session's command or connection asks; what the App hears of it comes in
\* two channels, the approval and the activity, in either order.
Asks(r, si) ==
    /\ turn.at = KeyStage
    /\ asked[r].by = NoIndex
    /\ asked' = [asked EXCEPT ![r].by = app.sessions[si].id, ![r].ws = app.sessions[si].ws]
    /\ UNCHANGED <<config, app, ui, build, cut, turn, drawn>>

Arrives(r, queue) ==
    /\ asked[r].by # NoIndex /\ ~asked[r].arrived
    /\ asked' = [asked EXCEPT ![r].arrived = TRUE]
    /\ app' = [app EXCEPT ![queue] = Append(@, r)]

ArriveExec(r) ==
    /\ Event(ExecStage)
    /\ Arrives(r, "pending_exec")
    /\ turn' = Drained(ExecStage)
    /\ UNCHANGED <<config, ui, build, cut, drawn>>

\* handle_workspace_launch_request: the configuration is read again, and the
\* command's workspace is launched, or its image built first.
RequestLaunch(c, w) ==
    /\ Event(LaunchStage)
    /\ config' = c
    /\ LET pi == Named(c, w)
           opened == [Whole EXCEPT !.b.ws = pi, !.b.ctr = TRUE]
           built == {[st EXCEPT !.b.cli = IF st.b.task = Nobody THEN NoIndex ELSE pi] :
                        st \in RunBuild(opened, c, NoIndex)}
       IN  \/ pi = NoIndex /\ Becomes(Whole)
           \/ /\ pi # NoIndex
              /\ \E st \in LaunchOutcomes(Whole, c, pi) \ {Prompted(Whole, pi)} : Becomes(st)
           \/ /\ w \in Unbuilt /\ pi # NoIndex /\ build.task = Nobody
              /\ \E st \in built : Becomes(st)
    /\ turn' = [Drained(LaunchStage) EXCEPT !.calm = @ /\ c = config]
    /\ UNCHANGED <<asked, cut, drawn>>

\* soft_refresh.
Refresh(c) ==
    /\ Event(RefreshStage)
    /\ config' = c
    /\ ui' = RestoreSelection(ui, Row, SidebarItems(app, c, build))
    /\ turn' = [Drained(RefreshStage) EXCEPT !.calm = @ /\ c = config]
    /\ UNCHANGED <<app, build, asked, cut, drawn>>

PruneCut ==
    /\ turn.at < CutStage
    /\ app' = [app EXCEPT !.pending_net = Uncut(@)]
    /\ app' # app
    /\ turn' = Redrawing(CutStage)
    /\ UNCHANGED <<config, ui, build, asked, cut, drawn>>

ArriveNet(r) ==
    /\ Event(NetStage)
    /\ Arrives(r, "pending_net")
    /\ turn' = Drained(NetStage)
    /\ UNCHANGED <<config, ui, build, cut, drawn>>

\* drain_approval_control: the command line decides an approval by its id.
DecideElsewhere(r) ==
    /\ Event(ElsewhereStage)
    /\ r \in Range(app.pending_exec \o app.pending_net)
    /\ app' = [app EXCEPT !.pending_exec = Dropping(@, {r}),
                          !.pending_net = Dropping(@, {r})]
    /\ turn' = Drained(ElsewhereStage)
    /\ UNCHANGED <<config, ui, build, asked, cut, drawn>>

\* apply_activity_event: an activity starts, or ends.
ActivityStarts(r) ==
    /\ asked[r].by # NoIndex /\ ~asked[r].started
    /\ asked' = [asked EXCEPT ![r].started = TRUE]
    /\ app' = [app EXCEPT !.activities =
                  Append(@, [id |-> r, session |-> asked[r].by, over |-> FALSE, aged |-> FALSE])]

ActivityEnds(r) ==
    /\ \E k \in DOMAIN app.activities : app.activities[k].id = r /\ ~app.activities[k].over
    /\ app' = [app EXCEPT !.activities =
                  [k \in DOMAIN @ |-> IF @[k].id = r THEN [@[k] EXCEPT !.over = TRUE] ELSE @[k]]]
    /\ asked' = asked

ActivityEvent(r) ==
    /\ Event(ActivityStage)
    /\ ActivityStarts(r) \/ ActivityEnds(r)
    /\ turn' = Drained(ActivityStage)
    /\ UNCHANGED <<config, ui, build, cut, drawn>>

\* The two steps every turn takes are taken, or would change nothing.
CutPruned == turn.at < CutStage => Uncut(app.pending_net) = app.pending_net
Restored == turn.at < RestoreStage => /\ EndCut(app.activities) = app.activities
                                      /\ RestoreSelection(ui, turn.selected, Items) = ui

\* The activities of cut connections end, and the row selected when the turn
\* began is selected again.
Restore ==
    LET a == [app EXCEPT !.activities = EndCut(@)]
    IN  /\ ~Restored
        /\ app' = a
        /\ ui' = RestoreSelection(ui, turn.selected, SidebarItems(a, config, build))
        /\ turn' = IF a # app THEN Redrawing(RestoreStage) ELSE Going(RestoreStage)
        /\ UNCHANGED <<config, build, asked, cut, drawn>>

\* BuildEvent::Finished: failed, cancelled, or done and then launched.
BuildFinished(outcome) ==
    /\ Event(BuildStage)
    /\ build.task # Nobody
    /\ LET over == [build EXCEPT !.task = Nobody, !.cli = NoIndex]
           shown(b) == [Whole EXCEPT !.b = b, !.u.focus = "ImageBuild"]
           of == build.task[2]
           target == IF build.cli # NoIndex THEN build.cli ELSE build.task[1]
           finished == [Whole EXCEPT
                          !.b = [over EXCEPT !.ws = NoIndex, !.ctr = FALSE, !.done = Nobody]]
       IN  \/ outcome = "failed" /\ Becomes(shown([over EXCEPT !.done = <<"failed", of>>]))
           \/ /\ outcome = "cancelled" /\ build.stop
              /\ Becomes(shown([over EXCEPT !.ws = NoIndex, !.done = <<"cancelled", of>>]))
           \/ /\ outcome = "success"
              /\ \E st \in LaunchOutcomes(finished, config, target) : Becomes(st)
    /\ turn' = [Drained(BuildStage) EXCEPT !.calm = FALSE]
    /\ UNCHANGED <<config, asked, cut, drawn>>

Mark(a, si) == [a EXCEPT !.sessions[si].exited = TRUE]

\* A container is found gone; a later pass closes its session.
SessionExits(si) ==
    /\ Event(ExitStage)
    /\ ~app.sessions[si].exited
    /\ app' = Mark(app, si)
    /\ turn' = Drained(ExitStage)
    /\ UNCHANGED <<config, ui, build, asked, cut, drawn>>

SessionCloses(si) ==
    /\ Event(ExitStage)
    /\ app.sessions[si].exited
    /\ LET st == CloseSession(Whole, si)
       IN  Becomes([st EXCEPT !.u.focus = IF st.u.active_session = NoIndex /\ @ # "ImageBuild"
                                          THEN "Sidebar" ELSE @])
    /\ turn' = [Drained(ExitStage) EXCEPT !.calm = FALSE]
    /\ UNCHANGED <<config, asked, cut, drawn>>

\* handle_stop_request: a container asks to be stopped.
StopRequested(si) ==
    /\ Event(StopStage)
    /\ ~app.sessions[si].exited
    /\ app' = Mark(app, si)
    /\ ui' = [ui EXCEPT !.active_session = IF @ = si THEN NoIndex ELSE @,
                        !.focus = IF ui.active_session = si THEN "Sidebar" ELSE @,
                        !.active_network_session = IF @ = si THEN NoIndex ELSE @,
                        !.network_cursor = IF ui.active_network_session = si THEN 0 ELSE @]
    /\ turn' = Drained(StopStage)
    /\ UNCHANGED <<config, build, asked, cut, drawn>>

\* refresh_terminal_activity_selection: an ended activity ages unless it is
\* what the user looks at, or one of the connections listed before him.
Watched(u, items, x) ==
    LET row == RowAt(items, u)
        si == IF u.active_network_session # NoIndex THEN u.active_network_session
              ELSE IF row[1] = "NetworkGroup" THEN row[2] ELSE NoIndex
    IN  \/ x.id = u.active_activity \/ row = <<"Activity", x.id>>
        \/ x.id \in NetRequests /\ si \in DOMAIN app.sessions /\ x.session = app.sessions[si].id

Aged(u, items) ==
    [k \in DOMAIN app.activities |->
        [app.activities[k] EXCEPT !.aged = app.activities[k].over
                                           /\ ~Watched(u, items, app.activities[k])]]

\* prune_terminal_activities: of those that aged, some aged long enough.
Pruned(gone, aged) ==
    [app EXCEPT !.activities = Keeping(aged, {x \in Range(aged) : x.id \notin gone})]

Clamped(u, a) ==
    LET si == u.active_network_session
        len == IF si \in DOMAIN a.sessions THEN Len(NetActivities(a, si)) ELSE 0
    IN  IF si = NoIndex THEN u
        ELSE [u EXCEPT !.network_cursor = IF len = 0 THEN 0 ELSE IF @ + 1 > len THEN len - 1 ELSE @]

\* The end of drain_channels, and the frame if anything is known to have
\* changed.  Pruning may leave the lists shorter: then it is drawn too.
EndTurn(gone) ==
    LET aged == Aged(ui, Items)
        a == Pruned(gone, aged)
        items == SidebarItems(a, config, build)
        u == RestoreSelection(Clamped(ui, a), Row, items)
    IN  /\ \A r \in gone : \E k \in DOMAIN aged :
              aged[k].id = r /\ app.activities[k].aged /\ aged[k].aged
        /\ app' = a
        /\ ui' = u
        /\ turn' = [turn EXCEPT !.at = KeyStage, !.changed = FALSE, !.calm = FALSE,
                                !.selected = Nobody, !.meant = Nobody]
        /\ drawn' = IF turn.changed \/ gone # {} THEN FrameOf(a, u, items) ELSE drawn
        /\ UNCHANGED <<config, build, asked, cut>>

\* The next turn begins: the selected row is noted.
Begun(pressed) ==
    [turn EXCEPT !.at = 0, !.keys = @ + pressed, !.changed = pressed = 1, !.calm = TRUE,
                 !.selected = Row', !.meant = Meaning(Row, app, config)']

-----------------------------------------------------------------------------
\* KEYS: handle_key, its tests in order

Unasked == ui.remove_workspace_confirm = Nobody
Unmodal == Unasked /\ Showing(app) = Nobody
In(focus) == Unmodal /\ ~ui.log_fullscreen /\ ui.focus = focus

\* focus_sidebar_shortcut: leaving a pane drops what it was opened on.
Left(u) ==
    [u EXCEPT !.focus = "Sidebar", !.log_fullscreen = FALSE, !.terminal_fullscreen = FALSE,
              !.active_activity = IF u.focus = "Activity" THEN Nobody ELSE @,
              !.active_network_session = IF u.focus = "Network" THEN NoIndex ELSE @,
              !.network_cursor = IF u.focus = "Network" THEN 0 ELSE @,
              !.active_settings_workspace = IF u.focus = "Settings" THEN NoIndex ELSE @,
              !.container_picker = IF u.focus = "ContainerPicker" THEN <<"none", NoIndex>> ELSE @,
              !.workspace_action_workspace = IF u.focus = "WorkspaceActions" THEN NoIndex ELSE @]
Unopened(b) == [b EXCEPT !.done = Nobody, !.ctr = FALSE, !.ws = NoIndex]

KeyBack ==
    /\ IF ui.focus \in {"Activity", "Network"} THEN Unasked ELSE Unmodal
    /\ ui' = Left(ui)
    /\ build' = IF ui.focus = "ImageBuild" /\ build.task = Nobody THEN Unopened(build) ELSE build
    /\ UNCHANGED <<config, app, cut>>

\* Ctrl-C in the activity pane and on a row of the network pane.
CancelActivity(r) ==
    /\ cut' = cut \cup {r}
    /\ app' = IF r \in Range(app.pending_exec)
              THEN [app EXCEPT !.pending_exec = Dropping(@, {r})]
              ELSE [app EXCEPT !.activities = [k \in DOMAIN @ |->
                      IF @[k].id = r THEN [@[k] EXCEPT !.over = TRUE] ELSE @[k]]]
    /\ UNCHANGED <<config, ui, build>>

KeyCancelActivity ==
    /\ ui.focus = "Activity" /\ ui.active_activity # Nobody
    /\ CancelActivity(ui.active_activity)

KeyCancelConnection ==
    /\ ui.focus = "Network" /\ ui.active_network_session # NoIndex
    /\ LET point == NetworkPoint(app, ui, ui.active_network_session)
       IN  /\ point # Nobody
           /\ CancelActivity(point[2])

\* Ctrl-C anywhere else while a build runs.
KeyCancelBuild ==
    /\ build.task # Nobody
    /\ ~(ui.focus = "Activity" /\ ui.active_activity # Nobody)
    /\ build' = [build EXCEPT !.stop = TRUE]
    /\ ui' = ui
    /\ UNCHANGED <<config, app, cut>>

\* finish_remove_workspace_confirm: the workspace's sessions close, its block
\* leaves the file, the file is read again.
CloseAll(w) ==
    LET n == Len(app.sessions)
        closed[k \in 0 .. n] ==         \* from the last session to the first
            IF k = 0 THEN Whole
            ELSE IF app.sessions[n + 1 - k].ws = w THEN CloseSession(closed[k - 1], n + 1 - k)
            ELSE closed[k - 1]
    IN  closed[n]

KeyConfirm(yes) ==
    LET w == ui.remove_workspace_confirm
        closed == IF yes THEN CloseAll(w) ELSE Whole
        answered == [closed EXCEPT !.u.remove_workspace_confirm = Nobody]
        removed == [answered EXCEPT
                      !.a.pending_net = Dropping(@, {r \in NetRequests : asked[r].ws = w}),
                      !.u = [@ EXCEPT !.active_settings_workspace = NoIndex, !.focus = "Sidebar",
                                      !.sidebar_idx = 1]]
    IN  /\ w # Nobody
        /\ \/ Becomes(answered) /\ config' = config
           \/ /\ yes
              /\ \E c \in Configs : w \notin Range(c) /\ config' = c
              /\ Becomes(removed)
        /\ UNCHANGED cut

\* Mutant: connections are decided before host commands.
DecidedNet == IF app.pending_net # <<>> THEN Head(app.pending_net)
              ELSE IF app.pending_exec # <<>> THEN Head(app.pending_exec) ELSE Nobody

\* The approval a key decides: the first host command, else the first connection.
Decided == IF app.pending_exec # <<>> THEN Head(app.pending_exec)
           ELSE IF app.pending_net # <<>> THEN Head(app.pending_net) ELSE Nobody

KeyDecide(r) ==
    /\ Unasked
    /\ r = Decided
    /\ app' = [app EXCEPT !.pending_exec = Dropping(@, {r}),
                          !.pending_net = Dropping(@, {r})]
    /\ UNCHANGED <<config, ui, build, cut>>

\* kill_network_connections_for_session: every current connection of it.
CutSession(id) ==
    /\ cut' = cut \cup {r \in NetRequests : asked[r].by = id}
    /\ UNCHANGED <<config, app, ui, build>>

KeyCutAsked ==
    /\ Unasked /\ Showing(app) \in NetRequests
    /\ \E si \in DOMAIN app.sessions : app.sessions[si].id = asked[Showing(app)].by
    /\ CutSession(asked[Showing(app)].by)

\* Ctrl-G, Alt-O, and leaving the log.
KeyFullscreen ==
    /\ Unmodal
    /\ \/ ui.terminal_fullscreen /\ ui' = [ui EXCEPT !.terminal_fullscreen = FALSE]
       \/ /\ ~ui.terminal_fullscreen /\ ui.focus = "Terminal" /\ ui.active_session # NoIndex
          /\ ui' = [ui EXCEPT !.terminal_fullscreen = TRUE, !.log_fullscreen = FALSE]
    /\ UNCHANGED <<config, app, build, cut>>

KeyLog ==
    /\ Unmodal
    /\ \/ ui.log_fullscreen /\ ui' = [ui EXCEPT !.log_fullscreen = FALSE]
       \/ /\ ~ui.log_fullscreen /\ ui.focus \in {"Sidebar", "Terminal"}
          /\ ui' = [ui EXCEPT !.log_fullscreen = TRUE, !.terminal_fullscreen = FALSE]
    /\ UNCHANGED <<config, app, build, cut>>

-----------------------------------------------------------------------------
\* Keys of the sidebar

Neighbour(items, idx, down) ==
    IF down THEN (IF idx >= Len(items) THEN 1 ELSE idx + 1)
    ELSE IF idx = 1 THEN Len(items) ELSE idx - 1

KeyMove(down) ==
    LET items == Items
        from == IF ui.sidebar_idx > Len(items) THEN Len(items) ELSE ui.sidebar_idx
        one == Neighbour(items, from, down)
    IN  /\ In("Sidebar")
        /\ ui' = [ui EXCEPT !.sidebar_idx =
                        IF Selectable(items[one]) THEN one ELSE Neighbour(items, one, down)]
        /\ UNCHANGED <<config, app, build, cut>>

\* A workspace's letter: the first group of that workspace, else its own row.
KeyHotkey(w) ==
    LET pi == Named(config, w)
        groups == {g \in DOMAIN app.session_groups : app.session_groups[g].workspace_idx = pi}
        group == FirstIn(Items, {<<"Session", g>> : g \in groups})
    IN  /\ In("Sidebar") /\ pi # NoIndex
        /\ ui' = [ui EXCEPT !.sidebar_idx =
                        IF group # 0 THEN group ELSE Position(Items, <<"Launch", pi>>)]
        /\ UNCHANGED <<config, app, build, cut>>

OnSession(u, si) ==
    [u EXCEPT !.active_session = si, !.focus = "Terminal", !.active_activity = Nobody,
              !.active_network_session = NoIndex, !.active_settings_workspace = NoIndex]

OwnerOf(r) == FirstIn(app.sessions, {s \in Range(app.sessions) : s.id = asked[r].by})

\* handle_sidebar_enter.
Entered(u, row) ==
    CASE row[1] = "NewSession" ->
           IF config = <<>> THEN u
           ELSE [u EXCEPT !.container_picker = <<"workspace", NoIndex>>, !.focus = "ContainerPicker"]
      [] row[1] = "Settings" ->
           [u EXCEPT !.active_settings_workspace = row[2], !.active_activity = Nobody,
                     !.active_network_session = NoIndex, !.focus = "Settings"]
      [] row[1] = "Launch" ->
           [u EXCEPT !.workspace_action_workspace = row[2], !.active_activity = Nobody,
                     !.active_network_session = NoIndex, !.focus = "WorkspaceActions"]
      [] row[1] = "Build" ->
           [u EXCEPT !.active_session = NoIndex, !.active_activity = Nobody,
                     !.active_network_session = NoIndex, !.focus = "ImageBuild",
                     !.active_settings_workspace = NoIndex]
      [] row[1] = "Session" /\ app.session_groups[row[2]].terminal # NoIndex ->
           OnSession(u, app.session_groups[row[2]].terminal)
      [] row[1] = "NetworkGroup" ->
           LET len == Len(NetActivities(app, row[2]))
               end == IF len = 0 THEN 0 ELSE len - 1
           IN  [u EXCEPT !.active_session = row[2], !.active_activity = Nobody,
                         !.network_cursor = IF u.active_network_session = row[2] /\ @ < end
                                            THEN @ ELSE end,
                         !.active_network_session = row[2], !.focus = "Network",
                         !.active_settings_workspace = NoIndex]
      [] row[1] = "Activity" ->
           [u EXCEPT !.active_session = OwnerOf(row[2]), !.active_activity = row[2],
                     !.active_network_session = NoIndex, !.focus = "Activity",
                     !.active_settings_workspace = NoIndex]
      [] row[1] = "NewWorkspace" ->
           [u EXCEPT !.new_workspace = TRUE, !.focus = "NewWorkspace", !.active_session = NoIndex,
                     !.active_activity = Nobody, !.active_network_session = NoIndex,
                     !.active_settings_workspace = NoIndex, !.container_picker = <<"none", NoIndex>>]
      [] OTHER -> u

KeyEnter ==
    /\ In("Sidebar")
    /\ Row # Nobody
    /\ ui' = Entered(ui, Row)
    /\ UNCHANGED <<config, app, build, cut>>

\* prompt_remove_workspace, from a row of the sidebar: the name is looked up now.
Prompt(u, pi) == IF pi \in DOMAIN config THEN [u EXCEPT !.remove_workspace_confirm = config[pi]]
                 ELSE u

KeyDelete ==
    /\ In("Sidebar") /\ Row[1] \in {"Launch", "Session"}
    /\ LET pi == IF Row[1] = "Launch" THEN Row[2] ELSE app.session_groups[Row[2]].workspace_idx
       IN  ui' = Prompt(ui, pi)
    /\ UNCHANGED <<config, app, build, cut>>

-----------------------------------------------------------------------------
\* Keys of the panes

\* handle_terminal_key: while a build runs and no session is open the pane
\* scrolls the build.
OnTerminal == In("Terminal") /\ ui.active_session # NoIndex

KeyStop ==
    /\ OnTerminal
    /\ ~app.sessions[ui.active_session].exited
    /\ app' = Mark(app, ui.active_session)
    /\ ui' = ui
    /\ UNCHANGED <<config, build, cut>>

KeyCut ==
    /\ OnTerminal
    /\ CutSession(app.sessions[ui.active_session].id)

\* handle_network_key.
KeyNetworkMove(k) ==
    /\ In("Network")
    /\ ui.active_network_session # NoIndex
    /\ k < Len(NetActivities(app, ui.active_network_session))
    /\ ui' = [ui EXCEPT !.network_cursor = k]
    /\ UNCHANGED <<config, app, build, cut>>

KeyNetworkCut ==
    /\ In("Network")
    /\ ui.active_network_session # NoIndex
    /\ CutSession(app.sessions[ui.active_network_session].id)

\* handle_settings_key and handle_workspace_action_key: the workspace is the
\* index the pane was opened on.
PaneGone(pane, pi) ==
    /\ In(pane)
    /\ pi \notin DOMAIN config
    /\ ui' = Left(ui)
    /\ UNCHANGED <<config, app, build, cut>>

KeySettings ==
    LET pi == ui.active_settings_workspace
    IN  \/ PaneGone("Settings", pi)
        \/ /\ In("Settings") /\ pi \in DOMAIN config
           /\ \/ ui' = Left(ui)
              \/ ui' = ui                      \* trust its rules, module RulesGuard
              \/ ui' = Prompt(ui, pi)
           /\ UNCHANGED <<config, app, build, cut>>

KeyWorkspaceActions ==
    LET pi == ui.workspace_action_workspace
        out == Left(ui)
    IN  \/ PaneGone("WorkspaceActions", pi)
        \/ /\ In("WorkspaceActions") /\ pi \in DOMAIN config
           /\ \/ ui' = out
              \/ ui' = [out EXCEPT !.container_picker = <<"template", pi>>,
                                   !.focus = "ContainerPicker"]
              \/ ui' = Prompt(out, pi)
           /\ UNCHANGED <<config, app, build, cut>>

\* handle_picker_key: a workspace, then its template, then the launch.
KeyPick(pi) ==
    /\ In("ContainerPicker")
    /\ ui.container_picker[1] = "workspace" /\ pi \in DOMAIN config
    /\ ui' = [ui EXCEPT !.container_picker = <<"template", pi>>]
    /\ UNCHANGED <<config, app, build, cut>>

KeyLaunch ==
    LET picked == [Whole EXCEPT !.u = Left(ui)]
    IN  /\ In("ContainerPicker") /\ ui.container_picker[1] = "template"
        /\ \E st \in LaunchOutcomes(picked, config, ui.container_picker[2]) : Becomes(st)
        /\ UNCHANGED <<config, cut>>

\* handle_build_key: build (again), stop or give up, leave.
KeyBuild ==
    /\ In("ImageBuild") /\ build.task = Nobody
    /\ \E st \in RunBuild(Whole, config, SelectedWorkspace(Row)) : Becomes(st)
    /\ UNCHANGED <<config, cut>>

KeyBuildStop ==
    /\ In("ImageBuild") /\ build.task # Nobody
    /\ build' = [build EXCEPT !.stop = TRUE, !.done = Nobody]
    /\ ui' = [ui EXCEPT !.focus = "Sidebar"]
    /\ UNCHANGED <<config, app, cut>>

KeyBuildLeave ==
    /\ In("ImageBuild")
    /\ build' = IF build.task # Nobody THEN build
                ELSE IF build.done # Nobody THEN [build EXCEPT !.done = Nobody]
                ELSE [build EXCEPT !.ctr = FALSE, !.ws = NoIndex]
    /\ ui' = [ui EXCEPT !.focus = "Sidebar"]
    /\ UNCHANGED <<config, app, cut>>

\* handle_new_workspace_key and submit_new_workspace: the form is given up, or
\* its workspace is appended to the file and the file read again.
KeyFormLeave ==
    /\ In("NewWorkspace")
    /\ ui' = [ui EXCEPT !.new_workspace = FALSE, !.focus = "Sidebar"]
    /\ UNCHANGED <<config, app, build, cut>>

KeySubmit(c) ==
    /\ In("NewWorkspace") /\ ui.new_workspace
    /\ c # <<>> /\ Last(c) \notin Range(config)
    /\ config' = c
    /\ ui' = [ui EXCEPT !.new_workspace = FALSE, !.focus = "Sidebar",
                          !.sidebar_idx = Position(SidebarItems(app, c, build),
                                                   <<"Launch", Len(c)>>)]
    /\ UNCHANGED <<app, build, cut>>

\* What the keys of this state act on, by the place of the screen they are about.
AimedPane ==
    CASE ui.focus = "Terminal" -> SessionPane(app, ui.active_session)
      [] ui.focus = "Network" -> SessionPane(app, ui.active_network_session)
      [] ui.focus = "Activity" -> <<"request", ui.active_activity>>
      [] ui.focus = "Settings" -> WorkspacePane(ui.active_settings_workspace)
      [] ui.focus = "WorkspaceActions" -> WorkspacePane(ui.workspace_action_workspace)
      [] ui.focus = "ContainerPicker" /\ ui.container_picker[1] = "template" ->
           WorkspacePane(ui.container_picker[2])
      [] OTHER -> Nobody

Unobstructed == ui.remove_workspace_confirm = Nobody /\ Decided = Nobody /\ ~ui.log_fullscreen
Aimed ==
    [overlay |-> IF ui.remove_workspace_confirm = Nobody THEN Decided ELSE Nobody,
     confirm |-> ui.remove_workspace_confirm,
     point |-> IF ui.focus = "Network" /\ ui.active_network_session # NoIndex
               THEN NetworkPoint(app, ui, ui.active_network_session) ELSE Nobody,
     pane |-> IF Unobstructed THEN AimedPane ELSE Nobody,
     row |-> IF Unobstructed /\ ui.focus = "Sidebar" THEN Meaning(Row, app, config) ELSE Nobody]

-----------------------------------------------------------------------------
\* The channels before the first of the two steps every turn takes, those
\* between them, and the rest of the turn.
DrainFirst ==
    \/ \E r \in ExecRequests : ArriveExec(r)
    \/ \E c \in Configs, w \in Workspaces : RequestLaunch(c, w)
    \/ \E c \in Configs : Refresh(c)
    \/ PruneCut

DrainThen ==
    \/ \E r \in NetRequests : ArriveNet(r)
    \/ \E r \in Requests : DecideElsewhere(r) \/ ActivityEvent(r)
    \/ Restore

DrainLast ==
    \/ \E outcome \in {"failed", "cancelled", "success"} : BuildFinished(outcome)
    \/ \E si \in DOMAIN app.sessions : SessionExits(si) \/ SessionCloses(si) \/ StopRequested(si)
    \/ \E gone \in SUBSET {x.id : x \in Range(app.activities)} : EndTurn(gone)

Drain ==
    /\ turn.at < KeyStage
    /\ \/ DrainFirst
       \/ CutPruned /\ DrainThen
       \/ CutPruned /\ Restored /\ DrainLast

SidebarKey ==
    \/ \E down \in BOOLEAN : KeyMove(down)
    \/ \E w \in Workspaces : KeyHotkey(w)
    \/ KeyEnter \/ KeyDelete

PaneKey ==
    \/ KeyStop \/ KeyCut \/ KeyNetworkCut
    \/ \E k \in 0 .. Cardinality(NetRequests) : KeyNetworkMove(k)
    \/ KeySettings \/ KeyWorkspaceActions
    \/ \E c \in Configs : \E pi \in DOMAIN c : KeyPick(pi)
    \/ KeyLaunch \/ KeyBuild \/ KeyBuildStop \/ KeyBuildLeave
    \/ KeyFormLeave \/ \E c \in Configs : KeySubmit(c)

AnyKey ==
    \/ KeyBack \/ KeyCancelActivity \/ KeyCancelConnection \/ KeyCancelBuild
    \/ \E yes \in BOOLEAN : KeyConfirm(yes)
    \/ \E r \in Requests : KeyDecide(r)
    \/ KeyCutAsked \/ KeyFullscreen \/ KeyLog
    \/ SidebarKey \/ PaneKey

Key ==
    /\ turn.at = KeyStage /\ turn.keys < MaxPressed
    /\ AnyKey
    /\ turn' = Begun(1)
    /\ UNCHANGED <<asked, drawn>>

NoKey ==
    /\ turn.at = KeyStage
    /\ UNCHANGED <<config, app, ui, build, asked, cut, drawn>>
    /\ turn' = Begun(0)

InterfaceNext ==
    \/ Drain \/ Key \/ NoKey
    \/ \E r \in Requests : \E si \in DOMAIN app.sessions : Asks(r, si)

InterfaceInit ==
    /\ config \in Configs
    /\ app = [sessions |-> <<>>, session_groups |-> <<>>, activities |-> <<>>,
              pending_exec |-> <<>>, pending_net |-> <<>>, launched |-> 0]
    /\ ui = [focus |-> "Sidebar", sidebar_idx |-> 1, active_session |-> NoIndex,
             active_network_session |-> NoIndex, network_cursor |-> 0, active_activity |-> Nobody,
             active_settings_workspace |-> NoIndex, workspace_action_workspace |-> NoIndex,
             container_picker |-> <<"none", NoIndex>>, new_workspace |-> FALSE,
             remove_workspace_confirm |-> Nobody, log_fullscreen |-> FALSE,
             terminal_fullscreen |-> FALSE]
    /\ build = [task |-> Nobody, done |-> Nobody, ws |-> NoIndex, ctr |-> FALSE, cli |-> NoIndex,
                stop |-> FALSE]
    /\ asked = [r \in Requests |->
                  [by |-> NoIndex, ws |-> Nobody, arrived |-> FALSE, started |-> FALSE]]
    /\ cut = {}
    /\ turn = [at |-> 0, selected |-> Row, meant |-> Meaning(Row, app, config), events |-> 0,
               keys |-> 0, calm |-> TRUE, changed |-> TRUE]
    /\ drawn = CurrentFrame

InterfaceSpec == InterfaceInit /\ [][InterfaceNext]_interfaceVars

-----------------------------------------------------------------------------
Focuses == {"Sidebar", "Terminal", "Activity", "Network", "Settings", "ContainerPicker",
            "ImageBuild", "NewWorkspace", "WorkspaceActions"}

\* Every session is the terminal of exactly one group, every pointer into the
\* sessions names one, and when a key is read the cursor is on a row.
InterfaceOK ==
    /\ config \in Configs /\ cut \subseteq Requests /\ ui.focus \in Focuses
    /\ \A si \in DOMAIN app.sessions :
          Cardinality({g \in DOMAIN app.session_groups :
                          app.session_groups[g].terminal = si}) = 1
    /\ {g.terminal : g \in Range(app.session_groups)} \cup
       {ui.active_session, ui.active_network_session} \subseteq {NoIndex} \cup DOMAIN app.sessions
    /\ turn.at = KeyStage => ui.sidebar_idx \in DOMAIN Items

\* A key decides, removes, cancels, stops, trusts or opens what the last frame
\* shows at the place the key is about (the overlay, the question, the network
\* pane's cursor, the pane, the row), whatever the turn drained: event_loop draws
\* whenever drain_channels reports a change.  Not so in two blind frames: a full
\* screen its session has left, and a running build drawn over the session that
\* has the focus.
KeyActsOnWhatIsShown ==
    turn.at = KeyStage =>
        drawn.blind \/ \A place \in DOMAIN Aimed : Aimed[place] \in {Nobody, drawn[place]}

\* "Sidebar selection now preserves the selected item when activity rows appear,
\* disappear, or fade above it" (CHANGELOG.md:474): in a turn that ends no
\* session and no build and reloads no other configuration, the cursor is at the
\* end on what it was on at the beginning, if that is still listed.
Listed == {Meaning(row, app, config) : row \in Range(Items)}
SelectionIsKept ==
    [][ (turn.at # KeyStage /\ turn'.at = KeyStage /\ turn.calm /\ turn.meant \in Listed')
          => Meaning(Row, app, config)' = turn.meant ]_interfaceVars

\* The indexes of the open session and of the network pane's session go on
\* naming the same session while events shorten the lists; they move only to a
\* session launched just now, or to nothing.
SessionAt(p) == IF p \in DOMAIN app.sessions THEN app.sessions[p].id ELSE NoIndex
PointersFollow ==
    [][ turn.at # KeyStage =>
          /\ ui'.active_session # NoIndex => SessionAt(ui.active_session)' \in
                {SessionAt(ui.active_session)} \cup (app.launched + 1 .. app'.launched)
          /\ ui'.active_network_session # NoIndex =>
                SessionAt(ui.active_network_session)' = SessionAt(ui.active_network_session) ]_interfaceVars

\* "build_cursor == 0 is the "rebuild same target" action in run_build_action()"
\* (src/tui/app/settings.rs:479): retrying a finished build from its pane builds
\* the workspace it was for.
RebuildsSameTarget ==
    [][ (turn.at = KeyStage /\ build.done # Nobody /\ build.task = Nobody
           /\ build'.task # Nobody) => build'.task[2] = build.done[2] ]_interfaceVars

=============================================================================
