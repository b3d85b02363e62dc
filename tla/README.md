# Harness Hat in TLA+

Harness Hat runs coding agents in containers and keeps, on the host, the three
gates an agent has to pass: the rules files that say what is allowed, the
commands that run on the host (`hostdo`), and the network. This directory
specifies those gates, the life of the sessions behind them, and the interfaces
through which the user sees and decides, in TLA+, checks them with TLC on small
instances, and proves some of the results with TLAPS for every value of the
constants.

Paths below are relative to the crate (`src/` of the repository).

## 1. The system

One process, the *manager* (`hat` in a terminal, or `hat-daemon`), holds
everything. In it run:

- the **event loop** (`tui/mod.rs`, `tui/app/`), one thread that owns the `App`:
  sessions, pending approvals, the rules watcher, dialogs, settings. It calls
  `drain_channels` (`tui/app/runtime.rs:13`) on each tick of 50 ms or so, which takes a bounded
  number of items from every channel in a fixed order, then polls the rules
  files;
- the **control server** (`server/`), an axum server whose handlers run as
  concurrent tasks: requests of sessions (`/exec`, `/stop`, `/network/disconnect`)
  and of the `hat` client (launch, restart, approvals, rules, attached interface);
- one **scoped proxy listener per session** (`proxy/`), with a task per connection;
- scan threads, native dialogs and Docker commands, each in a thread or process
  of its own.

They communicate by bounded channels to the event loop (stop 64, launch 16,
restart 4, approval control 32, exec 64, network 64, activity 4096, audit 256,
interface 8, all in `manager.rs`), by one-shot replies, by atomic cancel flags,
and by a few shared structures under locks: the configuration with the rules
guard, the session registry, the registry of exec jobs, the connection trackers.

### Components

| Component | State | Operations | What is hard | What makes it correct |
|---|---|---|---|---|
| Rules guard (`shared_config.rs`) | per rules file the trusted fingerprint and a blocked flag; the configuration | ensure, block, trust (as is / reviewed / if contents / by digest), status, set | checks are separate file reads around a load; editors write at any time | decisions use trusted rules only; a block ends only by a trust |
| Rules watcher and review (`tui/app/core.rs`, `approval_control.rs`, `native_dialog.rs`) | baselines, running scan, notes of own writes, one alert, one dialog | poll, scan thread, apply, trust, dismiss, dialog, refresh | results of scans and dialogs arrive late | every change ends up blocked; an alert holds its block; an intact file stays open |
| Remembered decisions (`approvals.rs`, `config/load.rs`) | the rules file | check, load, write, trust | four file accesses that are not atomic | the manager's own writes are not taken for foreign ones, and the reverse |
| Host commands (`server/core.rs`, `server/handlers.rs`) | handlers, jobs (32 permits, 64 active, 512 in all), processes, audit | exec, status, kill, wait, pull, run, report | answer, limit, kill, hang-up, close and exit race | a command runs once and only if allowed; what is reported ended is dead; what ran is in the history |
| Approval queue (`tui/app/approvals.rs`, `runtime.rs`) | channel, `pending_exec` | take, approve, deny, remember, cancel, close | answers to requests that are over | an answer reaches its request or nobody |
| Network approvals (`proxy/http.rs`, `connect.rs`, `runtime.rs`) | channel, `pending_net` | prompt, fold, quota, answer, cut, close, remove | requests folded into others that are over; cuts from other threads | nobody passes under another's answer; nobody is lost; rows are bounded |
| Connection tracker and limits (`proxy/core.rs`) | permits (root 256, listener 50, limited 192/64, source 32), trackers, HTTP clients | accept, track, cut, refresh | opening and cutting race; refresh forgets limiters in use | limits hold; a cut is final for what was open |
| Proxy parsing, forwarding, DNS (`proxy/helpers.rs`, `http.rs`) | DNS cache (300 s, 1800 s), client cache | parse, resolve, forward | stale entries | public addresses only |
| Rules matching (`rules/`, `proxy/http.rs:283`) | the rules files | compose, match, merge a remembered entry | precedence of files and kinds of rule; spellings of a path; entries of different kinds for one host | deny before allow; an answer decides the next request like it, and little else |
| Approval identifiers (`approval_control.rs`) | next identifier | allocate, look up | wrap-around among identifiers in use | unique among those shown |
| Event broker and attached interface (`server/handlers.rs:77`, `tui/remote.rs`, `tui/mod.rs:553`) | ring of 512 events; a position per poller; frames, keys and sizes per terminal; the last buffer drawn | publish, long poll, frame request, retry, resize, restart | looking and sleeping are two steps; answers come late; frames are differences | no event is slept through; keys keep their order; the screen is the picture; news is painted |
| Activities (`activity.rs`, `tui/app/core.rs`) | up to 1000 activities | event, evict, cancel | events dropped when the channel is full | what ended is shown as ended |
| Session life (`container/`, `tui/app/launch.rs`, `build.rs`, `runtime.rs`) | sessions, the one build, the pane and picker, the token registry; containers and their clients | launch, build, adopt, roll back, inspect, stop, close, remove, refresh | Docker is slow, missing or down; the configuration is replaced under an index; containers outlive terminals, sessions and handlers' limits | a token is good as long as its session; no container is left or forgotten; launches end; a session is of the workspace it was asked for |
| Manager and service (`manager.rs`, `daemon.rs`, `service.rs`) | wiring | start, shut down | none of its own | |
| State directory, audit log (`state.rs`) | files | append, rotate | detached writes | |
| Configuration (`config/`) | the file | load, validate, compose templates, atomic write | read and write are apart, the lock covers the write | the file can be loaded and holds what was added |
| Client commands (`shell.rs`, `workspace.rs`, `init.rs`, ...) | none | find or add a workspace, choose a template, ask for a launch | other clients and the manager edit meanwhile | a client ends in a container of its directory |
| What a launch is given (`container/spawn.rs`, `config/load.rs:287`) | mounts, private copies, environment, tags, the last number | plan, copy, bind, number | mounts lie in one another; a login comes from four places | copies are private; one login; one image and number per session |
| Interface (`tui/mod.rs:958`, `tui/render/`, `tui/app/input.rs`, `settings.rs`) | focus, cursor, indices into lists, questions, the picker, the build | one turn: drain, restore, draw, key | nearly every pointer is an index into a list that some event of the turn shortens | a key is about what was drawn; the cursor keeps its item; an index keeps its session |
| Dialogs and notifications (`native_approval/`, `notifications.rs`) | none | ask | late answers | |
| Telemetry, process helpers | none | | | |

`PROJECT.json` lists each of them with its status, and under `hazards` the lines
at which the code is exposed to something a test would hardly reach.

## 2. The modules

| Module | Models |
|---|---|
| `RulesGuard` | the guard, the watcher, the review, remembered decisions, configuration changes, and the double check of a decision |
| `HostdoGate` | the abstract promise of the gate to host commands |
| `HostdoExec` | `/exec` from the first check to the end of the command; implements `HostdoGate` |
| `NetworkApproval` | the wait of a proxy connection for its decision, folding, quotas, cuts |
| `SessionLife` | launches, builds, containers, stops and the close of sessions |
| `EventLog` | the abstract promise of a feed of events |
| `AttachedTui` | the feed, the terminals attached to it and how frames are served; implements `EventLog` |
| `ConfigFile` | the configuration file, `hat ws`, and workspaces added and removed in the interface |
| `Policy` | what the rules of both files decide, and what a remembered answer adds to them |
| `Launch` | mounts, private copies, login, image and number of a session |
| `Interface` | the turn of the event loop: lists, cursor, indices, frame and keys |
| `MC` and the name of a module | constants for TLC |
| `Lists` | what the components that hold lists share: retaining, dropping and finding members |
| `RulesGuardProofs`, `HostdoProofs`, `NetworkProofs`, `SessionProofs`, `PolicyProofs` | theorems about the module of that name (section 5) |
| `ConfigProofs` | theorems about `ConfigFile` and `Launch`: what is configured, and what a launch makes of it |
| `InterfaceProofs` | theorems about the two interfaces, `AttachedTui` and `Interface` |
| `Facts` | lemmas that several of them need: queues without duplicates, lists one member leaves, flattened and filtered lists, sets of a bounded size, least and greatest numbers, the order of a set of places |

The modules do not share variables. Their seams are explicit: `HostdoExec` and
`NetworkApproval` take what the policy said as an input (`Refuse`/`Admit` with a
kind, `Policy` with its outcome), and `RulesGuard` models how any such decision is
made (`Begin`, `FirstCheck`, `LoadRules`, `SecondCheck`); "allowing turns into a
denial while the rules are not trusted" is an `ApprovalCheck` in `RulesGuard` and
a `Decide` with a denial in the other two. The close of a session is
`CloseSession` there and `Close` in `SessionLife`, which says when it happens; the
launch that `RulesGuard` refuses or trusts for is `Begin` in `SessionLife`, where a
refusal is one of the ways to fail. `Policy` says what the outcome `Policy` of
`NetworkApproval` and the kind of `HostdoExec` are made of, reading rules at one go,
as `RulesGuard` has the rest. `Launch` is what happens inside `SessionLife`'s
`Begin`, and `ConfigFile` what comes before its request. `Interface` has the same
lists as `HostdoExec`, `NetworkApproval` and `SessionLife`, reduced to what a row
shows, and all stages of one `drain_channels` in their order. `AttachedTui` is
about the transport of the picture that `Interface` draws.

Definitions marked `Mutant:` stand before the definition they are a defective
version of. They are used by no specification; each names a plausible defect
(a dropped check, an off-by-one, a limit in the wrong place) under which a
property fails, and documents what the property is sensitive to.

### RulesGuard

A rules file's contents are a set of entries, `Missing` or `Malformed` (no
fingerprint). `hist[f]` is every contents file `f` has had; its length stands for
the modification time, so the watcher's *stamp* distinguishes versions with equal
contents while the guard's *fingerprint* does not, as in the code. SHA-256 is
taken to be injective. `vouched` records the contents anybody with the authority
to do so trusted (start-up, review, `hat rules trust`, own write, launch digest),
`own` those that the client and the manager wrote themselves, `refreshes` how often
the daemon was told to refresh: these are history, which no action reads, except
that `MaxRefreshes` bounds the last.

What an alert shows is read when it is raised (`Shown`); a file that cannot be read
then is shown as missing. If no approval identifier is left there is no alert, and
the file is blocked all the same.

Granularity is the file access. A decision is four steps (`Begin` takes the
configuration, two checks and a load each read the files). A check of two files is one step: an edit between the
reads of the two is the same as one before or after both, as a check only looks at each file once. The
watcher's thread stamps one file per step, and its result is applied later. A handler of the event loop that
touches a file more than once is split (`ApprovalCheck`, `RememberLoad`,
`RememberWrite`, `RememberTrust`; `TrustTarget`, `TrustTargetDone`), and while it
is open (`app`) the event loop does nothing else, but editors and decisions do.

`Ensure` blocks the first file that fails and stops, global file first, as the
loop in `ensure_rules_trusted_for_workspace` does. `Thread` has two members as a
refresh clears `rules_scan_inflight` while a thread runs, so a second can start.

### HostdoExec and HostdoGate

`pc` follows a request through `exec_handler` and `run_command`: admission under a
permit, the registry, the queue, the wait, the image, the process, the drain of its output, the report. Whether a request is
detached, passes without a prompt and needs an image (`kind`) is an input. A
detached request's second look at the registry and its insertion are one step,
as both happen under the registry's lock; the first look is in `Admit`. `Report`
merges audit, activity and job update after a kill: they follow each other in one
task, and no property looks between them except through `EndedIsDead`, which
holds at each point since the process is dead before the first of them.

`shown` is what the interface shows of a request once the events on their way have
arrived. The interface also changes it itself, when the user presses Ctrl+C or a
session closes (`CalledOff`): a running command is then shown as cancelled before its task has
looked at the flag, and `EndedIsDead` speaks of that case separately.

`reply` is the one-shot channel: it keeps the first answer and is lost if nobody
waits. `held` says a descendant still holds the command's output: the task that
drains it waits with neither the limit nor the flag (`Drained`). `Hangup` drops a
synchronous handler wherever it waits, and leaves its process.

`HostdoGate` has one variable, a stage per request, and says: a command starts
once, after the policy or the user allowed this very request; a denied or expired
one never runs. The refinement mapping (`StageOf`) computes the stage from
process, position and reply.

### NetworkApproval

A connection carries one request. `Key` is what requests are folded by
(workspace, session token, container, host, port: a session and a destination).
A row of `pending_net` is the request shown and those folded into it. `turn`
keeps the order of `drain_channels`: rows whose connection was cut are denied,
then requests are taken from the channel, then decisions, closing sessions and
the rest. `Cut` is not part of the event loop: the handler of
`/network/disconnect` raises the flags itself, at any time, and a task sees its flag
when it does (`Cancelled`). A plain request looks at its flag once more when it may go on, a tunnel does not
(`Proceed`). From then on the task resolves the name and connects ("connecting"), and
the request leaves (`Forward`) without another look: cuts may come before and after
each of these steps.
`Template` is there because a request names its container by the template it was
launched from, and a closing session matches rows by that name
(`MatchesSession`). `granted` and `early` are history: whom the rules let pass, and who was
waiting when the user allowed its key; and which plain requests were cut while they asked.

### SessionLife

A launch makes one session at most, so the launch also names its session, its
token and its container; `stage` says how far it is. `stage` "queued" is a request
of `/workspace/launch` in the channel, "picking" the template picker, "building"
the build it waits for (`workspace_launch_pending`, or the indices a build task
carries), "starting" the time between `docker run` and the reading of the
container's identifier, "undoing" the drop of `DockerRunRollback`, "open" an
entry of `App::sessions`. The event loop starts and rolls back a container within
one handler; the world goes on meanwhile, so these are steps of their own during
which it does nothing else (`Idle`).

`box` is the container, `attached` its `docker run` client, which owns the
session's terminal; either may end first. `docker` is "down" when the
client runs and fails, and "absent" when it cannot be run: `docker_image_exists`
and `inspect_container_state` tell only the second apart from an answer
(`ImageMissing`, `InspectAnswers`, `InspectedRunning`). `registry` is what the token of
a session stands for, `remover` the thread that runs `docker rm`, which may fail.

What names a workspace in the code is kept apart: `asked` is the name, `at` and
`prompt` are the indices a waiting launch, the picker and the build pane keep, and
`cfg` is the configuration they are looked up in, which a launch, a refresh or a
removal replaces. `of` is the workspace the session was started for.

A refused launch (untrusted or malformed rules, no such template, a directory that is
gone, no port for its listener) is the last disjunct of `Begin`. That an ended session is
reported first and closes fifteen seconds after its launch at the earliest is
left to `CloseExited`'s own time; the handler of `/stop` that no longer waits is
the choice in `HandleStop`.

### AttachedTui and EventLog

A picture is a colour for each cell, a frame a function of the cells it writes, so
a partial frame is laid over the screen (`Drawn`), which is `Blank` after it was cleared. `Cell` has two members: one that
changes and one that does not. Per terminal, `poll` follows the long poll
(`ask`, `read`, `await`, `parked`, `answered`) and `relay` the frame request. A
handler registers for the next event before it reads (`Registered`), and
between reading and parking is a step of its own (`await`). A relay that waits for an answer keeps its request
(`ask`): the key, the size, and whether it wants everything. `Publish` wakes
whoever is registered. A frame is served by the event loop (`Serve`), which draws
the difference to the last buffer it drew for anyone; a request whose client has
given up is served as well, and nobody hears the answer. `history` holds what no
variable of the program keeps: how many events there were in all lives of the
daemon, which of them a client heard of and its picture includes, and which keys
were applied.

`EventLog` has for each client how far it has been told, how far its picture goes
and whether a repaint is due, and says that being told of news makes a repaint due, and that only a picture
as new as what has been told makes it due no longer. `FeedIsKept` is the refinement, `due` being the
poller's signal or the relay's `needs_render`.

### ConfigFile

The file is its list of workspace blocks and whether the rest is there (`rest`).
Every editor reads, changes a copy and writes it, each a step: the lock of
`atomic_write_with_lock` covers the write only, and `remove_workspace_block` writes in place, in
two steps (`Truncate`, `Fill`). What is left of a list without a name is the members
in the other places, in their order (`InPlaces`). A name is the last component of a
directory and a number without bound; `Depth` is how many components a path has, by
which the deepest workspace wins. A client goes through `Load`, then `Attach` to the
newest container of a matching workspace or `Choose` a template and ask for a
launch; if nothing matches, `ReadToAppend` and `WriteAppended` come first. The
manager keeps its own copy (`memory`), which a launch or an edit reloads if the
file is valid. `history.overtaken` says that somebody wrote from an old copy.

### Policy

A rule has methods, a domain, paths and ports, the empty set standing for any. A
path is a sequence of segments as they are spelled; `Decoded` applies the decoding
(`Spelling`, once), `Normalized` goes through the segments with `After` as the code does: what
is empty or `.` is left out, `..` pops the one before. The property's `Routed` says independently, by heights
and without a stack, where a server takes the path.
`ProjectRules` is what a file can be after `load`, with timeouts clamped.
`Decision` has the order of the code: what the rules of either file deny, then
`allowed_hosts` and forwards, then what they allow, else a prompt; a command goes
by the first rule for it, of the global file before the workspace's, else by the
stricter of the two defaults. A remembered answer
becomes `Entry` and is merged by `WithEntry`; `remembered` is history: answers
nobody has undone since.

### Launch

Contents of a file are the set of what is in it (`host`, a login, `onboarded`, and
the sessions that have written to it), so one sees who wrote where. `Mounts` composes the layers of a
template, `Binds` gives the arguments of `docker run` with the second path by
which a plugin finds the host's own, `Copy` the contents of a private copy. The
container resolves a path by the deepest mount over it (`Resolved`); `Writes` is
what a session does with it. `Environment` decides which login is put in the
environment, from the template, from what it passes through and from harness-hat's own.

### Interface

`turn.at` is the stage of a turn, in the order of `drain_channels`: host
commands, launches, refreshes, cuts, network requests, decisions made elsewhere,
activity events, restoring the selection, builds, exits and closes, stops, and
then the draw and the key. An event of a stage may be followed by another of that
stage or a later one. `app` holds the lists (sessions, groups, activities,
both queues), `ui` the focus, the cursor and the indices, `build` the one build. `drawn`
is what the last frame shows, in terms of what things *are* (a session, a
request, a workspace), `Aimed` what a key would act on, in the same terms, computed
by the key handlers' own index arithmetic; the central invariant compares the
two. A frame is drawn only if the turn says something has changed, as in the code.

The stages `PruneCut` and `Restore` are passed over if they would change
nothing, which leaves out stuttering only. A key begins the next turn.

## 3. The runs

| Run | Instance | Shows |
|---|---|---|
| `RulesGuardDecide` | one workspace, its file in up to three versions by an editor and by template choices with their launches, one decision, changing configurations, reviews, explicit trust | `DecisionWindow`, `AlertHoldsTheBlock`, `IntactStaysOpen`, and the types |
| `RulesGuardLive` | both files change, remembered entries, reviews, one refresh; fairness | `ChangeGetsBlocked` |
| `RulesGuardDialog` | violated: `DialogTrustsItsAlert` | an old dialog's answer trusts a newer change |
| `HostdoRequests` | two requests of each of four kinds, two permits, one active job, queue of 1; fairness | `EndedIsDead`, `StartedIsAudited`, `RunningJobsAreKept`, `GateHolds` (refinement of `HostdoGate`), `NothingWaitsForever`, and the types with the bounds of the registry |
| `NetworkPrompts` | three connections of two sessions of one workspace, one a tunnel, every policy, one row; fairness | `AllowedAsShown`, `NoWaiterIsLost`, `CutAskersAreNotForwarded`, `AskersComeToRest`, and the types with the quota |
| `SessionLife` | two launches, one workspace in the file and one that is not, Docker up or absent; fairness | `SessionsAreAuthorized`, `LeftIsRemoved`, `RunningIsKept`, `LaunchesEnd`, `GoneIsClosed`, and the types |
| `SessionOutage` | violated: `OutageIsNoExit` | a daemon that is down ends sessions |
| `AttachedTui` | one terminal, two cells, a ring of one event, a queue for one frame, two events, two keys, one late answer, one resize; fairness | `NoSleepOverNews`, `KeysInOrder`, `ScreenAddsUp`, `FeedIsKept` (refinement of `EventLog`), `NewsGetsPainted` |
| `ConfigFile` | two runs of `hat ws` in two directories of one name, one of them below a configured workspace; two edits in the interface, one refresh; fairness | `FileKeepsEdits`, `EndsWhereAsked`, `ClientsEnd` |
| `Policy` | seven requests (a path in two spellings, a host below another, an alias, three tunnels), two commands, six contents of either file, two rewrites, two prompts | `DenialsHold`, `RememberedHolds`, `AllowancesStayNarrow` |
| `Launch` | two sessions, two workspaces, two templates, every combination of four host files, environments and keychain, one change of a file | `SeededStaysPrivate`, `LoginIsWhole`, `OwnImageAndNumber` |
| `Interface` | up to two workspaces and two sessions, one host command and one connection, a workspace whose image must be built, four events and six keys within the budget below | `KeyActsOnWhatIsShown`, `SelectionIsKept`, `PointersFollow`, and the types |

`AttachedTui`, `ConfigFile`, `Policy` and `Launch` check their type invariant as
the first conjunct of `KeysInOrder`, `FileKeepsEdits`, `RememberedHolds` and
`OwnImageAndNumber`.

Twelve further configurations state what a document says and the code does not
keep; they are described in section 4 and run by hand, for example
`tlc -config NetworkClose.cfg MCNetworkApproval`: `RulesGuardLaunch`, `RulesGuardStale`,
`RulesGuardRefresh`, `HostdoDrain`, `NetworkClose`,
`SessionLateStart`, `SessionWrongWorkspace`, `AttachedStale`, `AttachedRestart`,
`ConfigLost`, `LaunchKeychain`, `InterfaceRebuild`. One more, `RulesGuardConfigs`, passes:
it checks the invariants of the guard and `ChangeGetsBlocked` with one file and everything the two runs have
apart (malformed contents, changing configurations, a refresh, explicit trust, remembered entries).

### Bounds, and why they are enough

*RulesGuard.* `MaxVersions` bounds the versions of a file; a template choice or a
remembered entry adds one. Three versions are what an alert and a launch for the same file
take: an edit, the alert for it, a template choice on top, the launch. `DecisionWindow` is about one
write between two checks; that one of the global file comes between is left to the theorem. Two files, of which
both change in `RulesGuardLive`, are the smallest number for which "one alert for all"
and "the file reported last" differ; one refresh is enough to absorb a change and to leave
a forgotten scan running beside another. One decision suffices since decisions only
interact through the guard, which other actions change in every way a second
decision could.

*HostdoExec.* With one active job, two detached requests race for one place and
the older of two jobs is evicted, or is not because it runs. Queue room of 1 makes
a full queue common. Two requests of different kinds meet in the queue, in the
permits and when the session closes.

*NetworkApproval.* `c1` and `c2` fold, `c4` asks for the same destination from
another session of the same template, and overflows the quota of the workspace
they share. A channel of 1 keeps requests in flight while sessions
close and connections are cut; two connections per listener make the limit bind. One row
per workspace stands for eight, and one request per turn to any number for 32.

*SessionLife.* Two launches are what excludes one another in a build and shares
the pane, the picker and the event loop; containers, stops and removals of
different sessions do not interact. One workspace in the file makes every index
either right or nowhere; `SessionWrongWorkspace` has two, in two orders. The
daemon is never down in `SessionLife`: what breaks then is `SessionOutage`. A
container has one stop request in the channel at a time.

*AttachedTui.* A ring of one event makes a reset as common as an event; the second
event is the one that comes between looking and sleeping. One late answer is
enough for a key to be applied twice, and for a frame to be lost between two
others. Two cells are what distinguishes a whole frame from a partial one. The
second terminal is in `AttachedStale`, the restart in `AttachedRestart`.

*ConfigFile.* Two clients are enough for one to read what the other is about to
overwrite; two edits for an addition and a removal. `play/app` and `work/app`
compete for a name, and `work/app/lib` lies in a configured workspace.

*Policy.* `ShortPathsResolve` compares `Normalized` with `Routed` for every path of up
to four segments out of eight spellings, among them an escaped `..`. Decisions depend on one request, two files and one remembered answer at
a time; two rewrites and two prompts let an answer come after the file has
changed, and after another answer. The contents have each kind of rule, a file
that does not load for two reasons, and both orders of strictness.

*Launch.* The templates are the two that mounts of the example configuration
lead to: nested, a directory and a file in it, and a layer that replaces another; the
files are those that carry a login.

*Interface.* One command and one connection make both queues, both overlays and
both kinds of rows; two sessions are what an index can get wrong, and two workspaces likewise. The state space is the product of everything an interface does, so
`Budget` (in `MCInterface`, a state constraint) spends the bounds in parts: a
second session with one workspace and without requests or builds, a build without requests, two requests with
at most two keys, and so on. Within each part all orders are explored. What two
parts would do together is not, in particular a build next to a prompt, and a
second session next to one: that is what the theorems of section 5 are for, which hold
without the budget and for any number of everything. Bounds on events and keys are on whole behaviours;
`EndTurn` and `NoKey` go on after they are spent.

### Deadlock

A request or connection that is over stays over, and there are finitely many: the
`Hostdo` and `Network` runs end, so they do not check for deadlock; nor do
`AttachedTui` (terminals leave), `ConfigFile` (clients are done), `Policy` (rules that
do not load ask nobody) and `Launch` (sessions are gone). The `RulesGuard`, `SessionLife` and
`Interface` runs do: the event loop always polls.

### Fairness

*RulesGuard:* the event loop ticks for ever and a started scan thread finishes; an open handler goes
on; the loop shows a waiting alert and takes an answered dialog. Nothing is
assumed of editors, clients or the user. A refresh forgets the running scan and takes new
baselines, a change that no scan has met among them, so `ChangeGetsBlocked`
promises a block before the next refresh or none; `RulesGuardRefresh` shows the change that is missed.

*HostdoExec:* the event loop takes what is queued; tasks run; the limits on
approval, pull and command go off (`WF` of `Answer`, `Pulled \/ PullFails`,
`StopOnTimeout`). The queue serves senders in turn, hence `SF` of `Send`. Docker's
answer to "is the image there" has no limit in the code and no fairness here, and
neither has a descendant that holds output: `NothingWaitsForever` leaves these two
positions out, and `HostdoDrain` shows the second.

*NetworkApproval:* the same for the event loop and tasks; `SF` of `Enqueue`, as the turn that
takes requests comes again and again; the flag is polled every 100 ms, so a task
does one of the things it can do. Nothing is assumed of the user or of what is forwarded.

*SessionLife:* a round of the event loop does something as long as something is
due (`Round`), and a build ends. No fairness for stops, for the threads that remove
containers, or for Docker: `GoneIsClosed` is about inspection alone.

*AttachedTui:* the event loop serves (`WF` of `Serve`), the relay goes on and takes
its turn when a repaint is due, a handler goes on (`WF` of `Register`, `Park`, `Wake`). A
poll may be given up after three seconds at any point of it; as nothing in its handler
is slow, it is answered in time now and then, hence `SF` of `ReadNews` and `Hear`.
Nothing is assumed of keys, resizes or events.

*ConfigFile:* a client and an edit go on; `SF` of `TakeLaunch`, as the event loop
drains the launch channel between edits. `Policy`, `Launch` and `Interface` have no liveness.

## 4. What contradicts a document

Each property states what a document or comment of the repository says, and TLC
finds a behaviour of the code that contradicts it. The first two are runs, the
others configurations to run by hand; the property is the one the configuration names.

1. `RulesGuardDialog`: a dialog is open for a change of a file; the file changes
   again and a scan replaces the alert; "allow" in the old dialog is matched by
   path and trusts the newer contents, which nobody saw. The comment at
   `native_dialog.rs:184` says a stale result must not affect a newer approval.
2. `SessionOutage`: `inspect_container_state` returns `Ok(None)` for every
   unsuccessful `docker inspect`, also when the daemon cannot be reached; only a client
   that cannot be run at all is an error. The session counts as ended,
   closes, and its container is not removed as it "has ended". The comment at
   `runtime.rs:407` says a failed inspection must not be treated as an exit.
3. `HostdoDrain`: the limit and the cancel flag are only looked at while the
   process lives (`wait_for_child`); afterwards the output tasks are awaited
   without either. The changelog (line 313) says limits apply while draining.
4. `NetworkClose`: `deny_pending_network_for_sessions` also matches a row by
   `source_container`, which is the template's name (`launch.rs:454`), against the
   session's `container_name`, the template's name too (`spawn.rs:709`). Closing
   one session denies what every session of the template asks, in any workspace.
5. `SessionLateStart`: the container's identifier is awaited for five seconds
   (`helpers.rs:21`). If Docker is slower, the rollback removes a container that is
   not there yet; the `docker run` client goes on, since the thread that owns its
   terminal is not told to stop, and creates it afterwards, with no session, token or
   proxy. The changelog (line 33) says failed launches leave no such container.
6. `SessionWrongWorkspace`: a launch that waits for its build keeps its workspace
   as an index; another launch, a refresh or a removal replaces the configuration;
   after the build the index is that of another workspace, whose directory is
   mounted, while the client is told the name it asked for. The user guide
   (`02-workspaces.md:38`) has the client's directory select the workspace, and the comment
   of `soft_refresh` has a refresh leave builds alone.
7. `AttachedStale`: two terminals are attached; a frame is the difference to the
   last buffer drawn for anybody, so one that was drawn for the other is missing on
   this one. The comment at `remote.rs:182` says a normal frame repaints every cell.
8. `AttachedRestart`: the daemon restarts under an idle terminal, whose position
   is then ahead of the new numbers: `since` finds neither news nor a gap, and the
   poll sleeps through events until the numbers have caught up. The comment at
   `handlers.rs:1110` has no event leave a client waiting.
9. `ConfigLost`: two clients read the configuration file, each adds its block and
   writes; the first block is lost, as the lock covers the writes only. The
   comment at `load.rs:1067` says the lock serializes them.
10. `LaunchKeychain`: a key in the environment does not keep the keychain's login
    out of a private copy; only a token does. The changelog (line 270) has it used
    only without explicit authentication.
11. `InterfaceRebuild`: a cancelled build forgets its workspace; "rebuild" in its
    pane then builds the workspace under the cursor. The comment at `settings.rs:479`
    calls it the action that rebuilds the same target.
12. `RulesGuardLaunch` (`OnlyShownIsTrusted`): an alert for an edit waits; a client adds a template choice to the
    edited file and asks for a launch. Its digest matches what it wrote, so the launch
    trusts the file and lifts the block (`launch.rs:177`), with the edit in it, while the alert still waits. The user
    guide (`06-operations.md:94`) has decisions blocked until the version shown by the
    alert is trusted. What does hold is `AlertHoldsTheBlock`: only what Harness Hat wrote itself is
    trusted that way.
13. `RulesGuardStale` (`TrustIsNotUndone`): a scan thread stamps a changed file, the user trusts the file, and then
    the scan is applied: its stamp differs from the new baseline, and the file that was
    just trusted is blocked again, with an alert. The changelog (line 34) says that it "is not
    immediately blocked again"; the comment at `approval_control.rs:296` has the new baseline for that purpose.
    What does hold is `IntactStaysOpen`: only a scan that stamped the file before the trust does this.
14. `RulesGuardRefresh` (`EveryChangeIsBlocked`): a file changes, and before a scan has met the change a refresh
    takes its stamp for the baseline (`core.rs:334`): the watcher never reports it, there is no alert, and the file is
    not blocked until a decision or a status query looks at it. The changelog (line 238) has external
    changes immediately block and open a dialog. Decisions compare fingerprints, so
    none is made from the changed file (`DecisionWindow`); only the alert is missed.

### Seen in the models, but not contradicting a document

- A file that is changed and changed back between the two checks of a decision is
  decided from (`DecisionWindow` says exactly how far the double check reaches).
- The guard asks the configuration in force, the rules are composed from the one
  the request began with: if the workspace is removed meanwhile its file is loaded
  unchecked (`LoadRules` against `FirstCheck`; the property asks for
  `r.first[f] > 0` for this reason).
- A launch trusts a file by its digest and leaves the watcher's baseline, so the
  next scan reports the client's own write, blocks the file again and asks for its review.
- A workspace that is removed from the configuration and added again gets a new baseline,
  which absorbs a change as a refresh does.
- An edit between the check and the load of a remembered decision becomes trusted
  with the entry that is added.
- Of two files that change together, only the one reported last has an alert; the
  other stays blocked without one, until it changes again or is trusted explicitly.
- A command cancelled in the interface is shown as cancelled at once; its process lives until the
  task looks at the flag, and on without limit if the client of a synchronous request
  hung up, as no task is left to look.
- An approved command whose image cannot be had, or that cannot be built or
  spawned, leaves no audit entry (`run_command` returns before it).
- A synchronous command whose client hangs up runs on without a limit
  (`Hangup` leaves `child` running).
- A request cancelled while its prompt is still in the channel is shown as cancelled, and prompted for
  afterwards; if it is approved its command is started, and killed at the first poll of the flag.
- A job killed while it waits for approval is only flagged; an approval starts the
  command, which is then killed at the first poll.
- A prompt that is still in the channel when its session closes is shown
  afterwards, for host commands and network requests alike.
- A network request that gave up leaves its row, which counts against the quota
  until the user answers it; the comment at `runtime.rs:5` has rows last for "the full prompt timeout".
- A cut denies a later connection whose request was folded into the row of a cut
  one, and Ctrl+C on the request a row shows does the same to those folded into it.
- A tunnel allowed while it is being cut connects before its task is dropped. A plain request that
  was cut after its last look at the flag may still leave: the look is followed by the
  resolution of the name and the connection, and the flag is polled every 100 ms (`activity.rs:286`).
- A container that asks to be stopped before its session is adopted is not found:
  its token stands for no container yet.
- The handler of `/stop` answers with a timeout after ten seconds; its request
  stays in the channel and the stop is performed.
- The template picker and the build pane keep an index like a waiting launch, and
  start the session of whatever is at that index when the user confirms.
- `docker rm` is run once; if it fails, the container stays without a session.
- A frame request whose answer was late is sent again with its key, which is then
  applied twice (`KeysInOrder` counts these).
- A resize alone does not make an attached terminal ask for a frame: it shows what
  it can of the old one until a key or an event.
- While a workspace is removed its configuration file is empty for a moment; a client
  that loads it then fails.
- A rule for a command in the global file is found before a remembered one of the
  workspace (`RememberedHolds` allows it).
- A file that is to be copied and does not exist at the launch is not mounted; if
  its directory is, the container writes the host's file once it is there.
- A file that is copied out of a directory mounted writable is private only if the copy is mounted
  in the place in which that directory shows the file (the theorem assumes `CopiesMirror`).
- The settings file of a template is mounted after the layers have been
  merged, so it may meet another mount of the same place: Docker refuses the container (`Accepted`).
- The tag of an image has only the last name of the workspace's path (the theorem
  assumes `NamesDiffer`).
- A token counts as given if the template sets it, or if it is passed on from a host
  that has it, and in either case only if it is not empty (`has_nonempty_env_source`); what is passed
  on in the end goes by the name alone (`spawn.rs:589`). An empty token on the host
  therefore hides the one found in the keychain, and an empty one in the template
  the one on the host: the container was prepared for a token it does not have
  (the theorem assumes `TokensAreGiven`).
- Two frames are *blind*: a full screen whose session was stopped, and a running
  build drawn over a session that a client's launch has just given the focus; in
  both, keys go somewhere the frame does not show (`KeyActsOnWhatIsShown` leaves them out).
- A pasted text goes to the session that is active, whatever has the focus and whatever
  covers it (`tui/mod.rs:1030`, `append_remote_paste`); pasting is not in the model.
- A launch that fails in the interface leaves an empty group of sessions.

## 5. What is proved

Each theorem is for every value of the constants that the module's own assumption
admits (`RulesGuardAssumption`, `HostdoAssumption`, ...: sets that do not overlap, bounds that are
numbers; TLC evaluates them on each run). Hypotheses beyond that stand in the
third column.

| Module and theorem | Property | Under |
|---|---|---|
| `RulesGuardProofs!TypeCorrect` | `[]TypeOK` | |
| `RulesGuardProofs!DecisionWindowHolds` | `[]DecisionWindow` | |
| `RulesGuardProofs!AlertBlockHolds` | `[]AlertHoldsTheBlock` | |
| `RulesGuardProofs!IntactStaysOpenHolds` | `IntactStaysOpen` | |
| `HostdoProofs!TypeCorrect` | `[]TypeOK`, with the registry and the queue in bounds | |
| `HostdoProofs!JobsAreKept` | `[]RunningJobsAreKept` | |
| `HostdoProofs!EndedStaysDead` | `[]EndedIsDead` | |
| `HostdoProofs!HistoryIsTrue` | `[]StartedIsAudited` | |
| `HostdoProofs!GateIsKept` | `GateHolds`, the refinement of `HostdoGate` | |
| `NetworkProofs!TypeCorrect` | `[]TypeOK`, with the quota | |
| `NetworkProofs!NothingSlipsThrough` | `[]AllowedAsShown` | |
| `NetworkProofs!WaitersAreKept` | `[]NoWaiterIsLost` | |
| `NetworkProofs!CutsAreFinal` | `[]CutAskersAreNotForwarded` | |
| `SessionProofs!TypeCorrect` | `[]TypeOK` | |
| `SessionProofs!TokensAreTrue` | `[]SessionsAreAuthorized` | |
| `SessionProofs!LeftIsGone` | `[]LeftIsRemoved` | `"down" \notin Weather` |
| `SessionProofs!RunningIsNotEnded` | `RunningIsKept` | `"down" \notin Weather` |
| `InterfaceProofs!NoPollSleepsOverNews` | `[]NoSleepOverNews` | |
| `InterfaceProofs!KeysComeInOrder` | `[]KeysInOrder`, restarts included | |
| `InterfaceProofs!ScreensAddUp` | `ScreenAddsUp`, restarts included | |
| `InterfaceProofs!FeedKeepsPromise` | `FeedIsKept`, the refinement of `EventLog` | |
| `ConfigProofs!EditsAreKept` | `[]FileKeepsEdits`, with the types | |
| `ConfigProofs!EndsInItsPlace` | `[]EndsWhereAsked` | |
| `ConfigProofs!OwnImageAndNumberHolds` | `[]OwnImageAndNumber`, with the types and `Accepted` mounts | `NamesDiffer`, `PlacesDiffer` |
| `ConfigProofs!LoginIsWholeHolds` | `[]LoginIsWhole` | `TokensAreGiven` |
| `ConfigProofs!SeededStaysPrivateHolds` | `[]SeededStaysPrivate` | `CopiesMirror` |
| `PolicyProofs!AnswersHold` | `[]RememberedHolds`, with the types | |
| `PolicyProofs!AnswersAreNarrow` | `AllowancesStayNarrow` | |
| `PolicyProofs!DeniedStaysOut` | `[]DenialsHold` | |
| `InterfaceProofs!InterfaceOKHolds` | `[]InterfaceOK` | |
| `InterfaceProofs!PointersFollowHolds` | `PointersFollow` | |
| `InterfaceProofs!KeyActsOnWhatIsShownHolds` | `[]KeyActsOnWhatIsShown` | |
| `InterfaceProofs!SelectionIsKeptHolds` | `SelectionIsKept` | |

Each proof has an inductive invariant (`Inv`, stated at the head of the module or
in front of its first use), one lemma or step per action, and a last temporal step.

### RulesGuard

*Types.* `TypeOK` is not inductive: a handler that is open (`app`) must work on a
file, which `AppFile` adds. Lemmas give the type of each value an action builds,
and `NextType` has a step per action.

*DecisionWindow.* The property relates three moments. The invariant `WindowInv`
keeps, per request and file, the versions seen in the order they were seen, and
that the version seen by a passed check was vouched at that time (`Seen`), and that
an open entry of the guard holds vouched contents (`OpenIsVouched`). Its steadiness
comes from `Grows`: versions are only appended, and what was vouched stays so. If
at most one write separates the checks, the version read is that of one of the
two checks.

*AlertHoldsTheBlock.* Blocks are lifted in five places: a review, an explicit
trust, an own write met by a scan, an own write trusted by its handler, a launch.
The first two settle the alert (an explicit trust one step later, `Held`). The others trust a fingerprint, and `AlertInv` says that
it is one that Harness Hat wrote: what a client asks a launch for, what a handler has
written, and what a note is about, once its write has happened (`Noted`).

*IntactStaysOpen* is an action property. A file is in line (`InLine`) when what is
trusted, what the watcher compares with and what the scans carry agree with the file, and no alert asks for its
review; `LineSteps` goes through every action for a file in line, `InLineKept` and `IntactKept` cover
those that stamp it again or look at it (checks, reports). The other half is the end of an
explicit trust, which brings a file in line.

### HostdoExec

The bounds of the registry are about cardinalities, so the invariant has that the
registry is finite and lists exactly the tasks that run: an eviction then takes a job
that is over, and there is one whenever the registry is full, as fewer tasks may run
than it holds. Request by request, `Fits` says which combinations
of position, process, reply, job and activity there are, and `Recorded` which
history goes with them; `AskedOnce` that a request is in the queue or in the list of
prompts once. The property of a dead process is then a consequence of `Fits`: an activity's
own events report an end only when the task is done, and the interface calls cancelled only
what has been told, is over, or never starts (`CalledOffUnstarted`: its handler hung up or its denial is
on its way). The
refinement maps each step to one of `HostdoGate` or a stutter (`NextGate`), a request at a
time, as `StageOf` of the others does not change.

### NetworkApproval

A request that waits is in exactly one place: `Placed` says that it is not sent yet, in the
channel once, in one row, or nowhere after it was answered. `NoWaiterIsLost` is
not inductive without it, as a request that was in two rows could be answered in one
and cut in the other. `Granted` says that what goes on was granted by the policy or
by an answer to a row for its own destination, which follows as rows fold requests of one key only.
`CutShort` says that the flag of whoever was cut while it asked stays up and that it asks or is
over: a fold, an answer or a timer that comes after the cut leads past the last look at
the flag.
The quota again needs that `rows` is finite.

### SessionLife

`StageInv` ties the stages of a launch to its token, its container and the one build,
and `IndexInv` keeps the index that a launch holds among the indices there are, while lists
shrink (`Facts!DropOne`). `RemovalInv` follows each ended session to the thread that removes its
container. Both of the last theorems assume that Docker is up or absent: with
a daemon that is down they are false, which is the finding `SessionOutage`.

### AttachedTui

The invariant has four parts. *Types* include what a request and an answer consist of. *Feed*:
a handler that has registered and was not woken has heard of every event up to the
last one, and what it has not heard of is in the ring or answered with a reset. *Keys*: the
keys applied, the one that is under way and those still typed follow one another; a key is
repeated at most once per late answer. *Screens*: a terminal that has got every frame
since its last full one shows the last buffer drawn for it. The first
is about a daemon that does not restart, since otherwise the poll sleeps over events
(`AttachedRestart`); the keys and screens are proved for `RestartSpec`. That partial
frames of two terminals do not add up (`AttachedStale`) is no contradiction: the
property speaks of terminals that got the last frame drawn.

### ConfigFile

A client that appends knows the names that were in the file when it read them, and the
number it takes is free there (`Fresh`): of the numbers up to one more than the length of the list one is free, by
counting (`Room`). Unless somebody wrote back an old copy, the copy being
written is the file (`NotOvertaken`), so what is kept is in it.
`Known` and `Asked` say where blocks come from: each block of a client, of the manager or of
a launch was in the file at some time, and a name that has stood for one directory only
leads there.

### Policy

The invariant says that a file stays one that can be loaded, that a prompt is about
something that was neither open to everybody nor forbidden, and that an answer nobody has undone is in its file while
its opposite is not. From this a decision follows: `EntryMatches` says exactly which
requests the rule of an answer matches, `SettledDecides` that the first entry of a
command decides behind a global file that has none for it, `AllowanceOpens` what an
answer can open. That a prompt is not about an open host is what keeps raw tunnels to it
apart: an answer removes a denial of the host.
`DeniedStaysOut` is about precedence, for any rules files, and rests on `PathIsResolved`: for a path of any
length `Normalized` is `Routed`. After `n` segments the stack of the code holds, in their order, the segments no
later one goes back over (`InOrder`), and the k-th of `m` is `m - k` below the height reached. `LeftNext`
shows that a segment keeps this, whether it is skipped, pushed, pops, or finds nothing to pop; that it then
holds of the whole path is a least counterexample (`NoCounterexample`) and not an induction theorem.
TLC compared the two for short paths first (`ShortPathsResolve` in `MCPolicy`).

### Launch

*OwnImageAndNumber* rests on three invariants. `LaunchTypes` has what a plan, a copy and an
environment may be. `NumberInv` bounds the last number by the sessions that have
one, so that the next one is nobody's. `PlanInv` has that a tag stands for the one workspace and dockerfile it
was last built from, which is where `NamesDiffer` is needed, and that the mounts of
every session are in different places. For the last one the plan is followed
layer by layer: `Merged` keeps one mount per place, whatever the layers are; the
settings, the second path of a plugin, the workspace and the helper's directory then
need places of their own, which is what `PlacesDiffer` asks of a template.

*LoginIsWhole*: `LoginInv` says it of every session from the moment it is prepared, and the contents of a
copy change only by what its session writes, which carries no login. What `Environment` gives is the
same that `Copy` was told, unless a token is there but empty.

*SeededStaysPrivate*: Docker shows a path through the last mount that is over it. The plan is followed
once more, for its order: `ByDepth` sorts by depth, and filtering, joining and flattening keep the order
(`KeepingOrder`, `JoinedOrder`, `FlattenedOrder`), so that no mount of a copy comes before a writable
mount of the host that is higher up (`Later`, `PlanOrder`). A write to a host's file that also has a
copy comes through a writable directory, in the place in which that directory shows the file. If the copy is
mounted in that very place its mount is deeper and later, and the write goes to the copy (`WriteMisses`). That
it is mounted there is what `CopiesMirror` asks of a template, and it is needed:
`~/.claude/x.json` copied to another place and `~/.claude` mounted writable as `/coder/.claude`
is a template by which the host's file is written. `SeedInv` adds that
no file of the host holds a session before it runs.

### Interface

*Types and indexes.* `Sound` is the invariant: between two events the lists are sets of what
they list, each session has one group, no group has two, and every pointer is nothing or names a
session there is. A session's end is a removal followed by a shift of every index
behind it (`RemoveTerminal`, `Remap`); lemmas say for one removal what each index becomes, and
`CloseAll`, which removes any number of sessions, is a recursive function over them. The
provers cannot do induction there; it is replaced by the least counterexample
(`NoCounterexample`): of the numbers at which a set of states would leave the invariant there is a
least, and one step before it the lemma for one removal applies. *PointersFollow* comes from the
same lemmas, as a removal shifts the index and the list alike.

*KeyActsOnWhatIsShown* needs that the frame at a key is the current one (`Seen`). A turn that
reports a change ends with a draw. One that reports none must leave what is drawn as it was: this
is shown stage by stage, the interesting one being the aging of activities, which changes the list in every turn:
what it changes is not shown, and it removes nothing unless it says so (`AgedAlike`, `FrameSame`). Then `ShownIs` compares, place by
place, the key handlers' arithmetic with the frame's.

*SelectionIsKept* follows the row that the turn noted at its beginning. `Held`: while the turn is calm the
noted row means what it meant, as lists only grow (`Grows`, `GrowsKeep`), and once the
selection has been restored the cursor is on it. Rows of activities and of the build come and go, but no two
of them mean the same (`OneMeaning`), so if what was meant is still listed, it is the noted row that is.

### Only model-checked

- Liveness (`ChangeGetsBlocked`, `NothingWaitsForever`, `AskersComeToRest`, `LaunchesEnd`,
  `GoneIsClosed`, `NewsGetsPainted`, `ClientsEnd`): `ENABLED` and fairness are out of the provers' reach.
- The violated properties, which are false.

## 6. What is not modelled

Within the modelled components:

- *RulesGuard:* failures of writes; a file that has a fingerprint but violates the
  rules schema (a load error: the decision is refused); the client's read and
  write of a template choice as two steps; `hat rules status` for one workspace;
  a configuration that fails to load at a refresh (nothing changes).
- *HostdoExec:* output, stdin and directories; the failure of `wait` on the process; a full audit or
  activity channel; the manager's shutdown; the memory of finished output
  (`Forget` stands for age and budget alike).
- *NetworkApproval:* method and path, which are not part of the key; running out
  of approval identifiers (`RulesGuard` has it for alerts: a file may be blocked without one); what is
  resolved and connected to; the manager's shutdown; the flags of one cut, raised
  one after another under the tracker's lock; limits other than the listener's;
  requests refused for their address.
- *SessionLife:* the end of the manager, which spawns a removal per session and
  does not wait for it; the events streamed to the client of a launch, whose last
  one is dropped if its channel is full; templates, which are looked up by index
  like workspaces; session groups and their order in the interface; shells and editors attached to a session.

- *AttachedTui:* escape sequences, the clipboard, the mouse; a key event of several
  bytes; what a restart changes besides the feed and the frames.
- *ConfigFile:* the other tables of the file and how their values are validated; a write that
  fails; directories that go away; `hat init`, `hat rebuild` and legacy names of the table.
- *Policy:* wildcards inside a word, aliases of a host, ports of a command's
  working directory and the fields of a command beyond its identity; a rule of several domains.
- *Launch:* network arguments, labels, ports, limits of memory and processor, Codex on
  Windows, plugins beyond the second path of a mount; a number chosen anew after the manager restarts.
- *Interface:* text, layout, scrolling, the mouse, pasting (which asks neither the focus nor what covers the screen, section 4), leaving the program, what is typed into a
  container or a form, remembering an answer, native dialogs; the cap of a thousand activities;
  several terminals in a group (every caller starts a group of its own); a
  question of the launch pane beyond its yes and no.

Not modelled at all: parsing, streams, Docker and DNS beyond their outcomes, the proxy's
limits other than a listener's, the allocation of approval identifiers, service
installation, telemetry (section 1 and `PROJECT.json`).

## 7. Plan

Done: `RulesGuard` with its first theorems, `HostdoExec`/`HostdoGate`,
`NetworkApproval`, `SessionLife`, `AttachedTui`/`EventLog`, `ConfigFile`, `Policy`,
`Launch`, `Interface`.

Proved since: all safety of `HostdoExec`, `NetworkApproval`, `SessionLife`, `AttachedTui`,
`ConfigFile`, `Policy` and `Interface`, both refinements, and all of `Launch`.

Next, if a run can be spared: the permits of root, listener and source with a
refresh that forgets limiters in use (`proxy/core.rs:296-475`), and the allocation
of approval identifiers.
