----------------------------- MODULE ConfigFile -----------------------------
(***************************************************************************)
(* The configuration file and those who edit it: `hat ws` clients, which   *)
(* add the workspace of their directory before they ask the manager for a  *)
(* session, and the manager's interface, in which a user adds and removes  *)
(* workspaces.  Each of them reads the file, changes its copy and writes   *)
(* the copy back; the advisory lock covers the writing only.  The manager  *)
(* goes by the configuration it loaded last.                               *)
(*                                                                         *)
(* The file is its list of workspaces and whether the rest of it is there. *)
(* A rules file is what was written into it first and its template.  The   *)
(* manager has loaded the file before, so it has an instance identifier,   *)
(* and the directories of workspaces do not go away.                       *)
(***************************************************************************)
EXTENDS Naturals, Sequences, FiniteSets, FiniteSetsExt, Functions

CONSTANTS
  Client,    \* runs of `hat ws`
  Cwd,       \* the directory a client is run in
  Dir,       \* directories
  Within,    \* pairs of a directory and one it lies in, or is
  Depth,     \* the number of components of a directory's path
  Base,      \* the last component of a directory
  Template,  \* container templates
  None,      \* no template
  First,     \* the workspaces configured at first
  Typed,     \* the names a user of the interface gives
  MaxEdits,  \* bound: additions and removals in the interface
  MaxRefresh \* bound: refreshes of the manager

\* A name is a directory's last component and a number, which is left out if 1.
Name == {Base[d] : d \in Dir} \X (Nat \ {0})
Block == [name : Name, dir : Dir]
NoRules == [body |-> "none", template |-> None]

Names(blocks) == {blocks[i].name : i \in DOMAIN blocks}

\* The manager has loaded the configuration it begins with.
ASSUME ConfigAssumption ==
  /\ IsFiniteSet(Client) /\ Cwd \in [Client -> Dir] /\ DOMAIN Base = Dir
  /\ Within \subseteq Dir \X Dir /\ \A d \in Dir : <<d, d>> \in Within
  /\ DOMAIN Depth = Dir
  /\ \A w \in Within : {Depth[w[1]], Depth[w[2]]} \subseteq Nat /\ Depth[w[2]] <= Depth[w[1]]
  /\ First \in Seq(Block) /\ Cardinality(Names(First)) = Len(First)
  /\ Typed \subseteq Name
  /\ None \notin Template
  /\ MaxEdits \in Nat /\ MaxRefresh \in Nat

VARIABLES
  file,       \* harness-hat.toml
  rules,      \* the rules file of a directory
  memory,     \* the workspaces of the manager's configuration
  sessions,   \* containers, the oldest first
  ws,         \* what a client is at
  loop,       \* what the manager's event loop is at
  edits, refreshes,
  history     \* whether an edit was made from an old copy, the blocks to be kept,
              \* and all there ever were

vars == <<file, rules, memory, sessions, ws, loop, edits, refreshes, history>>

\* The place of the workspace of a name, the first one if there are several.
Places(blocks, name) == {i \in DOMAIN blocks : blocks[i].name = name}
Find(blocks, name) == IF Places(blocks, name) = {} THEN 0 ELSE Min(Places(blocks, name))

Init ==
  /\ file = [rest |-> TRUE, blocks |-> First]
  /\ rules \in [Dir -> {NoRules, [body |-> "own", template |-> None]}]
  /\ memory = First
  /\ sessions = <<>>
  /\ ws = [c \in Client |-> [at |-> "start"]]
  /\ loop = [at |-> "idle"]
  /\ edits = 0 /\ refreshes = 0
  /\ history = [overtaken |-> FALSE, kept |-> Range(First), ever |-> Range(First)]

-----------------------------------------------------------------------------
(* Loading and editing *)

\* docker_dir and the like are required, and no name may occur twice.
Valid(f) == f.rest /\ Cardinality(Names(f.blocks)) = Len(f.blocks)

\* The first number that no configured workspace has.
Dedupe(blocks, base) ==
  <<base, Min({n \in 1 .. Len(blocks) + 1 : <<base, n>> \notin Names(blocks)})>>

\* The workspace with the longest path that the directory lies in, if any:
\* of two workspaces on one path, the one configured later.
Matching(blocks, dir) == {i \in DOMAIN blocks : <<dir, blocks[i].dir>> \in Within}
BestMatch(blocks, dir) ==
  CHOOSE i \in Matching(blocks, dir) :
    \A j \in Matching(blocks, dir) :
      \/ Depth[blocks[j].dir] < Depth[blocks[i].dir]
      \/ Depth[blocks[j].dir] = Depth[blocks[i].dir] /\ j <= i

\* Starter rules, if there are none.
RulesIfMissing(d) ==
  IF rules[d] = NoRules THEN [rules EXCEPT ![d].body = "starter"] ELSE rules

\* The members of a list at some of its places, in their order.
InPlaces(list, places) ==
  LET order == CHOOSE f \in [1 .. Cardinality(places) -> places] :
                 \A i, j \in DOMAIN f : i < j => f[i] < f[j]
  IN  [k \in 1 .. Cardinality(places) |-> list[order[k]]]

Without(copy, name) ==
  [copy EXCEPT !.blocks = InPlaces(@, DOMAIN @ \ Places(@, name))]

\* Mutant: the array of workspaces is made anew.
WithOnly(copy, block) == [copy EXCEPT !.blocks = <<block>>]
\* What the editor writes, and whether the file, or the workspaces the new
\* name was chosen among, have changed since they were read.
With(copy, block) == [copy EXCEPT !.blocks = Append(@, block)]
Added(copy, named, block) ==
  [overtaken |-> history.overtaken \/ file # copy \/ file.blocks # named,
   kept |-> history.kept \cup {block}, ever |-> history.ever \cup {block}]

-----------------------------------------------------------------------------
(* A client *)

At(c, state) == ws' = [ws EXCEPT ![c] = state]
Fail(c) == At(c, [at |-> "failed"])

\* It loads the configuration and looks for the workspace of its directory.
Load(c) ==
  /\ ws[c].at = "start"
  /\ IF ~Valid(file) THEN Fail(c)
     ELSE IF Matching(file.blocks, Cwd[c]) # {}
     THEN At(c, [at |-> "matched", block |-> file.blocks[BestMatch(file.blocks, Cwd[c])]])
     ELSE At(c, [at |-> "append", named |-> file.blocks,
                 block |-> [name |-> Dedupe(file.blocks, Base[Cwd[c]]), dir |-> Cwd[c]]])
  /\ UNCHANGED <<file, rules, memory, sessions, loop, edits, refreshes, history>>

\* Mutant: the names are the same but for the number.
LikeNamed(session, block) == session.name[1] = block.name[1]
OfWorkspace(session, block) == session.name = block.name

\* It attaches to the newest container of a workspace of that name ...
Attach(c) ==
  /\ ws[c].at = "matched"
  /\ \E i \in DOMAIN sessions :
       /\ OfWorkspace(sessions[i], ws[c].block)
       /\ \A j \in i + 1 .. Len(sessions) : ~OfWorkspace(sessions[j], ws[c].block)
       /\ At(c, [at |-> "attached", dir |-> sessions[i].dir])
  /\ UNCHANGED <<file, rules, memory, sessions, loop, edits, refreshes, history>>

\* ... or, if there is none or a new one is wanted, chooses the template,
\* writes it into the rules and asks for a launch.  The choice may fail.
Choose(c) ==
  /\ ws[c].at \in {"matched", "added"}
  /\ \/ Fail(c) /\ UNCHANGED rules
     \/ \E t \in Template :
          LET d == ws[c].block.dir
              remembered == ws[c].at = "matched" /\ rules[d].template # None
          IN
          /\ remembered => t = rules[d].template
          /\ rules' = IF remembered THEN rules
                      ELSE [RulesIfMissing(d) EXCEPT ![d].template = t]
          /\ At(c, [at |-> "ask", name |-> ws[c].block.name,
                    expected |-> IF remembered THEN NoRules ELSE rules'[d]])
  /\ UNCHANGED <<file, memory, sessions, loop, edits, refreshes, history>>

\* No workspace matches: starter rules, then the file is read once more.
ReadToAppend(c) ==
  /\ ws[c].at = "append"
  /\ rules' = RulesIfMissing(Cwd[c])
  /\ At(c, [at |-> "write", copy |-> file, named |-> ws[c].named, block |-> ws[c].block])
  /\ UNCHANGED <<file, memory, sessions, loop, edits, refreshes, history>>

WriteAppended(c) ==
  /\ ws[c].at = "write"
  /\ file' = With(ws[c].copy, ws[c].block)
  /\ history' = Added(ws[c].copy, ws[c].named, ws[c].block)
  /\ At(c, [at |-> "added", block |-> ws[c].block])
  /\ UNCHANGED <<rules, memory, sessions, loop, edits, refreshes>>

-----------------------------------------------------------------------------
(* The manager *)

\* A configuration that cannot be loaded leaves the one in memory.
Reload == memory' = IF Valid(file) THEN file.blocks ELSE memory

Started(c, dir) == At(c, [at |-> "attached", dir |-> dir])

\* A launch loads the configuration, finds the workspace by name, trusts its
\* rules if they are what the client wrote, and starts a container, or fails.
TakeLaunch(c) ==
  LET i == Find(file.blocks, ws[c].name)
      d == file.blocks[i].dir
  IN
  /\ loop.at = "idle" /\ ws[c].at = "ask"
  /\ Reload
  /\ \/ Fail(c) /\ UNCHANGED sessions
     \/ /\ Valid(file) /\ i # 0
        /\ ws[c].expected \in {NoRules, rules[d]}
        /\ sessions' = Append(sessions, [name |-> ws[c].name, dir |-> d])
        /\ Started(c, d)
  /\ UNCHANGED <<file, rules, loop, edits, refreshes, history>>

SoftRefresh ==
  /\ loop.at = "idle" /\ refreshes < MaxRefresh
  /\ refreshes' = refreshes + 1
  /\ Reload
  /\ UNCHANGED <<file, rules, sessions, ws, loop, edits, history>>

\* The user adds a workspace under a name that the manager does not know of.
Submit(name, d) ==
  /\ loop.at = "idle" /\ edits < MaxEdits
  /\ name \notin Names(memory)
  /\ edits' = edits + 1
  /\ rules' = RulesIfMissing(d)
  /\ loop' = [at |-> "read", named |-> memory, block |-> [name |-> name, dir |-> d]]
  /\ UNCHANGED <<file, memory, sessions, ws, refreshes, history>>

SubmitRead ==
  /\ loop.at = "read"
  /\ loop' = [at |-> "write", copy |-> file, named |-> loop.named, block |-> loop.block]
  /\ UNCHANGED <<file, rules, memory, sessions, ws, edits, refreshes, history>>

SubmitWrite ==
  /\ loop.at = "write"
  /\ file' = With(loop.copy, loop.block)
  /\ history' = Added(loop.copy, loop.named, loop.block)
  /\ loop' = [at |-> "reload"]
  /\ UNCHANGED <<rules, memory, sessions, ws, edits, refreshes>>

\* The user removes a workspace: its sessions are closed, whose containers
\* are removed meanwhile, and the file is rewritten in place, if it is there.
RemoveWorkspace(name) ==
  /\ loop.at = "idle" /\ edits < MaxEdits
  /\ edits' = edits + 1
  /\ loop' = [at |-> "drop", name |-> name]
  /\ UNCHANGED <<file, rules, memory, sessions, ws, refreshes, history>>

ReadToRemove ==
  /\ loop.at = "drop"
  /\ loop' = IF loop.name \in Names(file.blocks)
             THEN [at |-> "truncate", copy |-> file, name |-> loop.name]
             ELSE [at |-> "idle"]
  /\ UNCHANGED <<file, rules, memory, sessions, ws, edits, refreshes, history>>

\* std::fs::write empties the file before it writes.
Truncate ==
  /\ loop.at = "truncate"
  /\ history' = [history EXCEPT !.overtaken = @ \/ file # loop.copy,
                                !.kept = {b \in @ : b.name # loop.name}]
  /\ file' = [rest |-> FALSE, blocks |-> <<>>]
  /\ loop' = [loop EXCEPT !.at = "fill"]
  /\ UNCHANGED <<rules, memory, sessions, ws, edits, refreshes>>

Fill ==
  /\ loop.at = "fill"
  /\ file' = Without(loop.copy, loop.name)
  /\ history' = [history EXCEPT !.overtaken = @ \/ file.blocks # <<>>]
  /\ loop' = [at |-> "reload"]
  /\ UNCHANGED <<rules, memory, sessions, ws, edits, refreshes>>

\* Mutant: the edit is not over if the file cannot be loaded.
FinishEditIfLoaded ==
  /\ loop.at = "reload" /\ Valid(file)
  /\ Reload
  /\ loop' = [at |-> "idle"]
  /\ UNCHANGED <<file, rules, sessions, ws, edits, refreshes, history>>
FinishEdit ==
  /\ loop.at = "reload"
  /\ Reload
  /\ loop' = [at |-> "idle"]
  /\ UNCHANGED <<file, rules, sessions, ws, edits, refreshes, history>>

\* A container ends, or is removed after its session was closed.
ContainerEnds(i) ==
  /\ sessions' = SubSeq(sessions, 1, i - 1) \o SubSeq(sessions, i + 1, Len(sessions))
  /\ UNCHANGED <<file, rules, memory, ws, loop, edits, refreshes, history>>

-----------------------------------------------------------------------------
Run(c) == Load(c) \/ Attach(c) \/ Choose(c) \/ ReadToAppend(c) \/ WriteAppended(c)
Edit == SubmitRead \/ SubmitWrite \/ ReadToRemove \/ Truncate \/ Fill \/ FinishEdit

Next ==
  \/ \E c \in Client : Run(c) \/ TakeLaunch(c)
  \/ \E d \in Dir, name \in Typed : Submit(name, d)
  \/ \E name \in Names(memory) : RemoveWorkspace(name)
  \/ Edit \/ SoftRefresh
  \/ \E i \in DOMAIN sessions : ContainerEnds(i)

Spec == Init /\ [][Next]_vars

\* A client and an edit go on; the event loop takes what it is asked.
FairSpec ==
  Spec /\ WF_vars(Edit) /\ \A c \in Client : WF_vars(Run(c)) /\ SF_vars(TakeLaunch(c))

-----------------------------------------------------------------------------
(* Properties *)

\* What the manager goes by names no workspace twice, whatever was written into
\* the file: a launch finds its workspace by name (load.rs:858, launch.rs:162).
MemoryIsSound == Cardinality(Names(memory)) = Len(memory)

\* Every variable has its type, and the configuration in memory is sound.
TypeOK ==
  /\ file.rest \in BOOLEAN /\ Range(file.blocks) \cup Range(memory) \subseteq Block
  /\ rules \in [Dir -> [body : {"none", "own", "starter"}, template : Template \cup {None}]]
  /\ Range(sessions) \subseteq Block /\ Len(sessions) <= Cardinality(Client)
  /\ \A c \in Client : ws[c].at \in {"start", "matched", "append", "write", "added",
                                   "ask", "attached", "failed"}
  /\ loop.at \in {"idle", "read", "write", "drop", "truncate", "fill", "reload"}
  /\ history.kept \subseteq history.ever /\ history.ever \subseteq Block
  /\ MemoryIsSound

\* As long as every edit was made from the file as it was, the file can be
\* loaded, and holds what was added and not removed; and the configuration in
\* memory is sound all the time.
FileKeepsEdits ==
  /\ TypeOK
  /\ loop.at # "fill" /\ ~history.overtaken =>
       Valid(file) /\ Range(file.blocks) = history.kept

\* "Advisory lock co-located with the config so two harness processes
\* serialize" (load.rs:1066): no process undoes what another has added.
AddedIsNotLost ==
  loop.at # "fill" => history.kept \subseteq Range(file.blocks)

\* The container a client ends in has its directory, unless one name has stood
\* for two directories.
EndsWhereAsked ==
  \A c \in Client :
    ws[c].at = "attached" =>
      \/ <<Cwd[c], ws[c].dir>> \in Within
      \/ \E b1, b2 \in history.ever : b1.name = b2.name /\ b1.dir # b2.dir

\* Every run of `hat ws` comes to an end: in a container or with an error.
ClientsEnd == \A c \in Client : <>(ws[c].at \in {"attached", "failed"})

=============================================================================
