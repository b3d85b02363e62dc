------------------------------- MODULE Launch -------------------------------
(***************************************************************************)
(* What a session is launched with: the image of its template, its number, *)
(* its mounts, the private copies it gets in place of files of the host,   *)
(* and the login that is put in its environment.                           *)
(*                                                                         *)
(* A path is the sequence of its names and the contents of a file are the  *)
(* set of what is in it, so that one sees who has written to it.  Of the   *)
(* environment only what carries a login is here.  The phases of a launch  *)
(* and what becomes of one that fails are those of SessionLife.            *)
(***************************************************************************)
EXTENDS Naturals, Sequences, FiniteSets, Lists, FiniteSetsExt

CONSTANTS
  Session,
  Label,        \* the names paths are made of
  Workspace,    \* paths of workspaces on the host
  Dockerfile,   \* dockerfiles found below each workspace
  Profile,      \* defaults and profile, as the configuration has them
  HostFile,     \* files of the host a template may mount
  HostDir,      \* directories of the host a template may mount
  HostEnv,      \* environments harness-hat may have been started in
  Probe,        \* files of a container its session writes
  Missing,      \* contents of a file that does not exist
  NoPath,
  Unset,
  MaxUserEdits  \* bound: what the user does to files of the host

Secret == {"TOKEN", "API_KEY", "AUTH_TOKEN"}
EnvName == Secret \cup {"MARKER", "SCOPES"}
Config == <<"coder", ".claude.json">>     \* CLAUDE_CONFIG_CONTAINER_PATH
Settings == <<"coder", ".claude", "settings.json">>

Trace == {"host", "oauth", "refresh", "keychain", "onboarded"}   \* what a file holds

Contents == SUBSET (Session \cup Trace)
Path == Seq(Label) \ {<<>>}
Mount == [host : Path, container : Path, mode : {"ro", "rw"}, seed : {"unset", "yes", "no"}]

ASSUME LaunchAssumption ==
  /\ Range(Config) \cup Range(Settings) \cup {"hostdo"} \subseteq Label
  /\ HostFile \cap HostDir = {} /\ HostFile \cup HostDir \cup Workspace \cup Probe \subseteq Path
  /\ IsFiniteSet(Session) /\ Session \cap Trace = {}
  /\ \A contents \in Contents : contents # Missing
  /\ \A env \in HostEnv : DOMAIN env \subseteq EnvName
  /\ \A t \in Profile :
       /\ {t.defaults, t.state, t.profile} \subseteq Seq(Mount)
       /\ t.settings \in Path \cup {NoPath} /\ t.target \in Path
       /\ DOMAIN t.env \subseteq EnvName /\ t.passthrough \subseteq EnvName
  /\ MaxUserEdits \in Nat

VARIABLES
  host,       \* the files of the host
  hostEnv,    \* the environment of harness-hat
  keychain,   \* a login is found in the keychain (macOS)
  image,      \* the dockerfile each tag was built from, last
  last,       \* LAST_SESSION_ALIAS
  session,    \* what each session was launched with
  userEdits

launchVars == <<host, hostEnv, keychain, image, last, session, userEdits>>

-----------------------------------------------------------------------------
(* Templates *)

\* A later layer takes the place of what an earlier one mounts there.
WithMount(ms, m) ==
  IF \E i \in DOMAIN ms : ms[i].container = m.container
  THEN [i \in DOMAIN ms |-> IF ms[i].container = m.container THEN m ELSE ms[i]]
  ELSE Append(ms, m)

\* merge_mounts, from the first layer to the last.
Merged(layers) ==
  LET merged[n \in 0 .. Len(layers)] == IF n = 0 THEN <<>> ELSE WithMount(merged[n - 1], layers[n])
  IN  merged[Len(layers)]

\* shared_session_state_mounts leaves out what the host does not have.
Exists(p) == p \in HostDir \/ (p \in HostFile /\ host[p] # Missing)
Mounts(t) == Merged(t.defaults \o Keeping(t.state, {m \in Range(t.state) : Exists(m.host)}) \o t.profile)

\* Only the last name of the workspace's path is in the tag.
Tag(w, d) == <<Last(w), d>>

-----------------------------------------------------------------------------
(* Logins *)

NonEmpty(env, name) == name \in DOMAIN env /\ env[name] # "empty"

\* has_nonempty_env_source
Given(t, name) == NonEmpty(t.env, name) \/ (name \in t.passthrough /\ NonEmpty(hostEnv, name))

\* The keychain is for those who give no login themselves.
Injected(t) == keychain /\ \A name \in Secret : ~Given(t, name)

\* Mutant: any login that is given counts as the token.
AnyAvailable(t) == Injected(t) \/ \E name \in Secret : Given(t, name)

\* The token of the environment is what logs in.
TokenAvailable(t) == Injected(t) \/ Given(t, "TOKEN")

\* What a later line of the file sets counts, and -e counts over the file,
\* for what neither the template nor the terminal sets.
Environment(t) ==
  LET passed == {n \in t.passthrough \ DOMAIN t.env : n \in DOMAIN hostEnv}
      added == {n \in {"MARKER", "SCOPES"} : TokenAvailable(t) /\ (Injected(t) \/ ~Given(t, n))}
      token == IF Injected(t) THEN {"TOKEN"} ELSE {}
  IN  [n \in passed \cup added \cup token \cup DOMAIN t.env |->
         IF n \in passed THEN hostEnv[n] ELSE IF n \in added THEN "added"
         ELSE IF n \in token THEN "keychain" ELSE t.env[n]]

-----------------------------------------------------------------------------
(* Private copies *)

IsSeeded(m) == IF m.seed = "unset" THEN Last(m.container) = ".claude.json" ELSE m.seed = "yes"

\* ensure_claude_interactive_onboarding and inject_keychain_credentials
Onboarded(c) == (c \ {"oauth", "refresh", "keychain"}) \cup {"onboarded"}
WithKeychain(c) == IF keychain THEN (c \ {"oauth", "refresh"}) \cup {"keychain"} ELSE c

\* What is copied for the session, if anything is.
Copy(m, token) ==
  LET config == Last(m.container) = ".claude.json"
      emptied == token /\ Last(m.container) = ".credentials.json"
      isFile == m.host \in HostFile /\ host[m.host] # Missing
      contents == IF isFile /\ ~emptied THEN host[m.host] ELSE {}
  IN  IF ~(IsSeeded(m) \/ emptied \/ (token /\ config)) \/ ~(isFile \/ emptied \/ (token /\ config))
      THEN Missing
      ELSE IF ~config THEN contents
      ELSE IF token THEN Onboarded(contents) ELSE WithKeychain(contents)

-----------------------------------------------------------------------------
(* Mounts *)

Bind(source, target, mode) == [source |-> source, target |-> target, mode |-> mode]
Private(target) == <<"private", target>>
OnHost(p) == <<"host", p>>

\* Directories come before what is nested in them.
Inserted(ms, m) ==
  LET deeper == {r \in Range(ms) : Len(r.container) > Len(m.container)}
  IN  Keeping(ms, Range(ms) \ deeper) \o <<m>> \o Keeping(ms, deeper)
ByDepth(ms) ==
  LET sorted[n \in 0 .. Len(ms)] == IF n = 0 THEN <<>> ELSE Inserted(sorted[n - 1], ms[n])
  IN  sorted[Len(ms)]

\* Mutant: the shim takes the mode of the mount.
BindsAlike(m, token) ==
  IF Copy(m, token) # Missing THEN <<Bind(Private(m.container), m.container, m.mode)>>
  ELSE IF ~Exists(m.host) THEN <<>>
  ELSE <<Bind(OnHost(m.host), m.container, m.mode), Bind(OnHost(m.host), m.host, m.mode)>>

\* What is shared is also to be found, read-only, where the host has it.
Binds(m, token) ==
  IF Copy(m, token) # Missing THEN <<Bind(Private(m.container), m.container, m.mode)>>
  ELSE IF ~Exists(m.host) THEN <<>>
  ELSE IF m.host = m.container THEN <<Bind(OnHost(m.host), m.container, m.mode)>>
  ELSE <<Bind(OnHost(m.host), m.container, m.mode), Bind(OnHost(m.host), m.host, "ro")>>

SettingsMount(t) ==
  IF t.settings = NoPath THEN <<>>
  ELSE <<[host |-> t.settings, container |-> Settings, mode |-> "rw", seed |-> "yes"]>>

AllMounts(t) == ByDepth(Mounts(t) \o SettingsMount(t))

\* Nobody is asked to log in who brings a token, file or no file.
Onboarding(t) ==
  IF TokenAvailable(t) /\ \A i \in DOMAIN AllMounts(t) : AllMounts(t)[i].container # Config
  THEN <<Bind(Private(Config), Config, "rw")>> ELSE <<>>

Plan(w, t) ==
  LET ms == AllMounts(t)
  IN  <<Bind(OnHost(w), t.target, "rw"), Bind(Private(<<"hostdo">>), <<"hostdo">>, "ro")>>
        \o FlattenSeq([i \in DOMAIN ms |-> Binds(ms[i], TokenAvailable(t))]) \o Onboarding(t)

Copies(t) ==
  LET ms == AllMounts(t)
      own == {i \in DOMAIN ms : Copy(ms[i], TokenAvailable(t)) # Missing}
      copied == {ms[i].container : i \in own}
  IN  [p \in copied \cup {b.target : b \in Range(Onboarding(t))} |->
         IF p \in copied THEN Copy(ms[CHOOSE i \in own : ms[i].container = p], TokenAvailable(t))
         ELSE {"onboarded"}]

\* Docker refuses two mounts in one place, and applies the others in order.
Accepted(binds) == \A i, j \in DOMAIN binds : binds[i].target = binds[j].target => i = j
Over(binds, p) == {i \in DOMAIN binds : IsPrefix(binds[i].target, p)}
Resolved(binds, p) == binds[Max(Over(binds, p))]
Rest(dir, p) == SubSeq(p, Len(dir) + 1, Len(p))
Inside(b, p) == b.source[2] \o Rest(b.target, p)

-----------------------------------------------------------------------------
(* Sessions *)

NotLaunched ==
  [phase |-> "none", workspace |-> Unset, dockerfile |-> Unset, built |-> Unset, template |-> Unset,
   alias |-> 0, binds |-> <<>>, copies |-> <<>>, env |-> <<>>]

Running == {s \in Session : session[s].phase = "running"}   \* docker ps
Existing == {s \in Session : session[s].phase \in {"created", "running"}}

\* Mutant: a container that is created and does not run yet is forgotten.
NextListed == Max({0} \cup {session[s].alias : s \in Running}) + 1

\* next_session_alias
NextAlias == Max({last} \cup {session[s].alias : s \in Running}) + 1

LaunchInit ==
  /\ host = [f \in HostFile |-> {"oauth", "refresh"}]
  /\ hostEnv \in HostEnv
  /\ keychain \in BOOLEAN
  /\ image = [tag \in {Tag(w, d) : w \in Workspace, d \in Dockerfile} |-> Unset]
  /\ last = 0 /\ userEdits = 0
  /\ session = [s \in Session |-> NotLaunched]

\* The image of a template is built where there is none.
Build(w, d) ==
  /\ image[Tag(w, d)] = Unset
  /\ image' = [image EXCEPT ![Tag(w, d)] = <<w, d>>]
  /\ UNCHANGED <<host, hostEnv, keychain, last, session, userEdits>>

\* spawn, until docker is started.
Spawn(s, w, d, t) ==
  /\ session[s].phase = "none"
  /\ \A r \in Session : session[r].phase # "starting"
  /\ image[Tag(w, d)] # Unset
  /\ last' = NextAlias
  /\ session' = [session EXCEPT ![s] =
       [phase |-> "starting", workspace |-> w, dockerfile |-> d, built |-> image[Tag(w, d)],
        template |-> t, alias |-> NextAlias, binds |-> Plan(w, t), copies |-> Copies(t),
        env |-> Environment(t)]]
  /\ UNCHANGED <<host, hostEnv, keychain, image, userEdits>>

\* Docker has written the identifier: the launch is over.
Adopt(s) ==
  /\ session[s].phase = "starting" /\ Accepted(session[s].binds)
  /\ session' = [session EXCEPT ![s].phase = "created"]
  /\ UNCHANGED <<host, hostEnv, keychain, image, last, userEdits>>

\* DockerRunRollback.  The private copies are dropped.
RollBack(s) ==
  /\ session[s].phase = "starting"
  /\ session' = [session EXCEPT ![s] = [NotLaunched EXCEPT !.phase = "gone"]]
  /\ UNCHANGED <<host, hostEnv, keychain, image, last, userEdits>>

Runs(s) ==
  /\ session[s].phase = "created"
  /\ session' = [session EXCEPT ![s].phase = "running"]
  /\ UNCHANGED <<host, hostEnv, keychain, image, last, userEdits>>

\* The session writes a file, which is then its own or one of the host.
Writes(s, p) ==
  /\ session[s].phase = "running" /\ Over(session[s].binds, p) # {}
  /\ LET b == Resolved(session[s].binds, p)
         file == Inside(b, p)
     IN  /\ b.mode = "rw"
         /\ \/ /\ b.source = Private(p)
               /\ session' = [session EXCEPT ![s].copies[p] = @ \cup {s}]
               /\ UNCHANGED host
            \/ /\ b.source[1] = "host" /\ file \in HostFile
               /\ host' = [host EXCEPT ![file] = (IF @ = Missing THEN {} ELSE @) \cup {s}]
               /\ UNCHANGED session
  /\ UNCHANGED <<hostEnv, keychain, image, last, userEdits>>

\* The user works on the host and writes a file there, or deletes it.
HostWrites(f) ==
  /\ userEdits < MaxUserEdits
  /\ userEdits' = userEdits + 1
  /\ \E c \in {Missing, {"host"}, {"host", "oauth", "refresh"}} : host' = [host EXCEPT ![f] = c]
  /\ UNCHANGED <<hostEnv, keychain, image, last, session>>

Exits(s) ==
  /\ session[s].phase \in {"created", "running"}
  /\ session' = [session EXCEPT ![s] = [NotLaunched EXCEPT !.phase = "gone"]]
  /\ UNCHANGED <<host, hostEnv, keychain, image, last, userEdits>>

LaunchNext ==
  \/ \E w \in Workspace, d \in Dockerfile :
       \/ Build(w, d)
       \/ \E s \in Session, t \in Profile : Spawn(s, w, d, t)
  \/ \E s \in Session : Adopt(s) \/ RollBack(s) \/ Runs(s) \/ Exits(s) \/ \E p \in Probe : Writes(s, p)
  \/ \E f \in HostFile : HostWrites(f)

LaunchSpec == LaunchInit /\ [][LaunchNext]_launchVars

-----------------------------------------------------------------------------
(* Configurations the results are about *)

\* The last names of the workspaces tell them apart.
NamesDiffer == \A w, v \in Workspace : Last(w) = Last(v) => w = v

\* A mount that is in another place has another source: this is about those
\* that may show the host's file or directory itself.
Shown(m) == m.host \in HostDir \/ ~IsSeeded(m)
PlacesDiffer ==
  \A t \in Profile :
    LET layered == Range(t.defaults \o t.state \o t.profile)
        all == layered \cup Range(SettingsMount(t))
    IN  /\ t.target \notin {<<"hostdo">>, Config}
        /\ t.settings # NoPath => \A m \in layered : m.container # Settings
        /\ \A m \in all :
             /\ m.container \notin {t.target, <<"hostdo">>}
             /\ Shown(m) /\ m.host # m.container => m.host \notin {t.target, <<"hostdo">>, Config}
        /\ \A m, n \in all :
             m.container # n.container /\ Shown(m)
               => m.host # n.container /\ (Shown(n) => m.host # n.host)

\* What has a private copy and lies in a directory that is mounted writable, or
\* in the workspace, has its copy where that shows it.
MayBeCopied(m) == IsSeeded(m) \/ Last(m.container) \in {".claude.json", ".credentials.json"}
CopiesMirror ==
  \A t \in Profile :
    LET all == Range(t.defaults \o t.state \o t.profile) \cup Range(SettingsMount(t))
    IN  \A m, copied \in all : MayBeCopied(copied) /\ m.container = copied.container =>
          /\ \A w \in Workspace :
               IsPrefix(w, m.host) => m.container = t.target \o Rest(w, m.host)
          /\ \A n \in all : Shown(n) /\ n.mode = "rw" /\ IsPrefix(n.host, m.host)
               => m.container = n.container \o Rest(n.host, m.host)

\* A token that is passed on is not empty where it is set.
TokensAreGiven ==
  \A t \in Profile : "TOKEN" \in t.passthrough =>
    \A env \in HostEnv \cup {t.env} : "TOKEN" \in DOMAIN env => env["TOKEN"] # "empty"

-----------------------------------------------------------------------------
(* Properties *)

\* What a plan mentions is there, and no two mounts of a plan are in one
\* place: docker would refuse the container (load.rs, merge_mounts).
LaunchTypeOK ==
  /\ host \in [HostFile -> {Missing} \cup Contents]
  /\ userEdits \in 0 .. MaxUserEdits
  /\ last \in 0 .. Cardinality(Session)
  /\ \A s \in Session :
       /\ session[s].phase \in {"none", "starting", "created", "running", "gone"}
       /\ session[s].alias \in 0 .. last
       /\ Accepted(session[s].binds)
       /\ \A i \in DOMAIN session[s].binds :
            LET b == session[s].binds[i]
            IN  b.source[1] = "private" => b.target \in DOMAIN session[s].copies \cup {<<"hostdo">>}

\* A session that was given a copy of a file never writes the host's, by
\* whatever path it comes: neither through the directory the file is in nor
\* through the path that shows it where the host has it (spawn.rs,
\* seed_private_mount and mount_bind_args).
SeededStaysPrivate ==
  \A s \in Existing : \A m \in Range(AllMounts(session[s].template)) :
    m.container \in DOMAIN session[s].copies /\ m.host \in HostFile
      => host[m.host] = Missing \/ s \notin host[m.host]

\* A session whose configuration was made for the login by token has the
\* token; and beside the token no copy holds the host's own login, which
\* Claude would prefer (spawn.rs, the environment and seed_private_mount).
LoginIsWhole ==
  \A s \in Existing :
    LET token == NonEmpty(session[s].env, "TOKEN")
        copies == session[s].copies
    IN  /\ (\E p \in DOMAIN copies : "onboarded" \in copies[p]) => token /\ "MARKER" \in DOMAIN session[s].env
        /\ token => \A p \in DOMAIN copies :
                      Last(p) \in {".claude.json", ".credentials.json"}
                        => copies[p] \cap {"oauth", "refresh", "keychain"} = {}

\* A session runs the image that was built from the dockerfile it was
\* launched from, and its number is that of no other (load.rs,
\* local_image_stem; spawn.rs, allocate_session_alias); and docker accepts its
\* mounts.
OwnImageAndNumber ==
  /\ LaunchTypeOK
  /\ \A s \in Existing :
       /\ session[s].built = <<session[s].workspace, session[s].dockerfile>>
       /\ \A r \in Existing : session[r].alias = session[s].alias => r = s

\* A login that is given in the environment leaves the keychain out
\* (CHANGELOG.md:270).  The key of an API does not: the copies take the
\* keychain's login all the same.
KeychainIsFallback ==
  \A s \in Existing :
    (\E name \in Secret : Given(session[s].template, name))
      => \A p \in DOMAIN session[s].copies : "keychain" \notin session[s].copies[p]

=============================================================================
