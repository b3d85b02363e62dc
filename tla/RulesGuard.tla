----------------------------- MODULE RulesGuard -----------------------------
(***************************************************************************)
(* The rules guard of the manager: which versions of the rules files are   *)
(* trusted, which files are blocked, how the watcher of the event loop     *)
(* raises an alert, how an alert is reviewed, how the manager itself       *)
(* rewrites a file, and how a policy decision (hostdo or proxy) checks the *)
(* guard, loads the rules and checks the guard again.                      *)
(*                                                                         *)
(* A file's contents are a set of rules, or Missing, or Malformed (no      *)
(* fingerprint: not UTF-8, not TOML, not a regular file).  hist[f] is the  *)
(* sequence of contents f has had; its length stands for the modification  *)
(* time, so equal contents written at different times have different       *)
(* stamps.  SHA-256 is taken to be injective.                              *)
(***************************************************************************)
EXTENDS Naturals, Sequences

CONSTANTS
  Workspace,           \* workspaces; each one also names its rules file
  GlobalFile,          \* the global rules file
  Rule,                \* rule entries a file can hold
  NoFile,              \* no alert, no dialog, no launch
  InitBodies,          \* the contents a file may have when the manager starts
  EditBodies,          \* the contents an editor outside the manager writes
  Remembered,          \* the entries a remembered decision may add
  HostRules,           \* the entries (template choices) the hat client adds
  Configs,             \* the workspaces a configuration on disk may list
  MaxRefreshes,        \* bound: how often the daemon is told to refresh
  Request,             \* policy decisions
  TrustTargets,        \* the files `hat rules trust` may be asked to trust
  MaxVersions          \* bound: versions of each file

File == Workspace \union {GlobalFile}

\* The contents of a file: rule entries, no file, or bytes without fingerprint.
Holding(rules) == [kind |-> "rules", rules |-> rules]
Missing == [kind |-> "missing", rules |-> {}]
Malformed == [kind |-> "malformed", rules |-> {}]
NoBody == [kind |-> "none", rules |-> {}]
Body == {Holding(rules) : rules \in SUBSET Rule} \union {Missing, Malformed}

ASSUME RulesGuardAssumption ==
  /\ GlobalFile \notin Workspace
  /\ NoFile \notin File
  /\ InitBodies \subseteq Body /\ EditBodies \subseteq Body
  /\ Remembered \subseteq Rule /\ HostRules \subseteq Rule
  /\ Configs \subseteq SUBSET Workspace
  /\ MaxRefreshes \in Nat
  /\ TrustTargets \subseteq File
  /\ MaxVersions \in [File -> Nat]

VARIABLES
  hist,      \* every contents each file has had, the present one last
  config,    \* workspaces of the configuration in force
  guard,     \* per file: the trusted fingerprint and the blocked flag
  vouched,   \* contents of each file that have been trusted (history)
  request,   \* the policy decisions
  baseline,  \* stamps the watcher compares a scan with
  inFlight,  \* the watcher takes a scan thread to be running
  scan,      \* the scan threads
  note,      \* the manager's own writes the watcher has yet to meet
  review,    \* the rules-change alert that waits for the user
  dialog,    \* the system dialog on screen
  app,       \* a handler of the event loop between two file accesses
  hostWrite, \* a rules file the hat client rewrote for the launch it asks for
  own,       \* contents the client and the manager wrote themselves (history)
  refreshes  \* refreshes so far (history)

vars == <<hist, config, guard, vouched, request, baseline, inFlight, scan,
          note, review, dialog, app, hostWrite, own, refreshes>>
watchVars == <<baseline, inFlight, scan, note>>
alertVars == <<review, dialog>>
hostVars == <<hostWrite, own, refreshes>>

Thread == {1, 2}  \* a refresh forgets the thread that runs: one more can start

Current(f) == hist[f][Len(hist[f])]
Gen(f) == Len(hist[f])
Room(f) == Gen(f) < MaxVersions[f]
Write(f, b) == hist' = [hist EXCEPT ![f] = Append(@, b)]

AnyBody == Body \union {NoBody}
AnyFile == File \union {NoFile}
Entry == [trusted : AnyBody, blocked : BOOLEAN]
Gens == [File -> Nat]  \* a version, or a stamp, of each file

\* The values of the variables.
Histories == {h \in [File -> Seq(Body)] : \A f \in File : h[f] # <<>>}
Guards == [File -> Entry]
Vouchers == [File -> SUBSET Body]  \* of vouched, and of own
Requests == [pc : {"new", "begun", "checked", "loaded", "decided", "refused"},
             ws : Workspace \union {NoFile}, cfg : SUBSET Workspace,
             first : Gens, read : Gens, second : Gens]
Scans == [Thread -> [todo : SUBSET File, stamps : Gens, on : BOOLEAN]]
Notes == [File -> [body : AnyBody, fresh : BOOLEAN]]
Reviews == [file : AnyFile, expected : AnyBody, dismissed : BOOLEAN]
Dialogs == [file : AnyFile, shown : AnyBody, answer : {"none", "allow", "deny"}]
Handlers == [op : {"idle", "restamp", "checked", "loaded", "written"},
             file : AnyFile, rules : SUBSET Rule]
HostWrites == [file : Workspace \union {NoFile}, body : AnyBody]

-----------------------------------------------------------------------------
(* The guard *)

Watched(cfg) == cfg \union {GlobalFile}
FilesFor(cfg, w) == {GlobalFile} \union ({w} \cap cfg)

Open(b) == [trusted |-> b, blocked |-> FALSE]
Closed == [trusted |-> NoBody, blocked |-> TRUE]

\* The file has a fingerprint, it is the trusted one, and nothing blocks it.
Intact(g, f) == /\ Current(f) # Malformed
                /\ ~g[f].blocked
                /\ g[f].trusted = Current(f)

\* Mutant: the flag alone decides, the file is not fingerprinted again.
PassesByFlag(g, cfg, w) == \A f \in FilesFor(cfg, w) : ~g[f].blocked
\* The check passes; otherwise it blocks the first file that fails and stops.
Passes(g, cfg, w) == \A f \in FilesFor(cfg, w) : Intact(g, f)
Ensure(g, cfg, w) ==
  IF Passes(g, cfg, w) THEN g
  ELSE [g EXCEPT ![IF Intact(g, GlobalFile) THEN w ELSE GlobalFile].blocked
                   = TRUE]

Block(g, f) == [g EXCEPT ![f].blocked = TRUE]
Vouch(f, b) == vouched' = [vouched EXCEPT ![f] = @ \union {b}]
Wrote(f, b) == own' = [own EXCEPT ![f] = @ \union {b}]

\* `hat rules status`, and the end of an explicit trust: a change no scan has
\* met yet is reported as blocked, and blocks from then on.
RulesStatus(g, cfg) ==
  [f \in File |-> IF f \in Watched(cfg) /\ ~Intact(g, f)
                    THEN [g[f] EXCEPT !.blocked = TRUE] ELSE g[f]]

-----------------------------------------------------------------------------
(* The watcher's stamps.  A missing file has one and the same stamp.       *)

NoStamp == 0
Stamp(f) == IF Current(f) = Missing THEN 1 ELSE Gen(f) + 1
\* Mutant: files that are not watched have no entry.
RestampWatched(cfg) == [f \in Watched(cfg) |-> Stamp(f)]
Restamp(cfg) == [f \in File |-> IF f \in Watched(cfg) THEN Stamp(f)
                                                      ELSE NoStamp]
Stamped(s, f) == [s EXCEPT !.todo = @ \ {f}, !.stamps[f] = Stamp(f)]
NoScan == [todo |-> {}, stamps |-> [f \in File |-> NoStamp], on |-> FALSE]
NoNote == [body |-> NoBody, fresh |-> FALSE]

NoReview == [file |-> NoFile, expected |-> NoBody, dismissed |-> TRUE]
NoDialog == [file |-> NoFile, shown |-> NoBody, answer |-> "none"]
Idle == [op |-> "idle", file |-> NoFile, rules |-> {}]
NoWrite == [file |-> NoFile, body |-> NoBody]

Unseen == [f \in File |-> 0]
NewRequest == [pc |-> "new", ws |-> NoFile, cfg |-> {}, first |-> Unseen,
               read |-> Unseen, second |-> Unseen]

Init ==
  /\ hist \in [File -> {<<b>> : b \in InitBodies}]
  /\ config \in Configs
  /\ guard = [f \in File |-> IF f \in Watched(config) /\ Current(f) # Malformed
                               THEN Open(Current(f)) ELSE Closed]
  /\ vouched = [f \in File |-> IF guard[f].blocked THEN {} ELSE {Current(f)}]
  /\ request = [q \in Request |-> NewRequest]
  /\ baseline = Restamp(config)
  /\ inFlight = FALSE
  /\ scan = [t \in Thread |-> NoScan]
  /\ note = [f \in File |-> NoNote]
  /\ review = NoReview
  /\ dialog = NoDialog
  /\ app = Idle
  /\ hostWrite = NoWrite
  /\ own = [f \in File |-> {}]
  /\ refreshes = 0

-----------------------------------------------------------------------------
(* Outside the manager: an editor, and the hat client on the host          *)

Edit(f, b) ==
  /\ Room(f) /\ b # Current(f)
  /\ Write(f, b)
  /\ UNCHANGED <<config, guard, vouched, request, watchVars, alertVars, app,
                 hostVars>>

\* The client stores the chosen template in the file as it finds it, then asks
\* the manager for a launch with the digest of what it wrote.
SaveTemplate(w, r) ==
  /\ hostWrite = NoWrite
  /\ Room(w) /\ Current(w) # Malformed
  /\ r \notin Current(w).rules
  /\ LET new == Holding(Current(w).rules \union {r}) IN
     /\ Write(w, new) /\ Wrote(w, new)
     /\ hostWrite' = [file |-> w, body |-> new]
  /\ UNCHANGED <<config, guard, vouched, request, watchVars, alertVars, app,
                 refreshes>>

-----------------------------------------------------------------------------
(* Policy decisions: each runs in a task of its own                        *)

Begin(q, w) ==
  /\ request[q].pc = "new"
  /\ w \in config
  /\ request' = [request EXCEPT ![q].pc = "begun", ![q].ws = w,
                                ![q].cfg = config]
  /\ UNCHANGED <<hist, config, guard, vouched, watchVars, alertVars, app,
                 hostVars>>

GensOf(files) == [f \in File |-> IF f \in files THEN Gen(f) ELSE 0]

FirstCheck(q) ==
  LET r == request[q] IN
  /\ r.pc = "begun"
  /\ guard' = Ensure(guard, config, r.ws)
  /\ request' = [request EXCEPT ![q] =
       IF Passes(guard, config, r.ws)
         THEN [r EXCEPT !.pc = "checked",
                        !.first = GensOf(FilesFor(config, r.ws))]
         ELSE [r EXCEPT !.pc = "refused"]]
  /\ UNCHANGED <<hist, config, vouched, watchVars, alertVars, app, hostVars>>

\* The rules are composed from the configuration the request began with.
LoadRules(q) ==
  LET r == request[q]
      files == FilesFor(r.cfg, r.ws) IN
  /\ r.pc = "checked"
  /\ request' = [request EXCEPT ![q] =
       IF \E f \in files : Current(f) = Malformed
         THEN [r EXCEPT !.pc = "refused"]
         ELSE [r EXCEPT !.pc = "loaded", !.read = GensOf(files)]]
  /\ UNCHANGED <<hist, config, guard, vouched, watchVars, alertVars, app,
                 hostVars>>

SecondCheck(q) ==
  LET r == request[q] IN
  /\ r.pc = "loaded"
  /\ guard' = Ensure(guard, config, r.ws)
  /\ request' = [request EXCEPT ![q] =
       IF Passes(guard, config, r.ws)
         THEN [r EXCEPT !.pc = "decided",
                        !.second = GensOf(FilesFor(config, r.ws))]
         ELSE [r EXCEPT !.pc = "refused"]]
  /\ UNCHANGED <<hist, config, vouched, watchVars, alertVars, app, hostVars>>

-----------------------------------------------------------------------------
(* The watcher *)

AppIdle == app.op = "idle"
NextThread == CHOOSE t \in Thread : ~scan[t].on

\* One poll: forget files no longer watched and notes that expired, then start
\* a scan thread unless one is taken to be running.
Poll ==
  /\ AppIdle
  /\ LET kept == [f \in File |-> IF f \in Watched(config) /\ note[f].fresh
                                   THEN note[f] ELSE NoNote] IN
     /\ note' = kept
     /\ baseline' = [f \in File |-> IF f \in Watched(config) THEN baseline[f]
                                                             ELSE NoStamp]
     /\ \/ inFlight /\ UNCHANGED <<inFlight, scan>>
        \/ /\ ~inFlight
           /\ inFlight' = TRUE
           /\ \E t \in Thread :
                /\ ~scan[t].on /\ t = NextThread
                /\ scan' = [scan EXCEPT ![t] = [todo |-> Watched(config),
                              stamps |-> [f \in File |-> NoStamp],
                              on |-> TRUE]]
  /\ UNCHANGED <<hist, config, guard, vouched, request, alertVars, app,
                 hostVars>>

\* A thread stamps one file after another.
ScanFile(t, f) ==
  /\ f \in scan[t].todo
  /\ scan' = [scan EXCEPT ![t] = Stamped(@, f)]
  /\ UNCHANGED <<hist, config, guard, vouched, request, baseline, inFlight,
                 note, alertVars, app, hostVars>>

\* Time passes: the manager's note of its own write is too old to be believed.
NoteExpires(f) ==
  /\ note[f].fresh
  /\ note' = [note EXCEPT ![f].fresh = FALSE]
  /\ UNCHANGED <<hist, config, guard, vouched, request, baseline, inFlight,
                 scan, alertVars, app, hostVars>>

\* Mutant: only the first changed file of a scan is handled.
ChangedFirst(t) ==
  LET all == {f \in File : /\ scan[t].stamps[f] # NoStamp
                           /\ baseline[f] # NoStamp
                           /\ scan[t].stamps[f] # baseline[f]} IN
  IF GlobalFile \in all THEN {GlobalFile} ELSE all

\* The files whose stamp differs from the baseline; a file the watcher had no
\* stamp of is only recorded.
Changed(t) == {f \in File : /\ scan[t].stamps[f] # NoStamp
                            /\ baseline[f] # NoStamp
                            /\ scan[t].stamps[f] # baseline[f]}
OwnWrite(f) == note[f].fresh /\ Current(f) = note[f].body
Alerts(t) == {f \in Changed(t) : ~OwnWrite(f)}

\* What the alert shows; a file that cannot be read is shown as missing.
Shown(f) == {Current(f)} \union (IF Current(f) = Malformed THEN {Missing} ELSE {})
Alert(f, shown) == [file |-> f, expected |-> shown, dismissed |-> FALSE]

\* The event loop applies a finished scan.  There is one alert at a time: the
\* file reported last replaces the others.  No alert comes when nothing changed,
\* or when no approval id is left.
ApplyScan(t) ==
  /\ AppIdle
  /\ scan[t].on /\ scan[t].todo = {}
  /\ scan' = [scan EXCEPT ![t] = NoScan]
  /\ inFlight' = FALSE
  /\ baseline' = [f \in File |-> IF scan[t].stamps[f] = NoStamp
                                   THEN baseline[f] ELSE scan[t].stamps[f]]
  /\ note' = [f \in File |-> IF f \in Changed(t) THEN NoNote ELSE note[f]]
  /\ guard' = [f \in File |-> IF f \in Alerts(t) THEN Block(guard, f)[f]
                              ELSE IF f \in Changed(t) THEN Open(note[f].body)
                              ELSE guard[f]]
  /\ vouched' = [f \in File |-> IF f \in Changed(t) \ Alerts(t)
                                  THEN vouched[f] \union {note[f].body}
                                  ELSE vouched[f]]
  /\ \/ UNCHANGED review
     \/ \E last \in Alerts(t) : \E shown \in Shown(last) :
          review' = Alert(last, shown)
  /\ UNCHANGED <<hist, config, request, dialog, app, hostVars>>

-----------------------------------------------------------------------------
(* Review *)

\* Trust the reviewed contents if the file still holds them.
TrustReviewed ==
  LET f == review.file IN
  IF review.expected = Current(f) /\ Current(f) # Malformed
    THEN /\ guard' = [guard EXCEPT ![f] = Open(Current(f))]
         /\ Vouch(f, Current(f))
         /\ review' = NoReview
    ELSE /\ guard' = Block(guard, f)
         /\ review' = [review EXCEPT !.dismissed = FALSE]
         /\ UNCHANGED vouched

DismissReview ==
  /\ guard' = Block(guard, review.file)
  /\ review' = [review EXCEPT !.dismissed = TRUE]
  /\ UNCHANGED vouched

LaunchDialog ==
  /\ AppIdle
  /\ dialog = NoDialog
  /\ ~review.dismissed
  /\ dialog' = [file |-> review.file, shown |-> review.expected,
                answer |-> "none"]
  /\ review' = [review EXCEPT !.dismissed = TRUE]
  /\ UNCHANGED <<hist, config, guard, vouched, request, watchVars, app,
                 hostVars>>

\* The user answers; closing the dialog, or failing to show it, denies.
AnswerDialog(choice) ==
  /\ dialog # NoDialog
  /\ dialog.answer = "none"
  /\ dialog' = [dialog EXCEPT !.answer = choice]
  /\ UNCHANGED <<hist, config, guard, vouched, request, watchVars, review,
                 app, hostVars>>

\* The event loop takes the answer.  It counts if an alert for the same path
\* is waiting, whichever alert the dialog was opened for.
DialogResult ==
  /\ AppIdle
  /\ dialog.answer # "none"
  /\ dialog' = NoDialog
  /\ IF review.file # dialog.file THEN UNCHANGED <<guard, vouched, review>>
     ELSE IF dialog.answer = "allow" THEN TrustReviewed ELSE DismissReview
  /\ UNCHANGED <<hist, config, request, watchVars, app, hostVars>>

\* `hat approvals trust ID`: the ID is that of the alert that waits.
TrustAlert ==
  /\ AppIdle
  /\ review.file # NoFile
  /\ TrustReviewed
  /\ UNCHANGED <<hist, config, request, watchVars, dialog, app, hostVars>>

\* The alert that waits once file f is trusted explicitly.
Settled(f) == IF review.file = f THEN NoReview ELSE review

\* `hat rules trust`: trust the file as it is now ...
TrustTarget(f) ==
  /\ AppIdle
  /\ f \in Watched(config)
  /\ Current(f) # Malformed
  /\ guard' = [guard EXCEPT ![f] = Open(Current(f))]
  /\ Vouch(f, Current(f))
  /\ app' = [Idle EXCEPT !.op = "restamp", !.file = f]
  /\ UNCHANGED <<hist, config, request, watchVars, alertVars, hostVars>>

\* Mutant: the watcher keeps the baseline it had.
TrustTargetDoneOldBaseline ==
  /\ app.op = "restamp"
  /\ note' = [note EXCEPT ![app.file] = NoNote]
  /\ review' = Settled(app.file)
  /\ guard' = RulesStatus(guard, config)
  /\ app' = Idle
  /\ UNCHANGED <<hist, config, vouched, request, baseline, inFlight, scan,
                 dialog, hostVars>>

\* ... then make the file, read again, the watcher's baseline, drop the alert
\* for it, and report the state of every file.
TrustTargetDone ==
  /\ app.op = "restamp"
  /\ baseline' = [baseline EXCEPT ![app.file] = Stamp(app.file)]
  /\ note' = [note EXCEPT ![app.file] = NoNote]
  /\ review' = Settled(app.file)
  /\ guard' = RulesStatus(guard, config)
  /\ app' = Idle
  /\ UNCHANGED <<hist, config, vouched, request, inFlight, scan, dialog,
                 hostVars>>

QueryStatus ==
  /\ AppIdle
  /\ guard' = RulesStatus(guard, config)
  /\ UNCHANGED <<hist, config, vouched, request, watchVars, alertVars, app,
                 hostVars>>

-----------------------------------------------------------------------------
(* The manager's own writes: a decision that is remembered                 *)

\* Approving checks the guard first; only a remembered decision goes on.
ApprovalCheck(w, r) ==
  /\ AppIdle /\ Room(w)
  /\ w \in config
  /\ guard' = Ensure(guard, config, w)
  /\ app' = IF Passes(guard, config, w)
              THEN [op |-> "checked", file |-> w, rules |-> {r}] ELSE Idle
  /\ UNCHANGED <<hist, config, vouched, request, watchVars, alertVars,
                 hostVars>>

\* Load the file, add the entry; nothing is written when it is there already.
RememberLoad ==
  LET old == Current(app.file)
      new == old.rules \union app.rules IN
  /\ app.op = "checked"
  /\ IF old = Malformed \/ app.rules \subseteq old.rules
       THEN app' = Idle /\ UNCHANGED note
       ELSE /\ app' = [app EXCEPT !.op = "loaded", !.rules = new]
            /\ note' = [note EXCEPT ![app.file] = [body |-> Holding(new),
                                                   fresh |-> TRUE]]
  /\ UNCHANGED <<hist, config, guard, vouched, request, baseline, inFlight,
                 scan, alertVars, hostVars>>

RememberWrite ==
  /\ app.op = "loaded"
  /\ Write(app.file, Holding(app.rules)) /\ Wrote(app.file, Holding(app.rules))
  /\ app' = [app EXCEPT !.op = "written"]
  /\ UNCHANGED <<config, guard, vouched, request, watchVars, alertVars,
                 hostWrite, refreshes>>

RememberTrust ==
  /\ app.op = "written"
  /\ IF Current(app.file) = Holding(app.rules)
       THEN /\ guard' = [guard EXCEPT ![app.file] = Open(Current(app.file))]
            /\ Vouch(app.file, Current(app.file))
       ELSE UNCHANGED <<guard, vouched>>
  /\ app' = Idle
  /\ UNCHANGED <<hist, config, request, watchVars, alertVars, hostVars>>

-----------------------------------------------------------------------------
(* Configuration *)

\* A workspace is added or removed in the interface: files that are new to the
\* guard start blocked, which is the state of a file never configured.
ReplaceConfig(cfg) ==
  /\ AppIdle
  /\ cfg # config
  /\ config' = cfg
  /\ UNCHANGED <<hist, guard, vouched, request, watchVars, alertVars, app,
                 hostVars>>

\* `hat daemon restart`: every watched file gets a new baseline, the notes are
\* dropped, and a scan that runs is forgotten but not stopped.
SoftRefresh(cfg) ==
  /\ refreshes < MaxRefreshes /\ refreshes' = refreshes + 1
  /\ AppIdle
  /\ config' = cfg
  /\ baseline' = Restamp(cfg)
  /\ note' = [f \in File |-> NoNote]
  /\ inFlight' = FALSE
  /\ UNCHANGED <<hist, guard, vouched, request, scan, alertVars, app,
                 hostWrite, own>>

\* Mutant: the file is trusted as it is, its digest is not compared.
LaunchUncompared(cfg, ready) ==
  LET w == hostWrite.file
      trusting == [guard EXCEPT ![w] = Open(Current(w))] IN
  /\ AppIdle
  /\ hostWrite # NoWrite
  /\ config' = cfg
  /\ IF w \in cfg /\ Current(w) # Malformed
       THEN /\ guard' = IF ready THEN Ensure(trusting, cfg, w) ELSE trusting
            /\ Vouch(w, Current(w))
       ELSE UNCHANGED <<guard, vouched>>
  /\ hostWrite' = NoWrite
  /\ UNCHANGED <<hist, request, watchVars, alertVars, app, own, refreshes>>

\* The launch the hat client asks for: reload the configuration, trust the
\* file if it is still what the client wrote, and, when the template and its
\* image are there (ready), check the guard before the session starts.
Launch(cfg, ready) ==
  LET w == hostWrite.file
      trusting == [guard EXCEPT ![w] = Open(hostWrite.body)] IN
  /\ AppIdle
  /\ hostWrite # NoWrite
  /\ config' = cfg
  /\ IF w \in cfg /\ Current(w) = hostWrite.body
       THEN /\ guard' = IF ready THEN Ensure(trusting, cfg, w) ELSE trusting
            /\ Vouch(w, hostWrite.body)
       ELSE UNCHANGED <<guard, vouched>>
  /\ hostWrite' = NoWrite
  /\ UNCHANGED <<hist, request, watchVars, alertVars, app, own, refreshes>>

-----------------------------------------------------------------------------
RequestStep(q) == \/ \E w \in Workspace : Begin(q, w)
                  \/ FirstCheck(q) \/ LoadRules(q) \/ SecondCheck(q)
WatchStep == \/ Poll
             \/ \E t \in Thread : \/ \E f \in File : ScanFile(t, f)
                                  \/ ApplyScan(t)
AppStep == TrustTargetDone \/ RememberLoad \/ RememberWrite \/ RememberTrust
UserStep == \/ \E c \in {"allow", "deny"} : AnswerDialog(c)
            \/ TrustAlert \/ QueryStatus
            \/ \E f \in TrustTargets : TrustTarget(f)
            \/ \E w \in Workspace, r \in Remembered : ApprovalCheck(w, r)
ConfigStep == \E cfg \in Configs :
                \/ ReplaceConfig(cfg) \/ SoftRefresh(cfg)
                \/ \E ready \in BOOLEAN : Launch(cfg, ready)
OutsideStep == \/ \E f \in File, b \in EditBodies : Edit(f, b)
               \/ \E w \in Workspace, r \in HostRules : SaveTemplate(w, r)
               \/ \E f \in File : NoteExpires(f)

Next == \/ \E q \in Request : RequestStep(q)
        \/ WatchStep \/ LaunchDialog \/ DialogResult
        \/ AppStep \/ UserStep \/ ConfigStep \/ OutsideStep

Spec == Init /\ [][Next]_vars

\* The event loop ticks forever and its scan threads run: a poll, a scan, the
\* result of a scan, an open handler and the dialogs are never put off forever.
\* Nothing is assumed of the user, of editors or of clients.
Fairness == /\ WF_vars(Poll)
            /\ \A t \in Thread : WF_vars(ApplyScan(t))
            /\ \A t \in Thread, f \in File : WF_vars(ScanFile(t, f))
            /\ WF_vars(AppStep) /\ WF_vars(LaunchDialog) /\ WF_vars(DialogResult)
FairSpec == Spec /\ Fairness

-----------------------------------------------------------------------------
(* Properties *)

\* Each variable holds a value of its kind (the state of RulesFileGuard, of the
\* watcher and of the alert).
TypeOK == /\ hist \in Histories /\ config \in SUBSET Workspace
          /\ guard \in Guards /\ vouched \in Vouchers
          /\ request \in [Request -> Requests]
          /\ baseline \in Gens /\ inFlight \in BOOLEAN
          /\ scan \in Scans /\ note \in Notes
          /\ review \in Reviews /\ dialog \in Dialogs
          /\ app \in Handlers /\ hostWrite \in HostWrites
          /\ own \in Vouchers /\ refreshes \in 0..MaxRefreshes

\* The double check of a decision (ensure, load, ensure again): if a file was
\* written at most once between the two checks, the version the decision was
\* made from is one that had been trusted.
DecisionWindow ==
  \A q \in Request, f \in File :
    LET r == request[q] IN
    /\ r.pc = "decided"
    /\ r.first[f] > 0 /\ r.read[f] > 0 /\ r.second[f] > 0
    /\ r.second[f] <= r.first[f] + 1
    => hist[f][r.read[f]] \in vouched[f]

\* While an alert waits its file is blocked, unless what is trusted is what
\* Harness Hat itself wrote: a template choice launched with, or a remembered
\* decision.  No edit is trusted around its alert by a launch that compares
\* digests, a dialog's late answer, a scan or a write of the manager.
AlertHoldsTheBlock ==
  LET f == review.file IN
  f # NoFile /\ ~(app.op = "restamp" /\ app.file = f)
    => guard[f].blocked \/ guard[f].trusted \in own[f]

\* The user guide, on an alert: decisions "stay blocked until the version shown
\* by the alert is trusted".  A launch opens the file for what its client wrote.
OnlyShownIsTrusted ==
  LET f == review.file IN
  f # NoFile /\ ~(app.op = "restamp" /\ app.file = f)
    => guard[f].blocked \/ guard[f].trusted = review.expected

\* The watcher agrees with what is trusted: the file is intact, its baseline is
\* its stamp, no scan carries an older one, and no alert asks for its review.
NoOlderStamp(f) == \A t \in Thread : scan[t].stamps[f] \in {NoStamp, Stamp(f)}
InLine(f) == /\ Intact(guard, f) /\ NoOlderStamp(f)
             /\ baseline[f] \in {NoStamp, Stamp(f)}
             /\ review.file # f
JustTrusted(f) == app.op = "restamp" /\ app.file = f /\ Intact(guard, f)

\* A file in line stays in line until it is written again, and an explicit trust
\* brings it in line unless a scan already carries an older stamp: no check,
\* report, scan, refresh, launch or review of another file blocks it again.
IntactStaysOpen ==
  [][\A f \in File :
       /\ Gen(f)' = Gen(f)
       /\ \/ InLine(f)
          \/ JustTrusted(f) /\ NoOlderStamp(f) /\ app' = Idle
       => InLine(f)']_vars

\* The changelog, on explicit trust: it "is not immediately blocked again".  A
\* scan that stamped the file before it was trusted blocks it.
TrustIsNotUndone ==
  [][\A f \in File : /\ Intact(guard, f) /\ baseline[f] = Stamp(f)
                     /\ guard'[f].blocked
                     => review.file = f]_vars

\* Allowing in the system dialog trusts the contents of the alert the dialog
\* was opened for, never those of a newer alert.
DialogTrustsItsAlert ==
  [][dialog.answer = "allow" /\ dialog' = NoDialog /\ review' = NoReview
       /\ review # NoReview => review.expected = dialog.shown]_vars

\* A change nobody trusted, and one the watcher has yet to meet.
Unreviewed(f) ==
  f \in Watched(config) /\ Gen(f) > 1 /\ Current(f) \notin vouched[f]
Unnoticed(f) == Unreviewed(f) /\ baseline[f] \notin {NoStamp, Stamp(f)}

\* A change nobody trusted is blocked in the end, whether or not a decision
\* ever looks at the file, unless a refresh comes first: the watcher is enough.
ChangeGetsBlocked ==
  \A f \in File, n \in 0..MaxRefreshes :
    Unnoticed(f) /\ refreshes = n
      ~> (guard[f].blocked \/ ~Unreviewed(f) \/ refreshes # n)

\* The changelog: external changes "now immediately block".  A refresh takes a
\* change the watcher has not met for the baseline, and no alert comes.
EveryChangeIsBlocked ==
  \A f \in File : Unnoticed(f) ~> (guard[f].blocked \/ ~Unreviewed(f))

=============================================================================
