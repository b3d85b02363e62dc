------------------------------- MODULE Policy -------------------------------
(***************************************************************************)
(* What the rules say of a request: the global rules file and that of the  *)
(* workspace are composed anew for each network request and each host      *)
(* command, and a decision the user has remembered is written into the     *)
(* file of the workspace, of which a later request is to be decided.       *)
(*                                                                         *)
(* Files are read and written at one go here, and the user has reviewed    *)
(* what is in them: RulesGuard has the rest.  A rule names one domain; a   *)
(* path is the sequence of its segments, as they are spelled.  Wildcards   *)
(* inside a word, aliases of a host and the reason of a command are left   *)
(* out.                                                                    *)
(***************************************************************************)
EXTENDS Naturals, Sequences, SequencesExt, FiniteSetsExt

CONSTANTS
  Workspace,
  Global,       \* the rules file of all workspaces
  Bodies,       \* what somebody may write into a rules file
  Request,      \* network requests
  Command,      \* host commands: an argv and an image
  Forbidden,    \* commands that invoke hat
  AllowedHost,  \* patterns in allowed_hosts of the template
  Forwarded,    \* host and port of the localhost forwards
  Spelling,     \* what a segment, as it is spelled, decodes to
  Asked,        \* seconds a command is asked to be given
  MaxPending,   \* bound: prompts at a time
  MaxEdits      \* bound: rewrites of rules files

File == Workspace \cup {Global}
Policies == {"auto", "prompt", "deny"}
Seconds == 1 .. 300   \* MAX_HOSTDO_TIMEOUT_SECS

\* What is in a rules file: as it is loaded, a timeout is within its limits.
Host == Seq(STRING)
Port == 1 .. 65535
DomainPattern == [kind : {"any", "sub", "exact"}, of : Host]
NetworkRule ==
  [methods : SUBSET STRING, domain : DomainPattern,
   paths : SUBSET [at : Seq(STRING), below : BOOLEAN], ports : SUBSET Port]
HostdoCommand == [command : Command, mode : Policies, timeout : Seconds]
ProjectRules ==
  [broken : BOOLEAN, allow : SUBSET NetworkRule, deny : SUBSET NetworkRule,
   commands : Seq(HostdoCommand), default : Policies,
   forwards : Seq([inside : Port \cup {0}, outside : Port \cup {0}])]

\* A tunnel has no path.
ASSUME PolicyAssumption ==
  /\ Global \notin Workspace /\ Forbidden \subseteq Command
  /\ Bodies \subseteq ProjectRules
  /\ Request \cap Command = {}
  /\ \A r \in Request :
       /\ r.host \in Host /\ r.port \in Port
       /\ r.method = "CONNECT" => r.path = <<>>
       /\ r.path \in Seq(DOMAIN Spelling)
  /\ Spelling \in [DOMAIN Spelling -> Seq(STRING)]
  /\ Asked \subseteq Nat /\ MaxPending \in Nat /\ MaxEdits \in Nat

VARIABLES
  rules,      \* the contents of the rules files
  pending,    \* prompts: a workspace and what it asks for
  remembered, \* decisions that were remembered, and not undone since (history)
  edits

vars == <<rules, pending, remembered, edits>>

-----------------------------------------------------------------------------
(* Loading *)

\* The file parses, and holds no rule that is refused.
Loads(file) ==
  /\ ~file.broken
  /\ \A i \in DOMAIN file.commands : file.commands[i].command \notin Forbidden
  /\ \A i \in DOMAIN file.forwards : file.forwards[i].inside > 0 /\ file.forwards[i].outside > 0

\* Either file spoils the decisions of the workspace.
Loaded(w) == Loads(rules[Global]) /\ Loads(rules[w])

-----------------------------------------------------------------------------
(* Matching a request *)

\* A path is decoded, cut up anew, and resolved: ".." takes back a segment.
Decoded(path) == FlattenSeq([i \in DOMAIN path |-> Spelling[path[i]]])
Skipped == {"", "."}
After(done, s) ==
  CASE s \in Skipped -> done
    [] s = ".." -> IF done = <<>> THEN done ELSE Front(done)
    [] OTHER -> Append(done, s)
Normalized(path) ==
  LET s == Decoded(path)
      done[n \in 0 .. Len(s)] == IF n = 0 THEN <<>> ELSE After(done[n - 1], s[n])
  IN  done[Len(s)]

\* A host is the sequence of its labels, the last one first.
DomainMatches(pattern, host) ==
  CASE pattern.kind = "any" -> TRUE
    [] pattern.kind = "sub" -> pattern.of # host /\ IsPrefix(pattern.of, host)
    [] pattern.kind = "exact" -> pattern.of = host

\* No methods, paths or ports: all of them.  "/a/*" is what lies below /a.
MethodMatches(rule, method) == rule.methods = {} \/ method \in rule.methods
PathMatches(rule, path) ==
  rule.paths = {} \/ \E p \in rule.paths :
    IF p.below THEN IsPrefix(p.at, Normalized(path)) /\ (p.at = <<>> \/ p.at # Normalized(path))
    ELSE p.at = Normalized(path)

RuleMatches(rule, method, request, path) ==
  /\ MethodMatches(rule, method)
  /\ DomainMatches(rule.domain, request.host)
  /\ PathMatches(rule, path)

NetworkMatches(rule, r) ==
  /\ RuleMatches(rule, r.method, r, r.path)
  /\ rule.ports = {} \/ r.port \in rule.ports

\* A tunnel is decided by its host and port; an allowance that names no port
\* is for 443 only, a denial for any.
ConnectMatches(rule, r, denial) ==
  /\ RuleMatches(rule, "CONNECT", r, <<>>)
  /\ IF rule.ports = {} THEN denial \/ r.port = 443 ELSE r.port \in rule.ports

Matches(rule, r, denial) ==
  IF r.method = "CONNECT" THEN ConnectMatches(rule, r, denial) ELSE NetworkMatches(rule, r)

\* The composition: the rules of both files.
DenyRules(w) == rules[Global].deny \cup rules[w].deny
AllowRules(w) == rules[Global].allow \cup rules[w].allow

MatchNetwork(w, r) ==
  CASE \E rule \in DenyRules(w) : Matches(rule, r, TRUE) -> "deny"
    [] ~(\E rule \in DenyRules(w) : Matches(rule, r, TRUE))
       /\ (\E rule \in AllowRules(w) : Matches(rule, r, FALSE)) -> "auto"
    [] OTHER -> "prompt"

HostAllowed(host) == \E p \in AllowedHost : DomainMatches(p, host)
LocalForward(r) == r.method # "CONNECT" /\ <<r.host, r.port>> \in Forwarded

\* Mutant: allowed_hosts and forwards come before the denials.
AllowedFirst(w, r) ==
  CASE ~Loaded(w) -> "refused"
    [] Loaded(w) /\ (HostAllowed(r.host) \/ LocalForward(r)) -> "auto"
    [] OTHER -> MatchNetwork(w, r)
\* A denial comes before allowed_hosts and forwards, these before the rest.
Decision(w, r) ==
  CASE ~Loaded(w) -> "refused"
    [] Loaded(w) /\ MatchNetwork(w, r) # "deny" /\ (HostAllowed(r.host) \/ LocalForward(r)) -> "auto"
    [] OTHER -> MatchNetwork(w, r)

-----------------------------------------------------------------------------
(* Matching a command *)

\* The commands of the global file, then those of the workspace; the first of
\* a command counts.
Commands(w) == rules[Global].commands \o rules[w].commands
FindHostdo(w, c) == SelectInSeq(Commands(w), LAMBDA entry : entry.command = c)

Stricter(p, q) ==
  CASE "deny" \in {p, q} -> "deny"
    [] "deny" \notin {p, q} /\ "prompt" \in {p, q} -> "prompt"
    [] OTHER -> "auto"

CommandDecision(w, c) ==
  CASE c \in Forbidden -> "deny"
    [] c \notin Forbidden /\ ~Loaded(w) -> "refused"
    [] OTHER -> IF FindHostdo(w, c) # 0 THEN Commands(w)[FindHostdo(w, c)].mode
                ELSE Stricter(rules[Global].default, rules[w].default)

\* The time a command is given: what it asks for, but no more than its rule
\* and five minutes, and at least a second.
Ceiling(w, c) == IF FindHostdo(w, c) = 0 THEN 60 ELSE Commands(w)[FindHostdo(w, c)].timeout
TimeLimit(w, c, asked) == Max({1, Min({asked, Ceiling(w, c), 300})})

-----------------------------------------------------------------------------
(* Asking and remembering *)

Init ==
  /\ rules \in [File -> Bodies]
  /\ pending = {} /\ remembered = {}
  /\ edits = 0

Prompt(item) ==
  /\ Cardinality(pending) < MaxPending
  /\ pending' = pending \cup {item}

AskNetwork(w, r) ==
  /\ Decision(w, r) = "prompt"
  /\ Prompt([workspace |-> w, what |-> r])
  /\ UNCHANGED <<rules, remembered, edits>>

AskCommand(w, c, asked) ==
  /\ CommandDecision(w, c) = "prompt"
  /\ Prompt([workspace |-> w, what |-> c, timeout |-> TimeLimit(w, c, asked)])
  /\ UNCHANGED <<rules, remembered, edits>>

IsRaw(r) == r.method = "CONNECT" /\ r.port # 443

\* The rule for a host; an allowance of a raw tunnel is for its port.
Domain(host) == [kind |-> "exact", of |-> host]
\* Mutant: an allowance has no port.
EntryOfHost(r, policy) ==
  [methods |-> {}, domain |-> Domain(r.host), paths |-> {}, ports |-> {}]
Entry(r, policy) ==
  [methods |-> {}, domain |-> Domain(r.host), paths |-> {},
   ports |-> IF policy = "auto" /\ IsRaw(r) THEN {r.port} ELSE {}]

\* Mutant: an opposite rule stays.
WithEntryOnly(file, entry, policy) ==
  IF policy = "auto" THEN [file EXCEPT !.allow = @ \cup {entry}]
  ELSE [file EXCEPT !.deny = @ \cup {entry}]
\* It is added to its list, and taken from the other.
WithEntry(file, entry, policy) ==
  IF policy = "auto"
  THEN [file EXCEPT !.deny = @ \ {entry}, !.allow = @ \cup {entry}]
  ELSE [file EXCEPT !.allow = @ \ {entry}, !.deny = @ \cup {entry}]

\* Answered: it is dropped from the prompts.  What was remembered of the same
\* host or command before is of no more interest.
Answered(item) == pending' = pending \ {item}
About(w, what) == {m \in remembered : m.workspace = w /\
  IF what \in Request THEN m.what \in Request /\ m.what.host = what.host ELSE m.what = what}
Remember(w, what, policy) ==
  remembered' = (remembered \ About(w, what))
                \cup {[workspace |-> w, what |-> what, policy |-> policy]}

RememberNetwork(item, policy) ==
  /\ item.what \in Request /\ Loads(rules[item.workspace])
  /\ rules' = [rules EXCEPT ![item.workspace] = WithEntry(@, Entry(item.what, policy), policy)]
  /\ Remember(item.workspace, item.what, policy)
  /\ Answered(item)
  /\ UNCHANGED edits

\* The entry of the command in the workspace's file is changed, or one added.
WithCommand(file, item, policy) ==
  LET i == SelectInSeq(file.commands, LAMBDA e : e.command = item.what)
      entry == [command |-> item.what, mode |-> policy, timeout |-> item.timeout]
  IN [file EXCEPT !.commands = IF i = 0 THEN Append(@, entry) ELSE [@ EXCEPT ![i] = entry]]

RememberCommand(item, policy) ==
  /\ item.what \in Command /\ Loads(rules[item.workspace])
  /\ rules' = [rules EXCEPT ![item.workspace] = WithCommand(@, item, policy)]
  /\ Remember(item.workspace, item.what, policy)
  /\ Answered(item)
  /\ UNCHANGED edits

\* Answered for once, or given up; the file may be broken.
AnswerOnce(item) == Answered(item) /\ UNCHANGED <<rules, remembered, edits>>

\* Somebody rewrites a rules file.
Edit(f, body) ==
  /\ edits < MaxEdits
  /\ body # rules[f]
  /\ edits' = edits + 1
  /\ rules' = [rules EXCEPT ![f] = body]
  /\ remembered' = {m \in remembered : m.workspace # f}
  /\ UNCHANGED pending

Next ==
  \/ \E w \in Workspace :
       (\E r \in Request : AskNetwork(w, r)) \/ (\E c \in Command, n \in Asked : AskCommand(w, c, n))
  \/ \E item \in pending, policy \in {"auto", "deny"} :
       RememberNetwork(item, policy) \/ RememberCommand(item, policy)
  \/ \E item \in pending : AnswerOnce(item)
  \/ \E f \in File, body \in Bodies : Edit(f, body)

Spec == Init /\ [][Next]_vars

-----------------------------------------------------------------------------
(* Properties *)

TypeOK ==
  /\ rules \in [File -> ProjectRules]
  /\ \A item \in pending :
       item.workspace \in Workspace /\ item.what \in Request \cup Command
  /\ \A m \in remembered :
       m.workspace \in Workspace /\ m.what \in Request \cup Command
       /\ m.policy \in {"auto", "deny"}

Rise(segment) ==
  CASE segment \in Skipped -> 0
    [] segment = ".." -> -1
    [] OTHER -> 1

\* Where a server takes a path to: a segment is left if none of those behind it
\* goes back over it.
Routed(path) ==
  LET s == Decoded(path)
      height[n \in 0 .. Len(s)] == IF n = 0 THEN 0 ELSE height[n - 1] + Rise(s[n])
      stays == {i \in DOMAIN s : /\ s[i] \notin Skipped \cup {".."}
                                 /\ \A j \in i + 1 .. Len(s) : height[j] >= height[i]}
  IN  [k \in 1 .. Cardinality(stays) |->
         s[CHOOSE i \in stays : Cardinality({j \in stays : j <= i}) = k]]

DeniedBy(rule, r) ==
  /\ rule.methods = {} \/ r.method \in rule.methods
  /\ rule.ports = {} \/ r.port \in rule.ports
  /\ DomainMatches(rule.domain, r.host)
  /\ \/ rule.paths = {}
     \/ \E p \in rule.paths : IF p.below THEN IsStrictPrefix(p.at, Routed(r.path))
                                            ELSE Routed(r.path) = p.at

\* "Deny rules take precedence over allows" (README.md:149): what a rule of
\* either file denies does not pass, however its path is spelled, and whatever
\* allowed_hosts, a forward, the other file or a remembered answer says.
DenialsHold ==
  \A w \in Workspace, r \in Request :
    (\E f \in {Global, w} : \E rule \in rules[f].deny : DeniedBy(rule, r))
      => Decision(w, r) \in {"deny", "refused"}

\* An answer that was remembered decides the next request like it, until the
\* user answers anew or somebody rewrites the file: unless another rule denies
\* the request, or the global file has a rule for the command.  What a file is
\* given by it is of the type that can be loaded again.
RememberedHolds ==
  TypeOK /\ \A m \in remembered :
    \/ ~Loaded(m.workspace)
    \/ /\ m.what \in Request
       /\ \/ Decision(m.workspace, m.what) = m.policy
          \/ /\ m.policy = "auto"
             /\ \E rule \in rules[Global].deny \cup (DenyRules(m.workspace) \ {Entry(m.what, "auto")}) :
                  Matches(rule, m.what, TRUE)
    \/ /\ m.what \in Command
       /\ \/ CommandDecision(m.workspace, m.what) = m.policy
          \/ \E i \in DOMAIN rules[Global].commands : rules[Global].commands[i].command = m.what

\* Of what no rule allowed, an answer opens its host only, and raw tunnels and
\* other requests not for each other: "raw TCP CONNECT on other ports requires an explicit port" (CHANGELOG.md:393).
AllowancesStayNarrow ==
  [][\A w \in Workspace, r \in Request, m \in remembered' \ remembered :
       Decision(w, r)' = "auto" =>
         \/ Decision(w, r) = "auto" \/ \E rule \in AllowRules(w) : Matches(rule, r, FALSE)
         \/ /\ m.workspace = w /\ m.what.host = r.host
            /\ IsRaw(r) \/ IsRaw(m.what) => r.port = m.what.port]_vars

=============================================================================
