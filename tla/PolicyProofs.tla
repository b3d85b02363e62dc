---------------------------- MODULE PolicyProofs ----------------------------
(***************************************************************************)
(* Proofs about Policy: what is remembered stays in the file of its        *)
(* workspace, where it decides the next request; an allowance opens no     *)
(* more than it says; what is denied stays denied, however its path goes.  *)
(***************************************************************************)
EXTENDS Policy, TLAPS, Facts

-----------------------------------------------------------------------------
(* Matching *)

\* A domain that is named in full matches itself only.
LEMMA DomainIsExact ==
  ASSUME NEW host, NEW other
  PROVE  DomainMatches(Domain(host), other) <=> host = other
BY DEF DomainMatches, Domain

\* Every path matches a rule without paths, every method one without methods.
LEMMA OpenMatches ==
  ASSUME NEW rule, rule.methods = {}, rule.paths = {}, NEW method, NEW r, NEW path
  PROVE  RuleMatches(rule, method, r, path) <=> DomainMatches(rule.domain, r.host)
BY DEF RuleMatches, MethodMatches, PathMatches

\* What the rule of an answer matches: its host, and the port of a raw tunnel.
LEMMA EntryMatches ==
  ASSUME NEW q, NEW policy, NEW r, NEW denial \in BOOLEAN
  PROVE  Matches(Entry(q, policy), r, denial) <=>
           /\ q.host = r.host
           /\ policy = "auto" /\ IsRaw(q) => r.port = q.port
           /\ r.method = "CONNECT" =>
                (policy = "auto" /\ IsRaw(q)) \/ denial \/ r.port = 443
<1> DEFINE e == Entry(q, policy)
<1>1. /\ e.methods = {} /\ e.paths = {} /\ e.domain = Domain(q.host)
      /\ e.ports = IF policy = "auto" /\ IsRaw(q) THEN {q.port} ELSE {}
  BY DEF Entry
<1> HIDE DEF e
<1>2. \A method, path : RuleMatches(e, method, r, path) <=> q.host = r.host
  BY <1>1, OpenMatches, DomainIsExact
<1>3. Matches(e, r, denial) <=>
           /\ q.host = r.host
           /\ policy = "auto" /\ IsRaw(q) => r.port = q.port
           /\ r.method = "CONNECT" =>
                (policy = "auto" /\ IsRaw(q)) \/ denial \/ r.port = 443
  BY ZenonT(60), <1>1, <1>2 DEF Matches, ConnectMatches, NetworkMatches
<1> QED BY <1>3 DEF e

\* An answer's rule decides the request it was given for.
LEMMA EntryDecides ==
  ASSUME NEW r
  PROVE  Matches(Entry(r, "auto"), r, FALSE) /\ Matches(Entry(r, "deny"), r, TRUE)
BY ZenonT(60), EntryMatches DEF IsRaw

\* Whether the composed rules deny or allow a request.
Denied(w, r) == \E rule \in DenyRules(w) : Matches(rule, r, TRUE)
Permitted(w, r) == \E rule \in AllowRules(w) : Matches(rule, r, FALSE)
Open(r) == HostAllowed(r.host) \/ LocalForward(r)

LEMMA DecisionIs ==
  ASSUME NEW w, NEW r
  PROVE  /\ Decision(w, r) = "auto" <=>
              Loaded(w) /\ ~Denied(w, r) /\ (Open(r) \/ Permitted(w, r))
         /\ Loaded(w) /\ Denied(w, r) => Decision(w, r) = "deny"
         /\ Decision(w, r) = "prompt" => ~Open(r)
         /\ Decision(w, r) \in {"refused", "deny"} <=> ~Loaded(w) \/ Denied(w, r)
<1>1. /\ Denied(w, r) => MatchNetwork(w, r) = "deny"
      /\ ~Denied(w, r) /\ Permitted(w, r) => MatchNetwork(w, r) = "auto"
      /\ ~Denied(w, r) /\ ~Permitted(w, r) => MatchNetwork(w, r) = "prompt"
  BY Zenon DEF MatchNetwork, Denied, Permitted
<1>2. /\ ~Loaded(w) => Decision(w, r) = "refused"
      /\ Loaded(w) /\ MatchNetwork(w, r) # "deny" /\ Open(r) => Decision(w, r) = "auto"
      /\ Loaded(w) /\ (MatchNetwork(w, r) = "deny" \/ ~Open(r))
           => Decision(w, r) = MatchNetwork(w, r)
  BY DEF Decision, Open
<1> QED BY <1>1, <1>2

-----------------------------------------------------------------------------
(* The entries of commands *)

\* The first entry of a command in a file, and that it decides as it is to.
FirstOf(list, c, i) ==
  i \in DOMAIN list /\ list[i].command = c /\ \A j \in DOMAIN list : list[j].command = c => i <= j
Settled(list, c, mode) == \E i \in DOMAIN list : FirstOf(list, c, i) /\ list[i].mode = mode

Find(list, c) == SelectInSeq(list, LAMBDA e : e.command = c)

\* The search finds the first entry of the command, or there is none.
LEMMA FirstIsFound ==
  ASSUME NEW list \in Seq(HostdoCommand), NEW c, NEW i,
         i = Find(list, c)
  PROVE  \/ FirstOf(list, c, i) /\ i # 0
         \/ i = 0 /\ \A j \in DOMAIN list : list[j].command # c
<1> DEFINE I == {j \in 1 .. Len(list) : list[j].command = c}
<1>1. i = IF I # {} THEN Min(I) ELSE 0
  BY DEF SelectInSeq, Find
<1>2. DOMAIN list = 1 .. Len(list) /\ Len(list) \in Nat
  BY LenProperties
<1>3. CASE I = {}
  BY <1>1, <1>2, <1>3
<1>4. CASE I # {}
  <2>1. I \in SUBSET Nat
    BY <1>2
  <2>2. \E x \in I : \A y \in I : x <= y
    BY <1>4, <2>1, LeastNumber, Zenon
  <2>3. Min(I) \in I /\ \A y \in I : Min(I) <= y
    BY <2>2 DEF Min
  <2>4. i \in I /\ \A y \in I : i <= y
    BY <1>1, <1>4, <2>3
  <2>5. i \in 1 .. Len(list) /\ list[i].command = c /\ i # 0
    BY <1>2, <2>4
  <2>6. \A j \in DOMAIN list : list[j].command = c => i <= j
    BY <1>2, <2>4
  <2> QED BY <1>2, <2>5, <2>6 DEF FirstOf
<1> QED BY <1>3, <1>4

\* There is one first entry.
LEMMA FirstIsOne ==
  ASSUME NEW list \in Seq(HostdoCommand), NEW c, NEW i, FirstOf(list, c, i),
         NEW k, FirstOf(list, c, k)
  PROVE  i = k
<1>1. DOMAIN list = 1 .. Len(list) /\ Len(list) \in Nat
  BY LenProperties
<1>2. i \in Nat /\ k \in Nat /\ i <= k /\ k <= i
  BY <1>1 DEF FirstOf
<1> QED BY <1>2

\* In the composed list the entries of the global file come first.
LEMMA SettledBehind ==
  ASSUME NEW g \in Seq(HostdoCommand), NEW own \in Seq(HostdoCommand), NEW c, NEW mode,
         \A i \in DOMAIN g : g[i].command # c, Settled(own, c, mode)
  PROVE  Settled(g \o own, c, mode)
<1> DEFINE all == g \o own
           n == Len(g)
<1>1. /\ DOMAIN g = 1 .. n /\ n \in Nat
      /\ DOMAIN own = 1 .. Len(own) /\ Len(own) \in Nat
  BY LenProperties
<1>2. /\ all \in Seq(HostdoCommand) /\ Len(all) = n + Len(own)
      /\ \A i \in 1 .. n + Len(own) : all[i] = IF i <= n THEN g[i] ELSE own[i - n]
  BY ConcatProperties
<1>3. PICK k \in DOMAIN own : FirstOf(own, c, k) /\ own[k].mode = mode
  BY DEF Settled
<1> HIDE DEF all, n
<1>4. DOMAIN all = 1 .. n + Len(own)
  BY <1>2, LenProperties
<1>5. n + k \in DOMAIN all /\ all[n + k] = own[k]
  <2>1. n + k \in 1 .. n + Len(own) /\ ~(n + k <= n) /\ n + k - n = k
    BY <1>1, <1>3
  <2>2. all[n + k] = own[k]
    BY <1>1, <1>2, <1>3, <2>1
  <2> QED BY <1>4, <2>1, <2>2
<1>6. ASSUME NEW j \in DOMAIN all, all[j].command = c
      PROVE  n + k <= j
  <2>1. j \in 1 .. n + Len(own) /\ j \in Nat
    BY <1>1, <1>4
  <2>2. ~(j <= n)
    <3>1. ASSUME j <= n PROVE FALSE
      <4>1. j \in DOMAIN g /\ all[j] = g[j]
        BY <1>1, <1>2, <2>1, <3>1
      <4> QED BY <1>6, <4>1
    <3> QED BY <3>1
  <2>3. j - n \in DOMAIN own /\ all[j] = own[j - n]
    BY <1>1, <1>2, <2>1, <2>2
  <2>4. k <= j - n
    BY <1>3, <1>6, <2>3 DEF FirstOf
  <2> QED BY <1>1, <2>1, <2>4
<1>7. FirstOf(all, c, n + k)
  BY <1>3, <1>5, <1>6 DEF FirstOf
<1> QED BY <1>3, <1>5, <1>7 DEF Settled, all

\* A decision for a command is written into its first entry, or into a new one.
SetEntry(list, entry, i) == IF i = 0 THEN Append(list, entry) ELSE [list EXCEPT ![i] = entry]

LEMMA EntryIsSet ==
  ASSUME NEW list \in Seq(HostdoCommand), NEW entry \in HostdoCommand, NEW i,
         NEW own, own = entry.command, i = Find(list, own),
         NEW other, other = SetEntry(list, entry, i)
  PROVE  /\ other \in Seq(HostdoCommand)
         /\ Settled(other, own, entry.mode)
         /\ \A c, mode : c # own /\ Settled(list, c, mode) => Settled(other, c, mode)
<1> DEFINE n == Len(list)
<1>1. DOMAIN list = 1 .. n /\ n \in Nat /\ \A j \in 1 .. n : list[j] \in HostdoCommand
  BY LenProperties, ElementOfSeq
<1>2. \/ FirstOf(list, own, i) /\ i # 0
      \/ i = 0 /\ \A j \in DOMAIN list : list[j].command # own
  BY FirstIsFound
<1> HIDE DEF n
<1>3. CASE i # 0
  <2>1. FirstOf(list, own, i) /\ i \in 1 .. n /\ other = [list EXCEPT ![i] = entry]
    BY <1>1, <1>2, <1>3 DEF SetEntry, FirstOf
  <2>2. other \in Seq(HostdoCommand) /\ Len(other) = n
    BY <2>1, ExceptSeq DEF n
  <2>3. DOMAIN other = 1 .. n
    BY <1>1, <2>1
  <2>4. \A j \in 1 .. n : other[j] = IF j = i THEN entry ELSE list[j]
    BY <1>1, <2>1
  <2>5. \A j \in 1 .. n : other[j].command = list[j].command
    BY <2>1, <2>4 DEF FirstOf
  <2>6. Settled(other, own, entry.mode)
    BY <1>1, <2>1, <2>3, <2>4, <2>5 DEF Settled, FirstOf
  <2>7. ASSUME NEW c, NEW mode, c # own, Settled(list, c, mode)
        PROVE  Settled(other, c, mode)
    BY <1>1, <2>1, <2>3, <2>4, <2>5, <2>7 DEF Settled, FirstOf
  <2> QED BY <2>2, <2>6, <2>7
<1>4. CASE i = 0
  <2>1. other = Append(list, entry) /\ \A j \in 1 .. n : list[j].command # own
    BY <1>1, <1>2, <1>4 DEF SetEntry
  <2>2. /\ other \in Seq(HostdoCommand) /\ Len(other) = n + 1
        /\ \A j \in 1 .. n : other[j] = list[j]
        /\ other[n + 1] = entry
    BY <2>1, AppendProperties DEF n
  <2>3. DOMAIN other = 1 .. n + 1
    BY <2>2, LenProperties
  <2>4. Settled(other, own, entry.mode)
    <3>1. \A j \in 1 .. n + 1 : other[j].command = own => n + 1 <= j
      BY <1>1, <2>1, <2>2
    <3>2. n + 1 \in DOMAIN other /\ other[n + 1].command = own
      BY <1>1, <2>2, <2>3
    <3>3. FirstOf(other, own, n + 1)
      BY <2>3, <3>1, <3>2 DEF FirstOf
    <3> QED BY <2>2, <3>3 DEF Settled, FirstOf
  <2>5. ASSUME NEW c, NEW mode, c # own, Settled(list, c, mode)
        PROVE  Settled(other, c, mode)
    <3>1. PICK k \in 1 .. n : FirstOf(list, c, k) /\ list[k].mode = mode
      BY <1>1, <2>5 DEF Settled
    <3>2. k \in 1 .. n + 1 /\ k \in Nat /\ other[k] = list[k]
      <4>1. n \in Nat
        BY <1>1
      <4> QED BY <2>2, <4>1
    <3>3. \A j \in 1 .. n + 1 : other[j].command = c => k <= j
      <4>1. n \in Nat /\ \A j \in 1 .. n + 1 : j \in 1 .. n \/ j = n + 1
        BY <1>1
      <4>2. \A j \in 1 .. n : list[j].command = c => k <= j
        BY <1>1, <3>1 DEF FirstOf
      <4> QED BY <2>2, <2>5, <4>1, <4>2
    <3>4. FirstOf(other, c, k)
      BY <2>3, <3>1, <3>2, <3>3 DEF FirstOf
    <3> QED BY <2>3, <3>1, <3>2, <3>4 DEF Settled
  <2> QED BY <2>2, <2>4, <2>5
<1> QED BY <1>3, <1>4

-----------------------------------------------------------------------------
(* What an answer makes of a file *)

LEMMA EntryIsRule ==
  ASSUME NEW r \in Request, NEW policy
  PROVE  Entry(r, policy) \in NetworkRule
<1>1. Domain(r.host) \in DomainPattern
  BY PolicyAssumption DEF Domain, DomainPattern
<1>2. r.port \in Port
  BY PolicyAssumption
<1> QED BY <1>1, <1>2 DEF Entry, NetworkRule

\* Only the two lists of domains change.
LEMMA WithEntryIs ==
  ASSUME NEW file \in ProjectRules, NEW entry \in NetworkRule, NEW policy, NEW made,
         made = WithEntry(file, entry, policy)
  PROVE  /\ made \in ProjectRules
         /\ made.broken = file.broken /\ made.commands = file.commands
         /\ made.forwards = file.forwards /\ made.default = file.default
         /\ policy = "auto" =>
              made.allow = file.allow \cup {entry} /\ made.deny = file.deny \ {entry}
         /\ policy # "auto" =>
              made.allow = file.allow \ {entry} /\ made.deny = file.deny \cup {entry}
<1>1. CASE policy = "auto"
  BY <1>1 DEF WithEntry, ProjectRules
<1>2. CASE policy # "auto"
  BY <1>2 DEF WithEntry, ProjectRules
<1> QED BY <1>1, <1>2

\* Only the list of commands changes, and the command has its mode.
LEMMA WithCommandIs ==
  ASSUME NEW file \in ProjectRules, NEW item, item.what \in Command, item.timeout \in Seconds,
         NEW policy \in Policies, NEW new, new = WithCommand(file, item, policy)
  PROVE  /\ new \in ProjectRules
         /\ new.allow = file.allow /\ new.deny = file.deny
         /\ new.broken = file.broken /\ new.forwards = file.forwards
         /\ Settled(new.commands, item.what, policy)
         /\ \A c, mode : c # item.what /\ Settled(file.commands, c, mode)
                           => Settled(new.commands, c, mode)
<1> DEFINE entry == [command |-> item.what, mode |-> policy, timeout |-> item.timeout]
           list == file.commands
           longer == SetEntry(list, entry, Find(list, item.what))
<1>1. entry \in HostdoCommand /\ entry.command = item.what /\ entry.mode = policy
  BY DEF HostdoCommand
<1>2. list \in Seq(HostdoCommand)
  BY DEF ProjectRules
<1>3. new = [file EXCEPT !.commands = longer]
  BY DEF WithCommand, SetEntry, Find
<1> HIDE DEF entry, list
<1>4. /\ longer \in Seq(HostdoCommand)
      /\ Settled(longer, item.what, policy)
      /\ \A c, mode : c # item.what /\ Settled(list, c, mode) => Settled(longer, c, mode)
  BY <1>1, <1>2, EntryIsSet
<1> HIDE DEF longer
<1>5. /\ new \in ProjectRules /\ new.commands = longer
      /\ new.allow = file.allow /\ new.deny = file.deny
      /\ new.broken = file.broken /\ new.forwards = file.forwards
  BY <1>3, <1>4 DEF ProjectRules
<1> QED BY <1>4, <1>5 DEF list

\* The ceiling of a command is within the limits of a rule, and so is its time.
LEMMA ComposedCommands ==
  ASSUME rules \in [File -> ProjectRules], NEW w \in Workspace
  PROVE  /\ rules[Global] \in ProjectRules /\ rules[w] \in ProjectRules
         /\ rules[Global].commands \in Seq(HostdoCommand)
         /\ rules[w].commands \in Seq(HostdoCommand)
         /\ Commands(w) \in Seq(HostdoCommand)
<1>1. rules[Global] \in ProjectRules /\ rules[w] \in ProjectRules
  BY DEF File
<1>2. rules[Global].commands \in Seq(HostdoCommand) /\ rules[w].commands \in Seq(HostdoCommand)
  BY <1>1 DEF ProjectRules
<1> QED BY <1>1, <1>2, ConcatProperties DEF Commands

LEMMA TimeIsLimited ==
  ASSUME rules \in [File -> ProjectRules], NEW w \in Workspace, NEW c, NEW asked \in Nat
  PROVE  TimeLimit(w, c, asked) \in Seconds
<1> DEFINE ceiling == Ceiling(w, c)
           least == Min({asked, ceiling, 300})
<1>1. ceiling \in Nat
  <2>1. Commands(w) \in Seq(HostdoCommand)
    BY ComposedCommands
  <2>2. FindHostdo(w, c) # 0 => FindHostdo(w, c) \in DOMAIN Commands(w)
    <3>1. FindHostdo(w, c) = Find(Commands(w), c)
      BY DEF FindHostdo, Find
    <3> QED BY <2>1, <3>1, FirstIsFound DEF FirstOf
  <2>3. FindHostdo(w, c) # 0 => Commands(w)[FindHostdo(w, c)] \in HostdoCommand
    BY <2>1, <2>2, LenProperties, ElementOfSeq
  <2> QED BY <2>3 DEF Ceiling, HostdoCommand, Seconds
<1> HIDE DEF ceiling
<1>2. \E x \in {asked, ceiling, 300} : \A y \in {asked, ceiling, 300} : x <= y
  BY <1>1, LeastNumber
<1>3. least \in {asked, ceiling, 300} /\ least <= 300
  BY <1>2 DEF Min
<1>4. least \in Nat
  BY <1>1, <1>3
<1> HIDE DEF least
<1>5. \E x \in {1, least} : \A y \in {1, least} : x >= y
  BY <1>4
<1>6. Max({1, least}) \in {1, least} /\ Max({1, least}) >= 1
  BY <1>5 DEF Max
<1> QED BY <1>3, <1>4, <1>6 DEF TimeLimit, Seconds, least, ceiling

-----------------------------------------------------------------------------
(* The inductive invariant *)

\* What is asked: nothing that was open anyway, and no command that runs hat.
Asks(item) ==
  /\ item.workspace \in Workspace
  /\ \/ item.what \in Request /\ ~Open(item.what)
     \/ item.what \in Command \ Forbidden /\ item.timeout \in Seconds

\* What was remembered is in the file, and not its opposite.
Kept(file, m) ==
  \/ /\ m.what \in Request
     /\ m.policy = "auto" => Entry(m.what, "auto") \in file.allow \ file.deny
     /\ m.policy = "deny" => Entry(m.what, "deny") \in file.deny
  \/ m.what \in Command \ Forbidden /\ Settled(file.commands, m.what, m.policy)

Typed(m) ==
  m.workspace \in Workspace /\ m.what \in Request \cup Command /\ m.policy \in {"auto", "deny"}

Inv ==
  /\ rules \in [File -> ProjectRules]
  /\ \A item \in pending : Asks(item)
  /\ \A m \in remembered : Typed(m) /\ Kept(rules[m.workspace], m)

LEMMA Begins == Init => Inv
BY PolicyAssumption DEF Init, Inv

LEMMA AskingKeeps ==
  ASSUME Inv, NEW w \in Workspace,
         \/ \E r \in Request : AskNetwork(w, r)
         \/ \E c \in Command, n \in Asked : AskCommand(w, c, n)
  PROVE  Inv'
<1>1. ASSUME NEW r \in Request, AskNetwork(w, r)
      PROVE  \E item : pending' = pending \cup {item} /\ Asks(item)
  <2>1. ~Open(r)
    BY <1>1, DecisionIs DEF AskNetwork
  <2>2. Asks([workspace |-> w, what |-> r])
    BY <2>1 DEF Asks
  <2> QED BY <1>1, <2>2 DEF AskNetwork, Prompt
<1>2. ASSUME NEW c \in Command, NEW n \in Asked, AskCommand(w, c, n)
      PROVE  \E item : pending' = pending \cup {item} /\ Asks(item)
  <2>1. c \notin Forbidden
    BY <1>2 DEF AskCommand, CommandDecision
  <2>2. TimeLimit(w, c, n) \in Seconds
    BY TimeIsLimited, PolicyAssumption DEF Inv
  <2>3. Asks([workspace |-> w, what |-> c, timeout |-> TimeLimit(w, c, n)])
    BY <2>1, <2>2 DEF Asks
  <2> QED BY <1>2, <2>3 DEF AskCommand, Prompt
<1>3. UNCHANGED <<rules, remembered>>
  BY DEF AskNetwork, AskCommand
<1>4. \A item \in pending' : Asks(item)
  BY <1>1, <1>2 DEF Inv
<1> QED BY <1>3, <1>4 DEF Inv

\* What a remembered answer does to the files and to what is remembered.
LEMMA Remembers ==
  ASSUME Inv, NEW item \in pending, NEW policy \in {"auto", "deny"},
         NEW file \in ProjectRules, rules' = [rules EXCEPT ![item.workspace] = file],
         Remember(item.workspace, item.what, policy), Answered(item),
         Kept(file, [workspace |-> item.workspace, what |-> item.what, policy |-> policy]),
         \A m \in remembered :
           m.workspace = item.workspace /\ m \notin About(item.workspace, item.what)
             => Kept(file, m)
  PROVE  Inv'
<1>1. Asks(item) /\ item.workspace \in File
  BY DEF Inv, Asks, File
<1>2. rules' \in [File -> ProjectRules]
  BY <1>1 DEF Inv
<1>3. \A f \in File : rules'[f] = IF f = item.workspace THEN file ELSE rules[f]
  BY <1>1 DEF Inv
<1>4. \A other \in pending' : Asks(other)
  BY DEF Inv, Answered
<1>5. ASSUME NEW m \in remembered'
      PROVE  Typed(m) /\ Kept(rules'[m.workspace], m)
  <2>1. CASE m = [workspace |-> item.workspace, what |-> item.what, policy |-> policy]
    BY <1>1, <1>3, <2>1 DEF Asks, Typed
  <2>2. CASE m \in remembered /\ m \notin About(item.workspace, item.what)
    <3>1. Typed(m) /\ Kept(rules[m.workspace], m) /\ m.workspace \in File
      BY <2>2 DEF Inv, Typed, File
    <3> QED BY <1>3, <2>2, <3>1
  <2> QED BY <2>1, <2>2 DEF Remember
<1> QED BY <1>2, <1>4, <1>5 DEF Inv

LEMMA NetworkKeeps ==
  ASSUME Inv, NEW item \in pending, NEW policy \in {"auto", "deny"},
         RememberNetwork(item, policy)
  PROVE  Inv'
<1>1. /\ item.what \in Request /\ item.workspace \in File
      /\ rules[item.workspace] \in ProjectRules /\ Entry(item.what, policy) \in NetworkRule
  BY EntryIsRule DEF RememberNetwork, Inv, Asks, File
<1> SUFFICES ASSUME NEW old \in ProjectRules, old = rules[item.workspace],
                    NEW e \in NetworkRule, e = Entry(item.what, policy),
                    NEW new, new = WithEntry(old, e, policy)
             PROVE  Inv'
  BY <1>1
<1>2. /\ new \in ProjectRules /\ new.commands = old.commands
      /\ policy = "auto" => new.allow = old.allow \cup {e} /\ new.deny = old.deny \ {e}
      /\ policy # "auto" => new.allow = old.allow \ {e} /\ new.deny = old.deny \cup {e}
  BY <1>1, WithEntryIs
<1>3. rules' = [rules EXCEPT ![item.workspace] = new]
  BY DEF RememberNetwork
<1>4. Kept(new, [workspace |-> item.workspace, what |-> item.what, policy |-> policy])
  BY <1>1, <1>2 DEF Kept
<1>5. ASSUME NEW m \in remembered, m.workspace = item.workspace,
             m \notin About(item.workspace, item.what)
      PROVE  Kept(new, m)
  <2>1. Typed(m) /\ Kept(old, m)
    BY <1>5 DEF Inv
  <2>2. CASE m.what \in Request
    <3>1. m.what.host # item.what.host
      BY <1>1, <1>5, <2>2 DEF About
    <3>2. \A p : Entry(m.what, p) # e
      BY <3>1 DEF Entry, Domain
    <3>3. m.what \notin Command
      BY <2>2, PolicyAssumption
    <3> QED BY <1>2, <2>1, <3>2, <3>3 DEF Kept
  <2>3. CASE m.what \notin Request
    BY <1>2, <2>1, <2>3 DEF Kept
  <2> QED BY <2>2, <2>3
<1> QED BY ZenonT(60), <1>2, <1>3, <1>4, <1>5, Remembers DEF RememberNetwork

LEMMA CommandKeeps ==
  ASSUME Inv, NEW item \in pending, NEW policy \in {"auto", "deny"},
         RememberCommand(item, policy)
  PROVE  Inv'
<1>1. /\ item.what \in Command \ Forbidden /\ item.timeout \in Seconds
      /\ item.what \notin Request /\ item.workspace \in File
      /\ rules[item.workspace] \in ProjectRules
  BY PolicyAssumption DEF RememberCommand, Inv, Asks, File
<1> SUFFICES ASSUME NEW old \in ProjectRules, old = rules[item.workspace],
                    NEW new, new = WithCommand(old, item, policy)
             PROVE  Inv'
  BY <1>1
<1>2. /\ new \in ProjectRules /\ new.allow = old.allow /\ new.deny = old.deny
      /\ Settled(new.commands, item.what, policy)
      /\ \A c, mode : c # item.what /\ Settled(old.commands, c, mode)
                        => Settled(new.commands, c, mode)
  <2>1. policy \in Policies
    BY DEF Policies
  <2>2. new \in ProjectRules /\ new.allow = old.allow /\ new.deny = old.deny
    BY <1>1, <2>1, WithCommandIs
  <2>3. Settled(new.commands, item.what, policy)
    BY <1>1, <2>1, WithCommandIs
  <2>4. ASSUME NEW c, NEW mode, c # item.what, Settled(old.commands, c, mode)
        PROVE  Settled(new.commands, c, mode)
    BY SMTT(60), <1>1, <2>1, <2>4, WithCommandIs
  <2> QED BY <2>2, <2>3, <2>4
<1>3. rules' = [rules EXCEPT ![item.workspace] = new]
  BY DEF RememberCommand
<1>4. Kept(new, [workspace |-> item.workspace, what |-> item.what, policy |-> policy])
  BY <1>1, <1>2 DEF Kept
<1>5. ASSUME NEW m \in remembered, m.workspace = item.workspace,
             m \notin About(item.workspace, item.what)
      PROVE  Kept(new, m)
  <2>1. Kept(old, m)
    BY <1>5 DEF Inv
  <2>2. m.what # item.what
    BY <1>1, <1>5 DEF About
  <2> QED BY <1>2, <2>1, <2>2 DEF Kept
<1> QED BY <1>2, <1>3, <1>4, <1>5, Remembers DEF RememberCommand

LEMMA Stays == Inv /\ [Next]_vars => Inv'
<1> SUFFICES ASSUME Inv, [Next]_vars PROVE Inv'
  OBVIOUS
<1>1. ASSUME NEW item \in pending, AnswerOnce(item)
      PROVE  Inv'
  BY <1>1 DEF Inv, AnswerOnce, Answered
<1>2. ASSUME NEW f \in File, NEW body \in Bodies, Edit(f, body)
      PROVE  Inv'
  <2>1. rules' \in [File -> ProjectRules]
    BY <1>2, PolicyAssumption DEF Inv, Edit
  <2>2. \A g \in File : g # f => rules'[g] = rules[g]
    BY <1>2 DEF Inv, Edit
  <2>3. ASSUME NEW m \in remembered'
        PROVE  Typed(m) /\ Kept(rules'[m.workspace], m)
    <3>1. m \in remembered /\ m.workspace # f
      BY <1>2 DEF Edit
    <3>2. Typed(m) /\ Kept(rules[m.workspace], m) /\ m.workspace \in File
      BY <3>1 DEF Inv, Typed, File
    <3> QED BY <2>2, <3>1, <3>2
  <2> QED BY <1>2, <2>1, <2>3 DEF Inv, Edit
<1>3. CASE UNCHANGED vars
  BY <1>3 DEF Inv, vars
<1> QED BY <1>1, <1>2, <1>3, AskingKeeps, NetworkKeeps, CommandKeeps DEF Next

\* Files stay such as load can read, and an answer stays in the file that
\* persist_network_rule_entry or persist_exec_rule has written it to.
THEOREM PolicyInvariant == Spec => []Inv
<1> QED BY Begins, Stays, PTL DEF Spec

-----------------------------------------------------------------------------
(* Resolving a path *)

Turned == Skipped \cup {".."}

\* Where a path has gone to after each of its segments.
Climb(s, height) ==
  /\ height[0] = 0
  /\ \A n \in 1 .. Len(s) :
       /\ height[n] \in Int
       /\ s[n] \in Skipped => height[n] = height[n - 1]
       /\ s[n] = ".." => height[n] = height[n - 1] - 1
       /\ s[n] \notin Turned => height[n] = height[n - 1] + 1

LEMMA BackIsNotSkipped == ".." \notin Skipped
BY Zenon DEF Skipped

LEMMA RiseIs ==
  ASSUME NEW segment
  PROVE  /\ Rise(segment) \in Int
         /\ segment \in Skipped => Rise(segment) = 0
         /\ segment = ".." => Rise(segment) = -1
         /\ segment \notin Turned => Rise(segment) = 1
BY BackIsNotSkipped DEF Rise, Turned

LEMMA Climbs ==
  ASSUME NEW s, NEW N \in Nat, Len(s) = N, NEW height,
         height = [n \in 0 .. N |-> IF n = 0 THEN 0 ELSE height[n - 1] + Rise(s[n])]
  PROVE  Climb(s, height)
<1>1. height[0] = 0 /\ \A n \in 1 .. N : height[n] = height[n - 1] + Rise(s[n])
  <2>1. 0 \in 0 .. N /\ \A n \in 1 .. N : n \in 0 .. N /\ n # 0
    OBVIOUS
  <2> QED BY <2>1
<1>2. \A n \in 1 .. N : Rise(s[n]) \in Int
  BY RiseIs
<1>3. \A n \in 0 .. N : height[n] \in Int
  <2>1. height[0] \in Int /\ \A n \in 1 .. N : height[n - 1] \in Int => height[n] \in Int
    BY <1>1, <1>2
  <2> QED BY <2>1, Carried
<1>4. ASSUME NEW n \in 1 .. N
      PROVE  /\ height[n] \in Int
             /\ s[n] \in Skipped => height[n] = height[n - 1]
             /\ s[n] = ".." => height[n] = height[n - 1] - 1
             /\ s[n] \notin Turned => height[n] = height[n - 1] + 1
  <2>1. height[n] \in Int /\ height[n - 1] \in Int
    <3>1. n \in 0 .. N /\ n - 1 \in 0 .. N
      OBVIOUS
    <3> QED BY <1>3, <3>1
  <2> DEFINE rise == Rise(s[n])
  <2>2. height[n] = height[n - 1] + rise
    BY <1>1
  <2>3. /\ s[n] \in Skipped => rise = 0
        /\ s[n] = ".." => rise = -1
        /\ s[n] \notin Turned => rise = 1
    BY RiseIs
  <2> HIDE DEF rise
  <2>4. /\ rise = 0 => height[n] = height[n - 1]
        /\ rise = -1 => height[n] = height[n - 1] - 1
        /\ rise = 1 => height[n] = height[n - 1] + 1
    BY <2>1, <2>2
  <2> QED BY <2>1, <2>3, <2>4
<1> QED BY <1>1, <1>4 DEF Climb

\* The segments that are left of the first n, in their order.
Remaining(s, height, n) ==
  {i \in 1 .. n : s[i] \notin Turned /\ \A j \in i + 1 .. n : height[j] >= height[i]}
InOrder(s, height, n, x, o) ==
  LET m == Len(x)
  IN  /\ o \in [1 .. m -> 1 .. n] /\ Increasing(o, m) /\ Range(o) = Remaining(s, height, n)
      /\ \A k \in 1 .. m : x[k] = s[o[k]] /\ height[o[k]] = height[n] - (m - k)
Left(S, s, height, n, x) == x \in Seq(S) /\ \E o : InOrder(s, height, n, x, o)

LEMMA LeftOfNone ==
  ASSUME NEW S, NEW s, NEW height
  PROVE  Left(S, s, height, 0, <<>>)
<1> DEFINE o == [k \in 1 .. 0 |-> 1]
<1>1. <<>> \in Seq(S) /\ Len(<<>>) = 0
  BY EmptySeq
<1>2. /\ o \in [1 .. 0 -> 1 .. 0] /\ Increasing(o, 0) /\ Range(o) = {}
      /\ Remaining(s, height, 0) = {}
  BY DEF Increasing, Range, Remaining
<1> HIDE DEF o
<1>3. InOrder(s, height, 0, <<>>, o)
  BY <1>1, <1>2 DEF InOrder
<1> QED BY <1>1, <1>3 DEF Left

LEMMA LeftNext ==
  ASSUME NEW S, NEW s \in Seq(S), NEW height, Climb(s, height), NEW n \in 1 .. Len(s),
         NEW x, Left(S, s, height, n - 1, x)
  PROVE  Left(S, s, height, n, After(x, s[n]))
<1> DEFINE m == Len(x)
           K == Remaining(s, height, n - 1)
           L == Remaining(s, height, n)
<1>1. PICK o : InOrder(s, height, n - 1, x, o)
  BY DEF Left
<1>2. /\ x \in Seq(S) /\ m \in Nat /\ n \in Nat /\ n >= 1 /\ s[n] \in S
      /\ x = [k \in 1 .. m |-> x[k]] /\ \A k \in 1 .. m : x[k] \in S
  BY LenProperties, ElementOfSeq DEF Left
<1>3. /\ o \in [1 .. m -> 1 .. n - 1] /\ Increasing(o, m) /\ Range(o) = K
      /\ \A k \in 1 .. m : x[k] = s[o[k]] /\ height[o[k]] = height[n - 1] - (m - k)
  BY <1>1 DEF InOrder
<1>4. /\ height[n] \in Int
      /\ s[n] \in Skipped => height[n] = height[n - 1]
      /\ s[n] = ".." => height[n] = height[n - 1] - 1
      /\ s[n] \notin Turned => height[n] = height[n - 1] + 1
  BY DEF Climb
<1>15. height[n - 1] \in Int
  <2>1. n - 1 = 0 \/ n - 1 \in 1 .. Len(s)
    BY <1>2, LenProperties
  <2>2. height[0] = 0 /\ \A k \in 1 .. Len(s) : height[k] \in Int
    BY DEF Climb
  <2> QED BY <2>1, <2>2
<1>5. \A i \in 1 .. n - 1 : i \in L <=> i \in K /\ height[n] >= height[i]
  <2> TAKE i \in 1 .. n - 1
  <2>1. \A j : j \in i + 1 .. n <=> j = n \/ j \in i + 1 .. n - 1
    BY <1>2
  <2>2. i \in 1 .. n
    BY <1>2
  <2> QED BY <2>1, <2>2 DEF Remaining
<1>6. n \in L <=> s[n] \notin Turned
  <2>1. n + 1 .. n = {} /\ n \in 1 .. n
    BY <1>2
  <2> QED BY <2>1 DEF Remaining
<1>7. \A i \in K \cup L : i = n \/ i \in 1 .. n - 1
  BY <1>2 DEF Remaining
<1>8. \A i \in K : i \in 1 .. n - 1
  BY DEF Remaining
<1>9. \A i \in K : \E k \in 1 .. m : i = o[k]
  BY <1>3 DEF Range
<1>10. \A k \in 1 .. m : o[k] \in K /\ o[k] \in 1 .. n - 1 /\ height[o[k]] <= height[n - 1]
  <2>1. \A k \in 1 .. m : o[k] \in K /\ o[k] \in 1 .. n - 1
    BY <1>3 DEF Range
  <2> QED BY <1>2, <1>3, <1>15, <2>1
<1> HIDE DEF K, L, m
<1>11. CASE s[n] \in Skipped
  <2>1. After(x, s[n]) = x
    BY <1>11, BackIsNotSkipped DEF After
  <2>2. L = K
    <3>1. \A i \in K : height[n] >= height[i]
      BY <1>4, <1>9, <1>10, <1>11
    <3> QED BY <1>5, <1>6, <1>7, <1>8, <1>11, <3>1 DEF Turned
  <2>3. InOrder(s, height, n, x, o)
    <3>1. o \in [1 .. m -> 1 .. n]
      BY <1>2, <1>3
    <3> QED BY <1>3, <1>4, <1>11, <2>2, <3>1 DEF InOrder, m, L
  <2> QED BY <1>2, <2>1, <2>3 DEF Left
<1>12. CASE s[n] \notin Turned
  <2> DEFINE y == Append(x, s[n])
             p == [k \in 1 .. m + 1 |-> IF k = m + 1 THEN n ELSE o[k]]
  <2>1. After(x, s[n]) = y
    BY <1>12 DEF After, Turned
  <2>2. /\ y \in Seq(S) /\ Len(y) = m + 1 /\ y[m + 1] = s[n]
        /\ \A k \in 1 .. m : y[k] = x[k]
    BY <1>2, AppendProperties DEF m
  <2>3. L = K \cup {n}
    <3>1. \A k \in 1 .. m : height[n] >= height[o[k]]
      <4>1. height[n] = height[n - 1] + 1
        BY <1>4, <1>12
      <4>2. \A k \in 1 .. m : height[o[k]] = height[n - 1] - (m - k)
        BY <1>3
      <4> QED BY <1>2, <1>15, <4>1, <4>2
    <3>2. \A i \in K : height[n] >= height[i]
      BY <1>9, <3>1
    <3> QED BY <1>5, <1>6, <1>7, <1>8, <1>12, <3>2
  <2>4. /\ m + 1 \in 1 .. m + 1 /\ p[m + 1] = n
        /\ \A k \in 1 .. m : k \in 1 .. m + 1 /\ p[k] = o[k]
        /\ \A k \in 1 .. m + 1 : k = m + 1 \/ k \in 1 .. m
    BY <1>2
  <2>5. DOMAIN p = 1 .. m + 1 /\ p = [k \in 1 .. m + 1 |-> p[k]]
    OBVIOUS
  <2> HIDE DEF p, y
  <2>6. p \in [1 .. m + 1 -> 1 .. n]
    <3>1. \A k \in 1 .. m : p[k] \in 1 .. n
      BY <1>2, <1>10, <2>4
    <3>2. p[m + 1] \in 1 .. n
      BY <1>2, <2>4
    <3>3. \A k \in 1 .. m + 1 : p[k] \in 1 .. n
      BY <2>4, <3>1, <3>2
    <3> QED BY <2>5, <3>3
  <2>7. Increasing(p, m + 1)
    <3>1. ASSUME NEW i \in 1 .. m + 1, NEW j \in 1 .. m + 1, i < j PROVE p[i] < p[j]
      <4>1. i \in 1 .. m
        BY <1>2, <3>1
      <4>2. CASE j = m + 1
        BY <1>2, <1>10, <2>4, <4>1, <4>2
      <4>3. CASE j \in 1 .. m
        BY <1>3, <2>4, <3>1, <4>1, <4>3 DEF Increasing
      <4> QED BY <2>4, <4>2, <4>3
    <3> QED BY <3>1 DEF Increasing
  <2>8. Range(p) = L
    <3>1. Range(p) = {p[k] : k \in 1 .. m + 1}
      BY <2>5 DEF Range
    <3>2. \A i \in L : \E k \in 1 .. m + 1 : i = p[k]
      BY <1>9, <2>3, <2>4
    <3>3. \A k \in 1 .. m + 1 : p[k] \in L
      BY <1>10, <2>3, <2>4
    <3> QED BY <3>1, <3>2, <3>3
  <2>9. ASSUME NEW k \in 1 .. m + 1
        PROVE  y[k] = s[p[k]] /\ height[p[k]] = height[n] - (m + 1 - k)
    <3>1. CASE k = m + 1
      <4>1. y[k] = s[n] /\ p[k] = n
        BY <2>2, <2>4, <3>1
      <4>2. height[n] = height[n] - (m + 1 - k)
        <5>1. height[n] \in Int
          BY <1>4
        <5> QED BY <1>2, <3>1, <5>1
      <4> QED BY <4>1, <4>2
    <3>2. CASE k \in 1 .. m
      <4>1. y[k] = s[o[k]] /\ height[o[k]] = height[n - 1] - (m - k) /\ p[k] = o[k]
        BY <1>3, <2>2, <2>4, <3>2
      <4>2. height[n - 1] \in Int /\ height[n] = height[n - 1] + 1
        BY <1>4, <1>12, <1>15
      <4> QED BY <1>2, <4>1, <4>2
    <3> QED BY <2>4, <3>1, <3>2
  <2>10. InOrder(s, height, n, y, p)
    <3> DEFINE q == Len(y)
    <3>1. q = m + 1
      BY <2>2
    <3> HIDE DEF q
    <3>2. /\ p \in [1 .. q -> 1 .. n] /\ Increasing(p, q) /\ Range(p) = Remaining(s, height, n)
          /\ \A k \in 1 .. q : y[k] = s[p[k]] /\ height[p[k]] = height[n] - (q - k)
      <4>1. p \in [1 .. q -> 1 .. n] /\ Increasing(p, q) /\ Range(p) = Remaining(s, height, n)
        BY <2>6, <2>7, <2>8, <3>1 DEF L
      <4>2. \A k \in 1 .. q : y[k] = s[p[k]] /\ height[p[k]] = height[n] - (q - k)
        <5> TAKE k \in 1 .. q
        <5>1. k \in 1 .. m + 1 /\ q - k = m + 1 - k
          BY <1>2, <3>1
        <5> QED BY <2>9, <5>1
      <4> QED BY <4>1, <4>2
    <3> QED BY <3>2 DEF InOrder, q
  <2> QED BY <2>1, <2>2, <2>10 DEF Left
<1>13. CASE s[n] = ".." /\ x = <<>>
  <2>1. After(x, s[n]) = x /\ m = 0
    BY <1>13, BackIsNotSkipped DEF After, m
  <2>2. K = {}
    <3>1. 1 .. m = {}
      BY <2>1
    <3> QED BY <1>9, <3>1
  <2>3. L = {}
    BY <1>5, <1>6, <1>7, <1>13, <2>2 DEF Turned
  <2>4. InOrder(s, height, n, x, o)
    <3>1. o \in [1 .. m -> 1 .. n] /\ 1 .. m = {}
      BY <1>2, <1>3, <2>1
    <3> QED BY <1>3, <2>2, <2>3, <3>1 DEF InOrder, m, L
  <2> QED BY <1>2, <2>1, <2>4 DEF Left
<1>14. CASE s[n] = ".." /\ x # <<>>
  <2> DEFINE y == Front(x)
             p == [k \in 1 .. m - 1 |-> o[k]]
  <2>1. After(x, s[n]) = y
    BY <1>14, BackIsNotSkipped DEF After
  <2>2. m >= 1 /\ m - 1 \in Nat
    <3>1. m # 0
      BY <1>2, <1>14, EmptySeq DEF m
    <3> QED BY <1>2, <3>1
  <2>3. /\ y \in Seq(S) /\ Len(y) = m - 1
        /\ \A k \in 1 .. m - 1 : y[k] = x[k]
    <3>1. m - 1 \in 0 .. Len(x) /\ y = SubSeq(x, 1, m - 1)
      BY <1>2, <2>2 DEF Front, m
    <3> HIDE DEF y
    <3> QED BY <1>2, <3>1, TwoParts
  <2>4. /\ \A k \in 1 .. m - 1 : k \in 1 .. m /\ p[k] = o[k] /\ k # m
        /\ \A k \in 1 .. m : k = m \/ k \in 1 .. m - 1
        /\ m \in 1 .. m
    BY <1>2, <2>2
  <2>5. DOMAIN p = 1 .. m - 1 /\ p = [k \in 1 .. m - 1 |-> p[k]]
    OBVIOUS
  <2> HIDE DEF p, y
  <2>6. height[n - 1] \in Int /\ height[n] = height[n - 1] - 1
    BY <1>4, <1>14, <1>15
  <2>7. \A k \in 1 .. m : o[k] \in L <=> k # m
    <3> TAKE k \in 1 .. m
    <3>1. o[k] \in L <=> height[n] >= height[o[k]]
      BY <1>5, <1>10
    <3>2. height[o[k]] = height[n - 1] - (m - k)
      BY <1>3
    <3> QED BY <1>2, <2>6, <3>1, <3>2
  <2>8. \A i \in L : i \in K
    BY <1>5, <1>6, <1>7, <1>14 DEF Turned
  <2>9. Range(p) = L
    <3>1. Range(p) = {p[k] : k \in 1 .. m - 1}
      BY <2>5 DEF Range
    <3> QED BY <1>9, <2>4, <2>7, <2>8, <3>1
  <2>10. p \in [1 .. m - 1 -> 1 .. n]
    <3>1. \A k \in 1 .. m - 1 : p[k] \in 1 .. n
      BY <1>2, <1>10, <2>4
    <3> QED BY <2>5, <3>1
  <2>11. Increasing(p, m - 1)
    BY <1>3, <2>4 DEF Increasing
  <2>12. ASSUME NEW k \in 1 .. m - 1
         PROVE  y[k] = s[p[k]] /\ height[p[k]] = height[n] - (m - 1 - k)
    <3>1. y[k] = s[o[k]] /\ height[o[k]] = height[n - 1] - (m - k) /\ p[k] = o[k]
      BY <1>3, <2>3, <2>4
    <3> QED BY <1>2, <2>6, <3>1
  <2>13. InOrder(s, height, n, y, p)
    BY <2>3, <2>9, <2>10, <2>11, <2>12 DEF InOrder, L
  <2> QED BY <2>1, <2>3, <2>13 DEF Left
<1> QED BY <1>11, <1>12, <1>13, <1>14 DEF Turned

\* What is decoded is a list of segments.
LEMMA DecodedIs ==
  ASSUME NEW r \in Request
  PROVE  Decoded(r.path) \in Seq(STRING)
<1> DEFINE path == r.path
           n == Len(path)
           lists == [i \in DOMAIN path |-> Spelling[path[i]]]
<1>1. path \in Seq(DOMAIN Spelling) /\ Spelling \in [DOMAIN Spelling -> Seq(STRING)]
  BY PolicyAssumption
<1>2. n \in Nat /\ DOMAIN path = 1 .. n /\ \A i \in 1 .. n : path[i] \in DOMAIN Spelling
  BY <1>1, LenProperties, ElementOfSeq
<1> HIDE DEF path, n
<1>3. lists \in Seq(Seq(STRING))
  <2>1. \A i \in 1 .. n : Spelling[path[i]] \in Seq(STRING)
    BY <1>1, <1>2
  <2>2. [i \in 1 .. n |-> Spelling[path[i]]] \in Seq(Seq(STRING))
    BY <1>2, <2>1, IsASeq
  <2> QED BY <1>2, <2>2
<1> HIDE DEF lists
<1>4. FlattenSeq(lists) \in Seq(STRING)
  BY <1>3, Flattened
<1> QED BY <1>4 DEF Decoded, lists, path

\* What the code is left with is what no later segment goes back over.
LEMMA NormalizedLeaves ==
  ASSUME NEW A, NEW path, NEW s \in Seq(A), Decoded(path) = s, NEW height, Climb(s, height)
  PROVE  Left(A, s, height, Len(s), Normalized(path))
<1> DEFINE N == Len(s)
           T == Seq(A)
           Defined(f) == f = [n \in 0 .. N |-> IF n = 0 THEN <<>> ELSE After(f[n - 1], s[n])]
           step == [n \in 1 .. N |-> [x \in T |-> After(x, s[n])]]
<1>1. N \in Nat /\ \A n \in 1 .. N : s[n] \in A
  BY LenProperties, ElementOfSeq
<1>2. ASSUME NEW n \in 1 .. N, NEW x \in T
      PROVE  After(x, s[n]) \in T
  <2>1. s[n] \in A /\ Append(x, s[n]) \in Seq(A)
    BY <1>1, AppendProperties
  <2>2. x # <<>> => Front(x) \in Seq(A)
    <3> SUFFICES ASSUME x # <<>> PROVE Front(x) \in Seq(A)
      OBVIOUS
    <3>1. Len(x) \in Nat /\ Len(x) # 0
      BY LenProperties, EmptySeq
    <3>2. Len(x) - 1 \in 0 .. Len(x)
      BY <3>1
    <3> QED BY <3>2, TwoParts DEF Front
  <2> QED BY <2>1, <2>2, BackIsNotSkipped DEF After
<1>14. <<>> \in T
  BY EmptySeq
<1> HIDE DEF N, T
<1>3. step \in [1 .. N -> [T -> T]] /\ \A n \in 1 .. N, x \in T : step[n][x] = After(x, s[n])
  BY <1>2
<1> HIDE DEF step
<1>4. \E f : Defined(f)
  <2> DEFINE e == <<>>
  <2>0. e \in T
    BY <1>14
  <2> HIDE DEF e
  <2>1. PICK g \in [0 .. N -> T] : g[0] = e /\ \A i \in 1 .. N : g[i] = step[i][g[i - 1]]
    <3>1. N \in Nat /\ step \in [1 .. N -> [T -> T]]
      BY <1>1, <1>3
    <3>2. \E g \in [0 .. N -> T] : g[0] = e /\ \A i \in 1 .. N : g[i] = step[i][g[i - 1]]
      <4> HIDE DEF Defined
      <4> QED BY <2>0, <3>1, Recursion, SMTT(60)
    <3> QED BY <3>2
  <2>2. ASSUME NEW n \in 0 .. N PROVE g[n] = IF n = 0 THEN e ELSE After(g[n - 1], s[n])
    <3>1. n # 0 => n \in 1 .. N /\ n - 1 \in 0 .. N
      BY <1>1
    <3> QED BY <1>3, <2>1, <3>1
  <2>3. g = [n \in 0 .. N |-> IF n = 0 THEN e ELSE After(g[n - 1], s[n])]
    BY <2>2
  <2> QED BY <2>3 DEF e
<1> DEFINE f == CHOOSE f : Defined(f)
<1>5. Defined(f)
  BY <1>4
<1>6. Normalized(path) = f[N]
  BY DEF Normalized, N
<1> HIDE DEF f
<1>7. f[0] = <<>> /\ \A i \in 1 .. N : f[i] = After(f[i - 1], s[i])
  <2>1. 0 \in 0 .. N /\ \A i \in 1 .. N : i \in 0 .. N /\ i # 0
    BY <1>1
  <2> QED BY <1>5, <2>1
<1> DEFINE Bad == {n \in 0 .. N : ~Left(A, s, height, n, f[n])}
<1>8. Left(A, s, height, 0, f[0])
  BY <1>7, LeftOfNone
<1>9. ASSUME NEW n \in 1 .. N, Left(A, s, height, n - 1, f[n - 1])
      PROVE  Left(A, s, height, n, f[n])
  <2>1. n \in 1 .. Len(s) /\ f[n] = After(f[n - 1], s[n])
    BY <1>7 DEF N
  <2> QED BY <1>9, <2>1, LeftNext
<1>10. Bad = {}
  <2>1. Bad \in SUBSET (0 .. N) /\ 0 \notin Bad
    BY <1>8
  <2>2. \A i \in 1 .. N : i - 1 \notin Bad => i \notin Bad
    <3> TAKE i \in 1 .. N
    <3>1. i - 1 \in 0 .. N /\ i \in 0 .. N
      BY <1>1
    <3> QED BY <1>9, <3>1
  <2> HIDE DEF Bad
  <2> QED BY <1>1, <2>1, <2>2, NoCounterexample
<1>11. N \in 0 .. N
  BY <1>1
<1> QED BY <1>6, <1>10, <1>11 DEF N

LEMMA HeightExists ==
  ASSUME NEW s, NEW N \in Nat
  PROVE  \E height : height = [n \in 0 .. N |-> IF n = 0 THEN 0 ELSE height[n - 1] + Rise(s[n])]
<1> DEFINE T == Int
           e == 0
           step == [n \in 1 .. N |-> [h \in T |-> h + Rise(s[n])]]
<1>1. step \in [1 .. N -> [T -> T]] /\ \A n \in 1 .. N, h \in T : step[n][h] = h + Rise(s[n])
  <2>1. \A n \in 1 .. N : Rise(s[n]) \in Int
    BY RiseIs
  <2> QED BY <2>1
<1>5. e \in T /\ e = 0
  OBVIOUS
<1> HIDE DEF step, T, e
<1>2. PICK g \in [0 .. N -> T] : g[0] = e /\ \A i \in 1 .. N : g[i] = step[i][g[i - 1]]
  <2>1. e \in T /\ step \in [1 .. N -> [T -> T]]
    BY <1>1, <1>5
  <2> QED BY <2>1, Recursion
<1>3. ASSUME NEW n \in 0 .. N PROVE g[n] = IF n = 0 THEN 0 ELSE g[n - 1] + Rise(s[n])
  <2>1. n # 0 => n \in 1 .. N /\ n - 1 \in 0 .. N
    OBVIOUS
  <2> QED BY <1>1, <1>2, <1>5, <2>1
<1>4. g = [n \in 0 .. N |-> IF n = 0 THEN 0 ELSE g[n - 1] + Rise(s[n])]
  BY <1>3
<1> QED BY <1>4

\* The k-th of a set in its order is the one that k of the set do not exceed.
LEMMA InItsOrder ==
  ASSUME NEW n \in Nat, NEW m \in Nat, NEW o \in [1 .. m -> 1 .. n], Increasing(o, m)
  PROVE  /\ Cardinality(Range(o)) = m
         /\ \A k \in 1 .. m : (CHOOSE i \in Range(o) : Cardinality({j \in Range(o) : j <= i}) = k) = o[k]
<1>1. \A i, j \in 1 .. m : (i < j => o[i] < o[j]) /\ (i <= j <=> o[i] <= o[j])
  <2> TAKE i, j \in 1 .. m
  <2>1. (i < j => o[i] < o[j]) /\ (j < i => o[j] < o[i])
    BY DEF Increasing
  <2>2. o[i] \in Int /\ o[j] \in Int /\ (i < j \/ i = j \/ j < i)
    OBVIOUS
  <2> QED BY <2>1, <2>2
<1>2. Cardinality(Range(o)) = m
  <2>1. DOMAIN o = 1 .. m /\ o = [i \in 1 .. m |-> o[i]]
    OBVIOUS
  <2>2. IsInjective(o)
    BY <1>1 DEF IsInjective
  <2> QED BY <2>1, <2>2, ManyValues
<1>3. \A i \in Range(o) : \E k \in 1 .. m : i = o[k]
  BY DEF Range
<1>4. \A k \in 1 .. m : o[k] \in Range(o)
  BY DEF Range
<1>5. ASSUME NEW k \in 1 .. m
      PROVE  Cardinality({j \in Range(o) : j <= o[k]}) = k
  <2> DEFINE part == [i \in 1 .. k |-> o[i]]
             below == {j \in Range(o) : j <= o[k]}
  <2>1. k \in Nat /\ \A i \in 1 .. k : i \in 1 .. m /\ i <= k
    OBVIOUS
  <2>2. DOMAIN part = 1 .. k /\ part = [i \in 1 .. k |-> part[i]] /\ \A i \in 1 .. k : part[i] = o[i]
    OBVIOUS
  <2> HIDE DEF part
  <2>3. Range(part) = below
    <3>1. \A i \in 1 .. k : o[i] \in below
      BY <1>1, <1>4, <2>1
    <3>2. \A j \in below : \E i \in 1 .. k : j = o[i]
      <4> TAKE j \in below
      <4>1. PICK i \in 1 .. m : j = o[i]
        BY <1>3
      <4>2. i <= k
        BY <1>1, <4>1
      <4>3. i \in 1 .. k
        BY <2>1, <4>2
      <4> QED BY <4>1, <4>3
    <3> HIDE DEF below
    <3> QED BY <2>2, <3>1, <3>2 DEF Range
  <2>4. IsInjective(part)
    <3>1. \A i, j \in 1 .. k : part[i] = part[j] => i = j
      <4> TAKE i, j \in 1 .. k
      <4>1. o[i] = o[j] => i <= j /\ j <= i
        BY <1>1, <2>1
      <4> QED BY <2>1, <2>2, <4>1
    <3> QED BY <2>2, <3>1 DEF IsInjective
  <2> HIDE DEF below
  <2>5. Cardinality(below) = k
    BY <2>1, <2>2, <2>3, <2>4, ManyValues
  <2> QED BY <2>5 DEF below
<1>6. ASSUME NEW k \in 1 .. m
      PROVE  (CHOOSE i \in Range(o) : Cardinality({j \in Range(o) : j <= i}) = k) = o[k]
  <2> DEFINE Is(i) == Cardinality({j \in Range(o) : j <= i}) = k
  <2>1. o[k] \in Range(o) /\ Is(o[k])
    BY <1>4, <1>5
  <2>2. ASSUME NEW i \in Range(o), Is(i) PROVE i = o[k]
    <3>1. PICK l \in 1 .. m : i = o[l]
      BY <1>3
    <3>2. Cardinality({j \in Range(o) : j <= o[l]}) = l
      BY <1>5
    <3> QED BY <2>2, <3>1, <3>2
  <2> HIDE DEF Is
  <2>3. (CHOOSE i \in Range(o) : Is(i)) = o[k]
    BY <2>1, <2>2
  <2> QED BY <2>3 DEF Is
<1> QED BY <1>2, <1>6

\* The path of a request is resolved as a server does.
LEMMA PathIsResolved ==
  ASSUME NEW r \in Request
  PROVE  Normalized(r.path) = Routed(r.path)
<1> DEFINE s == Decoded(r.path)
           N == Len(s)
           Defined(h) == h = [n \in 0 .. N |-> IF n = 0 THEN 0 ELSE h[n - 1] + Rise(s[n])]
           height == CHOOSE h : Defined(h)
           stays == {i \in DOMAIN s : /\ s[i] \notin Skipped \cup {".."}
                                      /\ \A j \in i + 1 .. N : height[j] >= height[i]}
           routed == [k \in 1 .. Cardinality(stays) |->
                        s[CHOOSE i \in stays : Cardinality({j \in stays : j <= i}) = k]]
           x == Normalized(r.path)
           m == Len(x)
<1>1. Routed(r.path) = routed
  BY DEF Routed
<1>2. s \in Seq(STRING) /\ N \in Nat /\ DOMAIN s = 1 .. N
  BY DecodedIs, LenProperties
<1> HIDE DEF s
<1>3. Defined(height)
  BY <1>2, HeightExists
<1> HIDE DEF height
<1>4. Climb(s, height)
  BY <1>2, <1>3, Climbs
<1>5. Left(STRING, s, height, N, x)
  BY <1>2, <1>4, NormalizedLeaves DEF s
<1>6. stays = Remaining(s, height, N)
  BY <1>2 DEF Remaining, Turned
<1> HIDE DEF stays, x, N
<1>7. PICK o : InOrder(s, height, N, x, o)
  BY <1>5 DEF Left
<1>8. /\ x \in Seq(STRING) /\ m \in Nat /\ o \in [1 .. m -> 1 .. N] /\ Increasing(o, m)
      /\ Range(o) = stays /\ \A k \in 1 .. m : x[k] = s[o[k]]
  BY <1>5, <1>6, <1>7, LenProperties DEF InOrder, Left
<1>9. x = [k \in 1 .. m |-> x[k]]
  BY <1>8, LenProperties
<1> HIDE DEF m
<1>10. /\ Cardinality(stays) = m
       /\ \A k \in 1 .. m : (CHOOSE i \in stays : Cardinality({j \in stays : j <= i}) = k) = o[k]
  <2> DEFINE R == Range(o)
  <2>1. /\ Cardinality(R) = m
        /\ \A k \in 1 .. m : (CHOOSE i \in R : Cardinality({j \in R : j <= i}) = k) = o[k]
    BY <1>2, <1>8, InItsOrder
  <2>2. R = stays
    BY <1>8
  <2> HIDE DEF R
  <2> QED BY Zenon, <2>1, <2>2
<1> DEFINE at(k) == CHOOSE i \in stays : Cardinality({j \in stays : j <= i}) = k
<1>11. routed = [k \in 1 .. m |-> s[at(k)]]
  BY <1>10
<1>12. \A k \in 1 .. m : s[at(k)] = x[k]
  BY <1>8, <1>10
<1> HIDE DEF at, routed
<1>13. routed = x
  BY <1>9, <1>11, <1>12
<1> QED BY <1>1, <1>13 DEF x

-----------------------------------------------------------------------------
(* What the rules say *)

\* A command that has its mode in the file of the workspace gets it, if the
\* global file says nothing of it.
LEMMA SettledDecides ==
  ASSUME rules \in [File -> ProjectRules], NEW w \in Workspace, NEW c, NEW mode,
         c \notin Forbidden, Loaded(w), Settled(rules[w].commands, c, mode),
         \A i \in DOMAIN rules[Global].commands : rules[Global].commands[i].command # c
  PROVE  CommandDecision(w, c) = mode
<1> DEFINE all == Commands(w)
<1>1. all \in Seq(HostdoCommand) /\ Settled(all, c, mode)
  BY ComposedCommands, SettledBehind DEF Commands
<1>2. FindHostdo(w, c) = Find(all, c)
  BY DEF FindHostdo, Find
<1> HIDE DEF all
<1>3. PICK k \in DOMAIN all : FirstOf(all, c, k) /\ all[k].mode = mode
  BY <1>1 DEF Settled
<1>4. FirstOf(all, c, Find(all, c)) /\ Find(all, c) # 0
  BY <1>1, <1>3, FirstIsFound DEF FirstOf
<1>5. Find(all, c) = k
  BY <1>1, <1>3, <1>4, FirstIsOne
<1> QED BY <1>2, <1>3, <1>4, <1>5 DEF CommandDecision, all

LEMMA HeldNow == Inv => RememberedHolds
<1> SUFFICES ASSUME Inv, NEW m \in remembered, Loaded(m.workspace)
             PROVE  \/ /\ m.what \in Request
                       /\ \/ Decision(m.workspace, m.what) = m.policy
                          \/ /\ m.policy = "auto"
                             /\ \E rule \in rules[Global].deny
                                   \cup (DenyRules(m.workspace) \ {Entry(m.what, "auto")}) :
                                  Matches(rule, m.what, TRUE)
                    \/ /\ m.what \in Command
                       /\ \/ CommandDecision(m.workspace, m.what) = m.policy
                          \/ \E i \in DOMAIN rules[Global].commands :
                               rules[Global].commands[i].command = m.what
  BY DEF RememberedHolds, TypeOK, Inv, Asks, Typed
<1> DEFINE w == m.workspace
           r == m.what
<1>1. Typed(m) /\ Kept(rules[w], m) /\ rules \in [File -> ProjectRules]
  BY DEF Inv
<1>2. CASE r \in Request
  <2>1. r \notin Command
    BY <1>2, PolicyAssumption
  <2>2. CASE m.policy = "deny"
    <3>1. Denied(w, r)
      BY <1>1, <2>1, <2>2, EntryDecides DEF Kept, Denied, DenyRules
    <3> QED BY <1>2, <2>2, <3>1, DecisionIs
  <2>3. CASE m.policy = "auto"
    <3>1. Entry(r, "auto") \in rules[w].allow /\ Entry(r, "auto") \notin rules[w].deny
      BY <1>1, <2>1, <2>3 DEF Kept
    <3>2. Permitted(w, r)
      BY <3>1, EntryDecides DEF Permitted, AllowRules
    <3>3. CASE Denied(w, r)
      <4>1. PICK rule \in DenyRules(w) : Matches(rule, r, TRUE)
        BY <3>3 DEF Denied
      <4>2. rule \in rules[Global].deny \cup (DenyRules(w) \ {Entry(r, "auto")})
        BY <3>1, <4>1 DEF DenyRules
      <4> QED BY <1>2, <2>3, <4>1, <4>2
    <3>4. CASE ~Denied(w, r)
      BY <1>2, <2>3, <3>2, <3>4, DecisionIs
    <3> QED BY <3>3, <3>4
  <2> QED BY <1>1, <2>2, <2>3 DEF Typed
<1>3. CASE r \notin Request
  <2>1. w \in Workspace /\ r \in Command \ Forbidden /\ Settled(rules[w].commands, r, m.policy)
    BY <1>1, <1>3, PolicyAssumption DEF Kept, Typed
  <2> QED BY <1>1, <2>1, SettledDecides
<1> QED BY <1>2, <1>3

\* An answer that was remembered decides the next request like it
\* (match_network_for_port and find_hostdo, on the file it was written to).
THEOREM AnswersHold == Spec => []RememberedHolds
<1> QED BY PolicyInvariant, HeldNow, PTL

\* A denial matches what it denies.
LEMMA DeniedMatches ==
  ASSUME NEW rule, NEW r \in Request, DeniedBy(rule, r)
  PROVE  Matches(rule, r, TRUE)
<1>1. PathMatches(rule, r.path)
  BY PathIsResolved DEF PathMatches, DeniedBy, IsStrictPrefix
<1>2. RuleMatches(rule, r.method, r, r.path)
  BY <1>1 DEF RuleMatches, MethodMatches, DeniedBy
<1>3. r.method = "CONNECT" => r.path = <<>>
  BY PolicyAssumption
<1> QED BY <1>2, <1>3 DEF Matches, ConnectMatches, NetworkMatches, DeniedBy

\* What a rule of either file denies does not pass network_policy_allows, for any
\* rules files and for a path of any length, as normalize_path_for_match resolves it.
THEOREM DeniedStaysOut == Spec => []DenialsHold
<1>1. DenialsHold
  <2>1. ASSUME NEW w \in Workspace, NEW r \in Request, NEW f \in {Global, w},
               NEW rule \in rules[f].deny, DeniedBy(rule, r)
        PROVE  Decision(w, r) \in {"deny", "refused"}
    <3>1. Matches(rule, r, TRUE) /\ rule \in DenyRules(w)
      BY <2>1, DeniedMatches DEF DenyRules
    <3>2. Denied(w, r)
      BY <3>1 DEF Denied
    <3> QED BY <3>2, DecisionIs
  <2> QED BY <2>1 DEF DenialsHold
<1> QED BY <1>1, PTL

-----------------------------------------------------------------------------
(* What an answer opens *)

LEMMA AutoNext ==
  ASSUME NEW w, NEW r, Decision(w, r)' = "auto"
  PROVE  Loaded(w)' /\ ~Denied(w, r)' /\ (Open(r) \/ Permitted(w, r)')
<1>1. /\ Denied(w, r)' => MatchNetwork(w, r)' = "deny"
      /\ ~Denied(w, r)' /\ ~Permitted(w, r)' => MatchNetwork(w, r)' = "prompt"
  BY Zenon DEF MatchNetwork, Denied, Permitted
<1>2. /\ ~Loaded(w)' => Decision(w, r)' = "refused"
      /\ Loaded(w)' /\ (MatchNetwork(w, r)' = "deny" \/ ~Open(r))
           => Decision(w, r)' = MatchNetwork(w, r)'
  BY DEF Decision, Open
<1> QED BY <1>1, <1>2

\* Files that say the same of domains decide the same.
LEMMA SameRules ==
  ASSUME NEW w, NEW r, Loaded(w), DenyRules(w)' = DenyRules(w), AllowRules(w)' = AllowRules(w),
         Decision(w, r)' = "auto"
  PROVE  Decision(w, r) = "auto"
<1>1. Denied(w, r)' <=> Denied(w, r)
  BY DEF Denied
<1>2. Permitted(w, r)' <=> Permitted(w, r)
  BY DEF Permitted
<1> QED BY <1>1, <1>2, AutoNext, DecisionIs

\* A denial opens nothing.
LEMMA DenialOpensNothing ==
  ASSUME NEW w, NEW r, Loaded(w), DenyRules(w) \subseteq DenyRules(w)',
         AllowRules(w)' \subseteq AllowRules(w), Decision(w, r)' = "auto"
  PROVE  Decision(w, r) = "auto" \/ Permitted(w, r)
<1>1. Denied(w, r) => Denied(w, r)'
  BY DEF Denied
<1>2. Permitted(w, r)' => Permitted(w, r)
  BY DEF Permitted
<1> QED BY <1>1, <1>2, AutoNext, DecisionIs

\* An allowance opens what its rule matches.
LEMMA AllowanceOpens ==
  ASSUME NEW w, NEW r, NEW q, ~Open(q), Loaded(w),
         DenyRules(w) \subseteq DenyRules(w)' \cup {Entry(q, "auto")},
         AllowRules(w)' \subseteq AllowRules(w) \cup {Entry(q, "auto")},
         Decision(w, r)' = "auto"
  PROVE  \/ Decision(w, r) = "auto" \/ Permitted(w, r)
         \/ q.host = r.host /\ (IsRaw(r) \/ IsRaw(q) => r.port = q.port)
<1> DEFINE e == Entry(q, "auto")
<1>1. Loaded(w)' /\ ~Denied(w, r)' /\ (Open(r) \/ Permitted(w, r)')
  BY AutoNext
<1>2. Denied(w, r) => Matches(e, r, TRUE)
  BY <1>1 DEF Denied
<1>3. Permitted(w, r)' => Permitted(w, r) \/ Matches(e, r, FALSE)
  BY DEF Permitted
<1>4. \A d \in BOOLEAN : Matches(e, r, d) =>
        /\ q.host = r.host
        /\ IsRaw(q) => r.port = q.port
        /\ r.method = "CONNECT" => IsRaw(q) \/ d \/ r.port = 443
  BY EntryMatches
<1> HIDE DEF e
<1>5. CASE Matches(e, r, FALSE)
  <2>1. /\ q.host = r.host
        /\ IsRaw(q) => r.port = q.port
        /\ r.method = "CONNECT" => IsRaw(q) \/ r.port = 443
    BY <1>5, <1>4
  <2> QED BY <2>1 DEF IsRaw
<1>6. CASE Matches(e, r, TRUE) /\ Open(r)
  <2>1. /\ q.host = r.host
        /\ IsRaw(q) => r.port = q.port
    BY <1>6, <1>4
  <2>2. ~HostAllowed(r.host)
    BY <2>1 DEF Open
  <2>3. ~IsRaw(r)
    BY <1>6, <2>2 DEF Open, LocalForward, IsRaw
  <2> QED BY <2>1, <2>3
<1> QED BY <1>1, <1>2, <1>3, <1>5, <1>6, DecisionIs

\* What an answer of the user does to the rules that are composed.
LEMMA AnswerStep ==
  ASSUME Inv, NEW w \in Workspace, NEW item \in pending, NEW policy \in {"auto", "deny"},
         RememberNetwork(item, policy) \/ RememberCommand(item, policy),
         Loaded(w)'
  PROVE  /\ Loaded(w)
         /\ \/ w # item.workspace \/ item.what \in Command
            => DenyRules(w)' = DenyRules(w) /\ AllowRules(w)' = AllowRules(w)
         /\ w = item.workspace /\ item.what \in Request /\ policy = "deny"
            => DenyRules(w) \subseteq DenyRules(w)' /\ AllowRules(w)' \subseteq AllowRules(w)
         /\ w = item.workspace /\ item.what \in Request /\ policy = "auto"
            => /\ DenyRules(w) \subseteq DenyRules(w)' \cup {Entry(item.what, "auto")}
               /\ AllowRules(w)' \subseteq AllowRules(w) \cup {Entry(item.what, "auto")}
<1>1. /\ item.workspace \in File /\ item.workspace # Global
      /\ w \in File /\ w # Global /\ Global \in File
      /\ item.what \in Request \cup Command /\ Request \cap Command = {}
      /\ item.what \in Command => item.timeout \in Seconds
  BY PolicyAssumption DEF Inv, Asks, File
<1>2. rules \in [File -> ProjectRules] /\ policy \in Policies
  BY DEF Inv, Policies
<1>3. Loads(rules[item.workspace])
  BY DEF RememberNetwork, RememberCommand
<1> SUFFICES ASSUME NEW old \in ProjectRules, old = rules[item.workspace],
                    NEW new, rules' = [rules EXCEPT ![item.workspace] = new],
                    \/ item.what \in Request /\ new = WithEntry(old, Entry(item.what, policy), policy)
                    \/ item.what \in Command /\ new = WithCommand(old, item, policy)
             PROVE  /\ Loaded(w)
                    /\ \/ w # item.workspace \/ item.what \in Command
                       => DenyRules(w)' = DenyRules(w) /\ AllowRules(w)' = AllowRules(w)
                    /\ w = item.workspace /\ item.what \in Request /\ policy = "deny"
                       => DenyRules(w) \subseteq DenyRules(w)' /\ AllowRules(w)' \subseteq AllowRules(w)
                    /\ w = item.workspace /\ item.what \in Request /\ policy = "auto"
                       => /\ DenyRules(w) \subseteq DenyRules(w)' \cup {Entry(item.what, "auto")}
                          /\ AllowRules(w)' \subseteq AllowRules(w) \cup {Entry(item.what, "auto")}
  BY <1>1, <1>2, Zenon DEF RememberNetwork, RememberCommand
<1>4. rules'[Global] = rules[Global] /\ rules'[w] = IF w = item.workspace THEN new ELSE rules[w]
  BY <1>1, <1>2
<1>5. Loaded(w)
  BY <1>3, <1>4 DEF Loaded
<1>6. ASSUME w # item.workspace
      PROVE  DenyRules(w)' = DenyRules(w) /\ AllowRules(w)' = AllowRules(w)
  BY <1>4, <1>6 DEF DenyRules, AllowRules
<1>7. ASSUME item.what \in Command, w = item.workspace
      PROVE  DenyRules(w)' = DenyRules(w) /\ AllowRules(w)' = AllowRules(w)
  <2>1. new = WithCommand(old, item, policy)
    BY <1>1, <1>7
  <2>2. new.allow = old.allow /\ new.deny = old.deny
    BY <1>1, <1>2, <1>7, <2>1, WithCommandIs
  <2> QED BY <1>4, <1>7, <2>2 DEF DenyRules, AllowRules
<1>8. ASSUME item.what \in Request, w = item.workspace
      PROVE  /\ policy = "deny" =>
                  DenyRules(w) \subseteq DenyRules(w)' /\ AllowRules(w)' \subseteq AllowRules(w)
             /\ policy = "auto" =>
                  /\ DenyRules(w) \subseteq DenyRules(w)' \cup {Entry(item.what, "auto")}
                  /\ AllowRules(w)' \subseteq AllowRules(w) \cup {Entry(item.what, "auto")}
  <2> DEFINE e == Entry(item.what, policy)
  <2>1. e \in NetworkRule /\ new = WithEntry(old, e, policy)
    BY <1>1, <1>8, EntryIsRule
  <2> HIDE DEF e
  <2>2. /\ policy = "auto" => new.allow = old.allow \cup {e} /\ new.deny = old.deny \ {e}
        /\ policy # "auto" => new.allow = old.allow \ {e} /\ new.deny = old.deny \cup {e}
    BY <2>1, WithEntryIs
  <2>3. /\ DenyRules(w)' = rules[Global].deny \cup new.deny
        /\ AllowRules(w)' = rules[Global].allow \cup new.allow
        /\ DenyRules(w) = rules[Global].deny \cup old.deny
        /\ AllowRules(w) = rules[Global].allow \cup old.allow
    BY <1>4, <1>8 DEF DenyRules, AllowRules
  <2> QED BY <2>2, <2>3 DEF e
<1> QED BY <1>5, <1>6, <1>7, <1>8

LEMMA NarrowStep ==
  ASSUME Inv, [Next]_vars, NEW w \in Workspace, NEW r \in Request,
         NEW m \in remembered' \ remembered, Decision(w, r)' = "auto"
  PROVE  \/ Decision(w, r) = "auto" \/ \E rule \in AllowRules(w) : Matches(rule, r, FALSE)
         \/ /\ m.workspace = w /\ m.what.host = r.host
            /\ IsRaw(r) \/ IsRaw(m.what) => r.port = m.what.port
<1>1. PICK item \in pending, policy \in {"auto", "deny"} :
        /\ RememberNetwork(item, policy) \/ RememberCommand(item, policy)
        /\ m = [workspace |-> item.workspace, what |-> item.what, policy |-> policy]
  BY DEF Next, vars, AskNetwork, AskCommand, AnswerOnce, Edit,
         RememberNetwork, RememberCommand, Remember
<1>2. Loaded(w)'
  BY AutoNext
<1>3. Asks(item) /\ Request \cap Command = {}
  BY PolicyAssumption DEF Inv
<1>4. CASE w # item.workspace \/ item.what \in Command
  BY <1>1, <1>2, <1>4, AnswerStep, SameRules
<1>5. CASE w = item.workspace /\ item.what \in Request /\ policy = "deny"
  BY <1>1, <1>2, <1>5, AnswerStep, DenialOpensNothing DEF Permitted
<1>6. CASE w = item.workspace /\ item.what \in Request /\ policy = "auto"
  <2>1. ~Open(item.what)
    BY <1>3, <1>6 DEF Asks
  <2>2. /\ Loaded(w)
        /\ DenyRules(w) \subseteq DenyRules(w)' \cup {Entry(item.what, "auto")}
        /\ AllowRules(w)' \subseteq AllowRules(w) \cup {Entry(item.what, "auto")}
    BY <1>1, <1>2, <1>6, AnswerStep
  <2>3. \/ Decision(w, r) = "auto" \/ Permitted(w, r)
        \/ item.what.host = r.host /\ (IsRaw(r) \/ IsRaw(item.what) => r.port = item.what.port)
    BY <2>1, <2>2, AllowanceOpens
  <2>4. m.workspace = w /\ m.what = item.what
    BY <1>1, <1>6
  <2> QED BY <2>3, <2>4 DEF Permitted
<1> QED BY <1>3, <1>4, <1>5, <1>6 DEF Asks

\* Of what no rule allowed, an answer opens its host only, and raw tunnels and
\* other requests not for each other (pending_network_rule_entry).
THEOREM AnswersAreNarrow == Spec => AllowancesStayNarrow
<1>1. Inv /\ [Next]_vars =>
        [\A w \in Workspace, r \in Request, m \in remembered' \ remembered :
           Decision(w, r)' = "auto" =>
             \/ Decision(w, r) = "auto" \/ \E rule \in AllowRules(w) : Matches(rule, r, FALSE)
             \/ /\ m.workspace = w /\ m.what.host = r.host
                /\ IsRaw(r) \/ IsRaw(m.what) => r.port = m.what.port]_vars
  BY NarrowStep
<1> QED BY <1>1, PolicyInvariant, PTL DEF Spec, AllowancesStayNarrow

=============================================================================
