-------------------------- MODULE RulesGuardProofs --------------------------
(***************************************************************************)
(* Theorems about RulesGuard, for any workspaces, rules, requests, editors *)
(* and bounds.                                                             *)
(***************************************************************************)
EXTENDS RulesGuard, TLAPS, SequenceTheorems

-----------------------------------------------------------------------------
(* Type correctness *)

\* A handler that is open works on a file.
AppFile == app.op # "idle" => app.file \in File
TypeInv == TypeOK /\ AppFile

\* The present contents of a file are contents.
LEMMA CurrentIsBody ==
  ASSUME TypeOK, NEW f \in File
  PROVE  Current(f) \in Body /\ Gen(f) \in Nat \ {0} /\ Stamp(f) \in Nat
<1>1. hist[f] \in Seq(Body) /\ hist[f] # <<>>
  BY DEF TypeOK, Histories
<1>2. Len(hist[f]) \in Nat \ {0} /\ hist[f][Len(hist[f])] \in Body
  BY <1>1
<1> QED BY <1>2 DEF Current, Gen, Stamp

\* A guard stays a guard when entries are blocked or trusted.
LEMMA GuardType ==
  ASSUME NEW g \in Guards, NEW f, NEW b \in AnyBody, NEW cfg, NEW w
  PROVE  /\ Open(b) \in Entry
         /\ [g EXCEPT ![f] = Open(b)] \in Guards
         /\ Block(g, f) \in Guards
         /\ Ensure(g, cfg, w) \in Guards
         /\ RulesStatus(g, cfg) \in Guards
<1>1. Open(b) \in Entry
  BY DEF Open, Entry
<1>2. \A h \in File : [g[h] EXCEPT !.blocked = TRUE] \in Entry
  BY DEF Guards, Entry
<1>3. \A h : [g EXCEPT ![h].blocked = TRUE] \in Guards
  BY <1>2 DEF Guards
<1> QED BY <1>1, <1>2, <1>3 DEF Guards, Block, Ensure, RulesStatus

LEMMA VouchType ==
  ASSUME vouched \in Vouchers, NEW f, NEW b \in Body, Vouch(f, b)
  PROVE  vouched' \in Vouchers
BY DEF Vouch, Vouchers

LEMMA WroteType ==
  ASSUME own \in Vouchers, NEW f, NEW b \in Body, Wrote(f, b)
  PROVE  own' \in Vouchers
BY DEF Wrote, Vouchers

\* A file written has one version more and keeps those it had.
LEMMA WriteType ==
  ASSUME hist \in Histories, NEW f, NEW b \in Body, Write(f, b)
  PROVE  hist' \in Histories
<1>1. ASSUME NEW k \in File
      PROVE  Append(hist[k], b) \in Seq(Body) /\ Append(hist[k], b) # <<>>
  <2>1. hist[k] \in Seq(Body)
    BY DEF Histories
  <2>2. \A seq \in Seq(Body) : Append(seq, b) \in Seq(Body)
                               /\ Append(seq, b) # <<>>
    BY AppendProperties, Zenon
  <2> QED BY ONLY <2>1, <2>2
<1>2. hist' = [k \in File |-> IF k = f THEN Append(hist[k], b) ELSE hist[k]]
  BY DEF Histories, Write
<1> QED BY <1>1, <1>2, Zenon DEF Histories

\* The values the variables are reset to.
LEMMA ResetType ==
  /\ \A t \in Thread : NoScan \in [todo : SUBSET File, stamps : Gens,
                                   on : BOOLEAN]
  /\ NoNote \in [body : AnyBody, fresh : BOOLEAN]
  /\ NoReview \in Reviews /\ NoDialog \in Dialogs
  /\ Idle \in Handlers /\ NoWrite \in HostWrites
BY DEF NoScan, NoNote, NoReview, NoDialog, Idle, NoWrite, Gens, NoStamp,
       Reviews, Dialogs, Handlers, HostWrites, AnyBody, AnyFile

\* Adding rules to a file's contents gives contents.
LEMMA HoldingType ==
  ASSUME NEW b \in Body, NEW rules \in SUBSET Rule
  PROVE  /\ b.rules \union rules \in SUBSET Rule
         /\ Holding(b.rules \union rules) \in Body
<1>1. b.rules \in SUBSET Rule
  BY DEF Body, Holding, Missing, Malformed
<1> QED BY <1>1 DEF Body

\* A request moves on: another stage, and what a check or the load has seen.
LEMMA RequestType ==
  ASSUME NEW r \in Requests, NEW gens \in Gens,
         NEW pc \in {"checked", "loaded", "decided", "refused"}
  PROVE  /\ [r EXCEPT !.pc = pc] \in Requests
         /\ [r EXCEPT !.pc = pc, !.first = gens] \in Requests
         /\ [r EXCEPT !.pc = pc, !.read = gens] \in Requests
         /\ [r EXCEPT !.pc = pc, !.second = gens] \in Requests
BY DEF Requests

LEMMA RestampType ==
  ASSUME TypeOK, NEW cfg
  PROVE  Restamp(cfg) \in Gens
BY CurrentIsBody DEF Restamp, Gens, NoStamp

LEMMA InitType == Init => TypeInv
<1> SUFFICES ASSUME Init PROVE TypeInv
  OBVIOUS
<1> USE RulesGuardAssumption
<1>1. PICK start \in [File -> InitBodies] : hist = [f \in File |-> <<start[f]>>]
  <2>1. PICK h \in [File -> {<<b>> : b \in InitBodies}] : hist = h
    BY DEF Init
  <2>2. \A f \in File : h[f][1] \in InitBodies /\ h[f] = <<h[f][1]>>
    OBVIOUS
  <2> QED BY <2>1, <2>2, hist = [f \in File |-> <<[k \in File |-> h[k][1]][f]>>]
<1>2. \A f \in File : /\ hist[f] \in Seq(Body) /\ hist[f] # <<>>
                      /\ Current(f) \in Body /\ Gen(f) = 1
  BY <1>1 DEF Current, Gen
<1>3. \A f \in File : Stamp(f) \in Nat
  BY <1>2 DEF Stamp
<1>4. hist \in Histories
  BY <1>1, <1>2 DEF Histories
<1>5. config \in SUBSET Workspace
  BY DEF Init
<1>6. /\ guard \in Guards /\ vouched \in Vouchers
      /\ own \in Vouchers /\ refreshes \in 0..MaxRefreshes
  BY <1>2 DEF Init, Guards, Vouchers, Entry, Open, Closed, AnyBody
<1>7. request \in [Request -> Requests]
  BY DEF Init, Requests, NewRequest, Unseen, Gens
<1>8. baseline \in Gens
  BY <1>3 DEF Init, Gens, Restamp, NoStamp
<1>9. inFlight \in BOOLEAN /\ scan \in Scans /\ note \in Notes
  BY ResetType DEF Init, Scans, Notes
<1>10. /\ review \in Reviews /\ dialog \in Dialogs
       /\ app \in Handlers /\ hostWrite \in HostWrites
       /\ AppFile
  BY ResetType DEF Init, Idle, AppFile
<1> QED BY <1>4, <1>5, <1>6, <1>7, <1>8, <1>9, <1>10 DEF TypeInv, TypeOK

\* Trusting or turning down the reviewed alert.
LEMMA ReviewType ==
  ASSUME TypeOK, TrustReviewed \/ DismissReview
  PROVE  guard' \in Guards /\ vouched' \in Vouchers /\ review' \in Reviews
<1> USE DEF TypeOK
<1>1. [review EXCEPT !.dismissed = FALSE] \in Reviews
      /\ [review EXCEPT !.dismissed = TRUE] \in Reviews
  BY DEF Reviews
<1>2. Block(guard, review.file) \in Guards
  BY GuardType, NoBody \in AnyBody DEF AnyBody
<1>3. CASE DismissReview
  BY <1>1, <1>2, <1>3 DEF DismissReview
<1>4. CASE TrustReviewed /\ review.file \in File
  <2>1. Current(review.file) \in Body
    BY <1>4, CurrentIsBody
  <2>2. [guard EXCEPT ![review.file] = Open(Current(review.file))] \in Guards
    BY <2>1, GuardType DEF AnyBody
  <2> QED BY <1>1, <1>2, <1>4, <2>1, <2>2, VouchType, ResetType
          DEF TrustReviewed
<1>5. CASE TrustReviewed /\ review.file \notin File
  <2>1. [guard EXCEPT ![review.file] = Open(Current(review.file))] \in Guards
    BY <1>5 DEF Guards
  <2>2. [vouched EXCEPT ![review.file] = @ \union {Current(review.file)}]
          \in Vouchers
    BY <1>5 DEF Vouchers
  <2> QED BY <1>1, <1>2, <1>5, <2>1, <2>2, ResetType DEF TrustReviewed, Vouch
<1> QED BY <1>3, <1>4, <1>5

LEMMA NextType == TypeInv /\ [Next]_vars => TypeInv'
<1> SUFFICES ASSUME TypeInv, [Next]_vars PROVE TypeInv'
  OBVIOUS
<1> USE RulesGuardAssumption DEF TypeInv, TypeOK, AppFile, hostVars
<1>1. ASSUME NEW f \in File, NEW b \in EditBodies, Edit(f, b)
      PROVE  TypeInv'
  BY <1>1, WriteType DEF Edit, watchVars, alertVars
<1>2. ASSUME NEW w \in Workspace, NEW r \in HostRules, SaveTemplate(w, r)
      PROVE  TypeInv'
  <2>1. Current(w) \in Body
    BY CurrentIsBody DEF File
  <2>2. Holding(Current(w).rules \union {r}) \in Body
    BY <2>1, HoldingType, ZenonT(60)
  <2>3. [file |-> w, body |-> Holding(Current(w).rules \union {r})]
          \in HostWrites
    BY <2>2 DEF HostWrites, AnyBody
  <2> QED BY <1>2, <2>2, <2>3, WriteType, WroteType
          DEF SaveTemplate, watchVars, alertVars
<1>3. ASSUME NEW q \in Request, NEW w \in Workspace, Begin(q, w)
      PROVE  TypeInv'
  <2>1. request[q] \in Requests /\ config \in SUBSET Workspace
    OBVIOUS
  <2>2. [request[q] EXCEPT !.pc = "begun", !.ws = w, !.cfg = config]
          \in Requests
    BY <2>1 DEF Requests
  <2>3. request' \in [Request -> Requests]
    BY <1>3, <2>2 DEF Begin
  <2> QED BY <1>3, <2>3 DEF Begin, watchVars, alertVars
<1>4. ASSUME NEW q \in Request, FirstCheck(q) \/ LoadRules(q) \/ SecondCheck(q)
      PROVE  TypeInv'
  <2>1. \A cfg, w : Ensure(guard, cfg, w) \in Guards
    BY GuardType, NoBody \in AnyBody DEF AnyBody
  <2>2. \A files : GensOf(files) \in Gens
    BY CurrentIsBody DEF GensOf, Gens
  <2>3. request' \in [Request -> Requests]
    <3>1. request[q] \in Requests
      OBVIOUS
    <3>2. PICK r \in Requests : request' = [request EXCEPT ![q] = r]
      BY <1>4, <2>2, <3>1, RequestType DEF FirstCheck, LoadRules, SecondCheck
    <3> QED BY <3>2
  <2> QED BY <1>4, <2>1, <2>3
          DEF FirstCheck, LoadRules, SecondCheck, watchVars, alertVars
<1>5. ASSUME Poll PROVE TypeInv'
  <2>1. note' \in Notes /\ baseline' \in Gens
    BY <1>5, ResetType DEF Poll, Notes, Gens, NoStamp
  <2>2. scan' \in Scans /\ inFlight' \in BOOLEAN
    <3>1. [todo |-> Watched(config), stamps |-> [f \in File |-> NoStamp],
           on |-> TRUE] \in [todo : SUBSET File, stamps : Gens, on : BOOLEAN]
      BY DEF Gens, NoStamp, Watched, File
    <3>2. CASE inFlight
      BY <1>5, <3>2 DEF Poll
    <3>3. CASE ~inFlight
      <4>1. PICK t \in Thread :
              scan' = [scan EXCEPT ![t] = [todo |-> Watched(config),
                         stamps |-> [f \in File |-> NoStamp], on |-> TRUE]]
        BY <1>5, <3>3 DEF Poll
      <4> QED BY <1>5, <3>1, <3>3, <4>1 DEF Poll, Scans
    <3> QED BY <3>2, <3>3
  <2> QED BY <1>5, <2>1, <2>2 DEF Poll, alertVars
<1>6. ASSUME NEW t \in Thread, NEW f \in File, ScanFile(t, f)
      PROVE  TypeInv'
  <2>1. Stamp(f) \in Nat
    BY CurrentIsBody
  <2>2. scan[t] \in [todo : SUBSET File, stamps : Gens, on : BOOLEAN]
    BY DEF Scans
  <2>3. Stamped(scan[t], f) \in [todo : SUBSET File, stamps : Gens,
                                 on : BOOLEAN]
    BY <2>1, <2>2 DEF Stamped, Gens
  <2>4. scan' = [scan EXCEPT ![t] = Stamped(scan[t], f)]
    BY <1>6 DEF ScanFile
  <2>5. scan' \in Scans
    BY <2>3, <2>4 DEF Scans
  <2> QED BY <1>6, <2>5 DEF ScanFile, alertVars
<1>7. ASSUME NEW t \in Thread, ApplyScan(t)
      PROVE  TypeInv'
  <2>1. \A f \in Changed(t) \ Alerts(t) : note[f].body \in Body
    BY CurrentIsBody DEF Changed, Alerts, OwnWrite
  <2>2. guard' \in Guards
    <3>1. \A f \in File : Block(guard, f)[f] \in Entry
      BY GuardType, NoBody \in AnyBody DEF Guards, AnyBody
    <3>2. \A f \in Changed(t) \ Alerts(t) : Open(note[f].body) \in Entry
      BY <2>1 DEF Open, Entry, AnyBody
    <3> QED BY <1>7, <3>1, <3>2 DEF ApplyScan, Guards
  <2>3. vouched' \in Vouchers
    BY <1>7, <2>1 DEF ApplyScan, Vouchers
  <2>4. review' \in Reviews
    <3>1. \A f \in Alerts(t) : \A b \in Shown(f) : Alert(f, b) \in Reviews
      BY CurrentIsBody DEF Alerts, Changed, Alert, Shown, Reviews, AnyFile,
                           AnyBody, Body
    <3> QED BY <1>7, <3>1 DEF ApplyScan
  <2>5. baseline' \in Gens
    BY <1>7 DEF ApplyScan, Scans, Gens
  <2>6. scan' \in Scans /\ note' \in Notes
    BY <1>7, ResetType DEF ApplyScan, Scans, Notes
  <2> QED BY <1>7, <2>2, <2>3, <2>4, <2>5, <2>6 DEF ApplyScan
<1>8. ASSUME NEW f \in File, NoteExpires(f) PROVE TypeInv'
  <2>1. [note[f] EXCEPT !.fresh = FALSE] \in [body : AnyBody, fresh : BOOLEAN]
    <3>1. note[f] \in [body : AnyBody, fresh : BOOLEAN]
      BY DEF Notes
    <3> QED BY ONLY <3>1
  <2>2. note' = [note EXCEPT ![f] = [note[f] EXCEPT !.fresh = FALSE]]
    BY <1>8 DEF NoteExpires
  <2> QED BY <1>8, <2>1, <2>2 DEF NoteExpires, Notes, alertVars
<1>9. ASSUME LaunchDialog PROVE TypeInv'
  <2>1. review' \in Reviews /\ dialog' \in Dialogs
    BY <1>9 DEF LaunchDialog, Reviews, Dialogs
  <2> QED BY <1>9, <2>1 DEF LaunchDialog, watchVars
<1>10. ASSUME DialogResult PROVE TypeInv'
  <2>1. CASE review.file # dialog.file
    BY <1>10, <2>1, ResetType DEF DialogResult, watchVars
  <2>2. CASE review.file = dialog.file
    BY <1>10, <2>2, ResetType, ReviewType DEF DialogResult, watchVars
  <2> QED BY <2>1, <2>2
<1>11. ASSUME NEW c \in {"allow", "deny"}, AnswerDialog(c) PROVE TypeInv'
  <2>1. dialog' \in Dialogs
    BY <1>11 DEF AnswerDialog, Dialogs
  <2> QED BY <1>11, <2>1 DEF AnswerDialog, watchVars
<1>12. ASSUME TrustAlert PROVE TypeInv'
  BY <1>12, ReviewType DEF TrustAlert, watchVars
<1>13. ASSUME NEW f \in TrustTargets, TrustTarget(f) PROVE TypeInv'
  <2>1. f \in File /\ Current(f) \in Body
    BY CurrentIsBody
  <2>2. guard' \in Guards /\ vouched' \in Vouchers
    BY <1>13, <2>1, GuardType, VouchType DEF TrustTarget, AnyBody
  <2>3. app' \in Handlers /\ app'.file \in File
    BY <1>13, <2>1 DEF TrustTarget, Handlers, Idle, AnyFile
  <2> QED BY <1>13, <2>2, <2>3 DEF TrustTarget, watchVars, alertVars
<1>14. ASSUME TrustTargetDone \/ QueryStatus PROVE TypeInv'
  <2>1. RulesStatus(guard, config) \in Guards
    BY GuardType, NoBody \in AnyBody DEF AnyBody
  <2>2. CASE TrustTargetDone
    <3>1. Stamp(app.file) \in Nat
      BY <2>2, CurrentIsBody DEF TrustTargetDone
    <3>2. baseline' \in Gens /\ note' \in Notes
      BY <2>2, <3>1, ResetType DEF TrustTargetDone, Gens, Notes
    <3> QED BY <2>1, <2>2, <3>2, ResetType DEF TrustTargetDone, Settled, Idle
  <2>3. CASE QueryStatus
    BY <2>1, <2>3 DEF QueryStatus, watchVars, alertVars
  <2> QED BY <1>14, <2>2, <2>3
<1>15. ASSUME NEW w \in Workspace, NEW r \in Remembered, ApprovalCheck(w, r)
       PROVE  TypeInv'
  <2>1. Ensure(guard, config, w) \in Guards
    BY GuardType, NoBody \in AnyBody DEF AnyBody
  <2>2. [op |-> "checked", file |-> w, rules |-> {r}] \in Handlers
    BY DEF Handlers, AnyFile, File
  <2> QED BY <1>15, <2>1, <2>2, ResetType
          DEF ApprovalCheck, Idle, File, watchVars, alertVars
<1>16. ASSUME RememberLoad PROVE TypeInv'
  <2> DEFINE new == Current(app.file).rules \union app.rules
  <2>1. app.file \in File /\ Current(app.file) \in Body
    BY <1>16, CurrentIsBody DEF RememberLoad
  <2>2. app.rules \in SUBSET Rule
    BY DEF Handlers
  <2>3. new \in SUBSET Rule /\ Holding(new) \in AnyBody
    <3>1. new \in SUBSET Rule /\ Holding(new) \in Body
      BY <2>1, <2>2, HoldingType, Zenon
    <3> QED BY <3>1 DEF AnyBody
  <2>4. /\ [app EXCEPT !.op = "loaded", !.rules = new] \in Handlers
        /\ [app EXCEPT !.op = "loaded", !.rules = new].file = app.file
    BY <2>3 DEF Handlers
  <2>5. [note EXCEPT ![app.file] = [body |-> Holding(new), fresh |-> TRUE]]
          \in Notes
    BY <2>3 DEF Notes
  <2>6. app' \in Handlers /\ note' \in Notes
    BY <1>16, <2>4, <2>5, ResetType DEF RememberLoad
  <2>7. app'.op # "idle" => app'.file \in File
    <3>1. \/ app' = Idle
          \/ app' = [app EXCEPT !.op = "loaded", !.rules = new]
      BY <1>16 DEF RememberLoad
    <3>2. ASSUME app' = [app EXCEPT !.op = "loaded", !.rules = new]
          PROVE  app'.file = app.file
      BY <2>4, <3>2
    <3>3. Idle.op = "idle"
      BY DEF Idle
    <3> QED BY <2>1, <3>1, <3>2, <3>3
  <2> QED BY <1>16, <2>6, <2>7 DEF RememberLoad, alertVars
<1>17. ASSUME RememberWrite PROVE TypeInv'
  <2>1. Holding(app.rules) \in Body
    BY DEF Handlers, Body
  <2>2. app' \in Handlers /\ app'.file = app.file
    BY <1>17 DEF RememberWrite, Handlers
  <2> QED BY <1>17, <2>1, <2>2, WriteType, WroteType
          DEF RememberWrite, watchVars, alertVars
<1>18. ASSUME RememberTrust PROVE TypeInv'
  <2>1. app.file \in File /\ Current(app.file) \in Body
    BY <1>18, CurrentIsBody DEF RememberTrust
  <2>2. [guard EXCEPT ![app.file] = Open(Current(app.file))] \in Guards
    BY <2>1, GuardType DEF AnyBody
  <2>3. guard' \in Guards /\ vouched' \in Vouchers
    BY <1>18, <2>1, <2>2, VouchType DEF RememberTrust
  <2> QED BY <1>18, <2>3, ResetType
          DEF RememberTrust, Idle, watchVars, alertVars
<1>19. ASSUME NEW cfg \in Configs, ReplaceConfig(cfg) PROVE TypeInv'
  BY <1>19 DEF ReplaceConfig, watchVars, alertVars
<1>20. ASSUME NEW cfg \in Configs, SoftRefresh(cfg) PROVE TypeInv'
  <2>1. note' \in Notes
    BY <1>20, ResetType DEF SoftRefresh, Notes
  <2>2. refreshes' \in 0..MaxRefreshes
    BY <1>20 DEF SoftRefresh
  <2> QED BY <1>20, <2>1, <2>2, RestampType DEF SoftRefresh, alertVars
<1>21. ASSUME NEW cfg \in Configs, NEW ready \in BOOLEAN, Launch(cfg, ready)
       PROVE  TypeInv'
  <2> DEFINE w == hostWrite.file
             trusting == [guard EXCEPT ![w] = Open(hostWrite.body)]
  <2>1. trusting \in Guards
    BY GuardType DEF HostWrites
  <2>2. Ensure(trusting, cfg, w) \in Guards
    BY <2>1, GuardType, NoBody \in AnyBody DEF AnyBody
  <2>3. w \in cfg /\ Current(w) = hostWrite.body => hostWrite.body \in Body
    BY CurrentIsBody DEF File
  <2>4. guard' \in Guards /\ vouched' \in Vouchers
    BY <1>21, <2>1, <2>2, <2>3, VouchType DEF Launch
  <2> QED BY <1>21, <2>4, ResetType DEF Launch, watchVars, alertVars
<1>22. ASSUME UNCHANGED vars PROVE TypeInv'
  BY <1>22 DEF vars
<1> QED
  BY <1>1, <1>2, <1>3, <1>4, <1>5, <1>6, <1>7, <1>8, <1>9, <1>10, <1>11,
     <1>12, <1>13, <1>14, <1>15, <1>16, <1>17, <1>18, <1>19, <1>20, <1>21,
     <1>22
  DEF Next, RequestStep, WatchStep, AppStep, UserStep, ConfigStep, OutsideStep

\* Every variable keeps its type, for any workspaces, editors and requests.
THEOREM TypeCorrect == Spec => []TypeOK
<1>1. Init => TypeInv
  BY InitType
<1>2. TypeInv /\ [Next]_vars => TypeInv'
  BY NextType
<1>3. TypeInv => TypeOK
  BY DEF TypeInv
<1> QED BY <1>1, <1>2, <1>3, PTL DEF Spec

-----------------------------------------------------------------------------
(* Decisions use trusted versions: DecisionWindow *)

\* An open entry of the guard holds contents that were trusted.
OpenIsVouched ==
  \A f \in File : ~guard[f].blocked => guard[f].trusted \in vouched[f]

\* What a request has seen of a file, in the order it saw it: the versions the
\* two checks met were trusted, and the version loaded lies between them.
Seen(r, f) ==
  /\ r.first[f] <= Gen(f) /\ r.read[f] <= Gen(f) /\ r.second[f] <= Gen(f)
  /\ r.first[f] > 0 => hist[f][r.first[f]] \in vouched[f]
  /\ r.second[f] > 0 => hist[f][r.second[f]] \in vouched[f]
  /\ r.pc \in {"new", "begun", "checked"} => r.read[f] = 0
  /\ r.pc # "decided" => r.second[f] = 0
  /\ r.first[f] > 0 /\ r.read[f] > 0 => r.first[f] <= r.read[f]
  /\ r.read[f] > 0 /\ r.second[f] > 0 => r.read[f] <= r.second[f]

WindowInv == /\ OpenIsVouched
             /\ \A q \in Request, f \in File : Seen(request[q], f)

\* Versions are only added to a file, and a version trusted once stays on
\* record.
Grows == \A f \in File :
           /\ Gen(f) <= Gen(f)'
           /\ \A i \in 1..Gen(f) : hist'[f][i] = hist[f][i]
           /\ vouched[f] \subseteq vouched'[f]

LEMMA WriteGrows ==
  ASSUME TypeOK, NEW g, NEW b \in Body, Write(g, b), NEW f \in File
  PROVE  /\ Gen(f) <= Gen(f)'
         /\ \A i \in 1..Gen(f) : hist'[f][i] = hist[f][i]
<1>1. hist[f] \in Seq(Body)
  BY DEF TypeOK, Histories
<1>2. hist'[f] = IF f = g THEN Append(hist[f], b) ELSE hist[f]
  BY DEF Write, TypeOK, Histories
<1>3. /\ Len(Append(hist[f], b)) = Len(hist[f]) + 1
      /\ \A i \in 1..Len(hist[f]) : Append(hist[f], b)[i] = hist[f][i]
  BY <1>1, AppendProperties, ZenonT(60)
<1>4. Len(hist[f]) \in Nat
  BY <1>1
<1> QED BY <1>2, <1>3, <1>4 DEF Gen

LEMMA VouchGrows ==
  ASSUME TypeOK, NEW g, NEW b, Vouch(g, b), NEW f \in File
  PROVE  vouched[f] \subseteq vouched'[f]
BY DEF TypeOK, Vouchers, Vouch

\* What a request has seen stays true while files and the record grow.
LEMMA SeenKept ==
  ASSUME TypeOK, TypeOK', Grows, NEW r \in Requests, NEW f \in File, Seen(r, f)
  PROVE  Seen(r, f)'
<1>1. Gen(f) \in Nat /\ Gen(f)' \in Nat /\ Gen(f) <= Gen(f)'
  <2>1. hist[f] \in Seq(Body) /\ hist'[f] \in Seq(Body)
    BY DEF TypeOK, Histories
  <2> QED BY <2>1 DEF Gen, Grows
<1>2. r.first[f] \in Nat /\ r.read[f] \in Nat /\ r.second[f] \in Nat
  BY DEF Requests, Gens
<1>3. \A i \in 1..Gen(f) : hist[f][i] \in vouched[f]
                             => hist'[f][i] \in vouched'[f]
  BY DEF Grows
<1> QED BY <1>1, <1>2, <1>3 DEF Seen

LEMMA AllSeenKept ==
  ASSUME TypeOK, TypeOK', Grows, WindowInv,
         NEW q \in Request, NEW f \in File, UNCHANGED request[q]
  PROVE  Seen(request[q], f)'
<1>1. PICK r \in Requests : r = request[q] /\ Seen(r, f)
  BY DEF TypeOK, WindowInv
<1>2. Seen(r, f)'
  BY <1>1, SeenKept
<1>3. request'[q] = r
  BY <1>1
<1> QED BY <1>2, <1>3 DEF Seen

\* A check only ever blocks.
LEMMA EnsureBlocks ==
  ASSUME NEW g \in Guards, NEW cfg, NEW w, NEW f \in File
  PROVE  /\ Ensure(g, cfg, w)[f].trusted = g[f].trusted
         /\ ~Ensure(g, cfg, w)[f].blocked => ~g[f].blocked
BY DEF Ensure, Guards, Entry

\* The steps that neither decide nor unblock: what is open stays vouched for.
LEMMA OpenKept ==
  ASSUME TypeOK, OpenIsVouched, NEW g \in Guards, NEW cfg, NEW w,
         \A f \in File : ~g[f].blocked => g[f].trusted \in vouched[f]
  PROVE  /\ \A f \in File : ~Ensure(g, cfg, w)[f].blocked
                              => Ensure(g, cfg, w)[f].trusted \in vouched[f]
         /\ \A f \in File : ~RulesStatus(g, cfg)[f].blocked
                              => RulesStatus(g, cfg)[f].trusted \in vouched[f]
         /\ \A f, h \in File : ~Block(g, h)[f].blocked
                                 => Block(g, h)[f].trusted \in vouched[f]
<1>1. \A f, h : f \in File => /\ [g EXCEPT ![h].blocked = TRUE][f].trusted
                                   = g[f].trusted
                              /\ ~[g EXCEPT ![h].blocked = TRUE][f].blocked
                                   => ~g[f].blocked
  BY DEF Guards, Entry
<1>2. \A f \in File : ~RulesStatus(g, cfg)[f].blocked
                        => RulesStatus(g, cfg)[f] = g[f]
  BY DEF RulesStatus, Guards, Entry
<1> QED BY <1>1, <1>2 DEF Ensure, Block

\* Opening a file for contents that are put on record.
LEMMA OpenVouch ==
  ASSUME TypeOK, OpenIsVouched, NEW h \in File, NEW b,
         guard' = [guard EXCEPT ![h] = Open(b)], Vouch(h, b)
  PROVE  OpenIsVouched'
<1> SUFFICES ASSUME NEW f \in File, ~guard'[f].blocked
             PROVE  guard'[f].trusted \in vouched'[f]
  BY DEF OpenIsVouched
<1>1. guard'[f] = IF f = h THEN Open(b) ELSE guard[f]
  BY DEF TypeOK, Guards
<1>2. vouched'[f] = IF f = h THEN vouched[f] \union {b} ELSE vouched[f]
  BY DEF TypeOK, Vouchers, Vouch
<1> QED BY <1>1, <1>2 DEF OpenIsVouched, Open

\* A step that checks or reports blocks but never opens; one that reviews opens
\* only what it puts on record.
LEMMA ReviewOpens ==
  ASSUME TypeOK, OpenIsVouched, TrustReviewed \/ DismissReview
  PROVE  OpenIsVouched' /\ \A f \in File : vouched[f] \subseteq vouched'[f]
<1> DEFINE h == review.file
<1>1. CASE guard' = Block(guard, h) /\ UNCHANGED vouched
  BY <1>1 DEF OpenIsVouched, Block, TypeOK, Guards, Entry
<1>2. CASE guard' = [guard EXCEPT ![h] = Open(Current(h))]
             /\ Vouch(h, Current(h))
  <2>1. CASE h \in File
    BY <1>2, <2>1, OpenVouch, VouchGrows
  <2>2. CASE h \notin File
    BY <1>2, <2>2 DEF OpenIsVouched, Vouch, TypeOK, Guards, Vouchers
  <2> QED BY <2>1, <2>2
<1> QED BY <1>1, <1>2 DEF TrustReviewed, DismissReview

LEMMA NextOpen ==
  ASSUME TypeInv, OpenIsVouched, [Next]_vars
  PROVE  OpenIsVouched' /\ \A f \in File : vouched[f] \subseteq vouched'[f]
<1> USE RulesGuardAssumption DEF TypeInv
<1> DEFINE Kept == OpenIsVouched'
                   /\ \A f \in File : vouched[f] \subseteq vouched'[f]
<1>1. ASSUME UNCHANGED <<guard, vouched>> PROVE Kept
  BY <1>1 DEF OpenIsVouched
<1>2. ASSUME NEW q \in Request, FirstCheck(q) \/ SecondCheck(q) PROVE Kept
  <2>1. guard' = Ensure(guard, config, request[q].ws) /\ UNCHANGED vouched
    BY <1>2 DEF FirstCheck, SecondCheck
  <2>2. guard \in Guards /\ \A f \in File : ~guard[f].blocked
                              => guard[f].trusted \in vouched[f]
    BY DEF TypeOK, OpenIsVouched
  <2> QED BY <2>1, <2>2, OpenKept DEF OpenIsVouched
<1>3. ASSUME NEW t \in Thread, ApplyScan(t) PROVE Kept
  <2>1. ASSUME NEW f \in File, ~guard'[f].blocked
        PROVE  guard'[f].trusted \in vouched'[f]
    <3>1. f \notin Alerts(t)
      BY <1>3, <2>1 DEF ApplyScan, Block, TypeOK, Guards, Entry
    <3>2. CASE f \in Changed(t)
      BY <1>3, <3>1, <3>2 DEF ApplyScan, Open
    <3>3. CASE f \notin Changed(t)
      BY <1>3, <2>1, <3>1, <3>3 DEF ApplyScan, OpenIsVouched
    <3> QED BY <3>2, <3>3
  <2>2. \A f \in File : vouched[f] \subseteq vouched'[f]
    BY <1>3 DEF ApplyScan
  <2> QED BY <2>1, <2>2 DEF OpenIsVouched
<1>4. ASSUME DialogResult \/ TrustAlert PROVE Kept
  <2>1. \/ UNCHANGED <<guard, vouched>>
        \/ TrustReviewed \/ DismissReview
    BY <1>4 DEF DialogResult, TrustAlert
  <2> QED BY <1>1, <2>1, ReviewOpens
<1>5. ASSUME NEW f \in TrustTargets, TrustTarget(f) PROVE Kept
  <2>1. /\ f \in File
        /\ guard' = [guard EXCEPT ![f] = Open(Current(f))]
        /\ Vouch(f, Current(f))
    BY <1>5 DEF TrustTarget
  <2> QED BY <2>1, OpenVouch, VouchGrows
<1>6. ASSUME TrustTargetDone \/ QueryStatus PROVE Kept
  <2>1. guard' = RulesStatus(guard, config) /\ UNCHANGED vouched
    BY <1>6 DEF TrustTargetDone, QueryStatus
  <2>2. guard \in Guards /\ \A f \in File : ~guard[f].blocked
                              => guard[f].trusted \in vouched[f]
    BY DEF TypeOK, OpenIsVouched
  <2> QED BY <2>1, <2>2, OpenKept DEF OpenIsVouched
<1>7. ASSUME NEW w \in Workspace, NEW r \in Remembered, ApprovalCheck(w, r)
      PROVE  Kept
  <2>1. guard' = Ensure(guard, config, w) /\ UNCHANGED vouched
    BY <1>7 DEF ApprovalCheck
  <2>2. guard \in Guards /\ \A f \in File : ~guard[f].blocked
                              => guard[f].trusted \in vouched[f]
    BY DEF TypeOK, OpenIsVouched
  <2> QED BY <2>1, <2>2, OpenKept DEF OpenIsVouched
<1>8. ASSUME RememberTrust PROVE Kept
  <2>1. \/ UNCHANGED <<guard, vouched>>
        \/ /\ app.file \in File
           /\ guard' = [guard EXCEPT ![app.file] = Open(Current(app.file))]
           /\ Vouch(app.file, Current(app.file))
    BY <1>8 DEF RememberTrust, AppFile
  <2> QED BY <1>1, <2>1, OpenVouch, VouchGrows
<1>9. ASSUME NEW cfg \in Configs, NEW ready \in BOOLEAN, Launch(cfg, ready)
      PROVE  Kept
  <2> DEFINE w == hostWrite.file
             trusting == [guard EXCEPT ![w] = Open(hostWrite.body)]
  <2>1. CASE UNCHANGED <<guard, vouched>>
    BY <1>1, <2>1
  <2>2. CASE /\ w \in File
             /\ guard' \in {trusting, Ensure(trusting, cfg, w)}
             /\ Vouch(w, hostWrite.body)
    <3>1. trusting \in Guards
      BY GuardType DEF TypeOK, HostWrites
    <3>2. \A f \in File : ~trusting[f].blocked
                            => trusting[f].trusted \in vouched'[f]
      BY <2>2 DEF Vouch, OpenIsVouched, Open, TypeOK, Guards, Vouchers
    <3>3. \A f \in File : guard'[f].trusted = trusting[f].trusted
                          /\ (~guard'[f].blocked => ~trusting[f].blocked)
      <4>1. \A f \in File :
              /\ Ensure(trusting, cfg, w)[f].trusted = trusting[f].trusted
              /\ ~Ensure(trusting, cfg, w)[f].blocked => ~trusting[f].blocked
        BY <3>1, EnsureBlocks
      <4> QED BY <2>2, <4>1
    <3>4. \A f \in File : vouched[f] \subseteq vouched'[f]
      BY <2>2, VouchGrows
    <3> QED BY <3>2, <3>3, <3>4 DEF OpenIsVouched
  <2> QED BY <1>9, <2>1, <2>2 DEF Launch, File
<1>10. ASSUME NEW f \in File, NEW b \in EditBodies, Edit(f, b) PROVE Kept
  BY <1>1, <1>10 DEF Edit
<1>11. ASSUME NEW w \in Workspace, NEW r \in HostRules, SaveTemplate(w, r)
       PROVE  Kept
  BY <1>1, <1>11 DEF SaveTemplate
<1>12. ASSUME NEW q \in Request, LoadRules(q) \/ \E w \in Workspace : Begin(q, w)
       PROVE  Kept
  BY <1>1, <1>12 DEF LoadRules, Begin
<1>13. ASSUME \/ Poll \/ \E t \in Thread, f \in File : ScanFile(t, f)
              \/ \E f \in File : NoteExpires(f)
       PROVE  Kept
  BY <1>1, <1>13 DEF Poll, ScanFile, NoteExpires
<1>14. ASSUME LaunchDialog \/ \E c \in {"allow", "deny"} : AnswerDialog(c)
       PROVE  Kept
  BY <1>1, <1>14 DEF LaunchDialog, AnswerDialog
<1>15. ASSUME RememberLoad \/ RememberWrite PROVE Kept
  BY <1>1, <1>15 DEF RememberLoad, RememberWrite
<1>16. ASSUME NEW cfg \in Configs, ReplaceConfig(cfg) \/ SoftRefresh(cfg)
       PROVE  Kept
  BY <1>1, <1>16 DEF ReplaceConfig, SoftRefresh
<1>17. ASSUME UNCHANGED vars PROVE Kept
  BY <1>1, <1>17 DEF vars
<1> QED
  BY <1>2, <1>3, <1>4, <1>5, <1>6, <1>7, <1>8, <1>9, <1>10, <1>11, <1>12,
     <1>13, <1>14, <1>15, <1>16, <1>17
  DEF Next, RequestStep, WatchStep, AppStep, UserStep, ConfigStep, OutsideStep

\* A step writes at most one file.
LEMMA NextWrites ==
  ASSUME TypeInv, [Next]_vars
  PROVE  UNCHANGED hist \/ \E g \in AnyFile, b \in Body : Write(g, b)
<1> USE RulesGuardAssumption DEF TypeInv
<1>1. ASSUME NEW f \in File, NEW b \in EditBodies, Edit(f, b)
      PROVE  \E g \in AnyFile, c \in Body : Write(g, c)
  BY <1>1 DEF Edit, AnyFile
<1>2. ASSUME NEW w \in Workspace, NEW r \in HostRules, SaveTemplate(w, r)
      PROVE  \E g \in AnyFile, c \in Body : Write(g, c)
  <2>1. w \in File /\ Current(w) \in Body /\ {r} \in SUBSET Rule
    BY CurrentIsBody DEF File
  <2>2. Holding(Current(w).rules \union {r}) \in Body
    BY <2>1, HoldingType, Zenon
  <2> QED BY <1>2, <2>1, <2>2 DEF SaveTemplate, AnyFile
<1>3. ASSUME RememberWrite
      PROVE  \E g \in AnyFile, c \in Body : Write(g, c)
  <2>1. Holding(app.rules) \in Body /\ app.file \in AnyFile
    BY DEF TypeOK, Handlers, Body
  <2> QED BY <1>3, <2>1 DEF RememberWrite
<1>4. ASSUME NEW q \in Request, RequestStep(q) PROVE UNCHANGED hist
  BY <1>4 DEF RequestStep, Begin, FirstCheck, LoadRules, SecondCheck
<1>5. ASSUME WatchStep \/ (\E f \in File : NoteExpires(f))
      PROVE  UNCHANGED hist
  BY <1>5 DEF WatchStep, Poll, ScanFile, ApplyScan, NoteExpires
<1>6. ASSUME LaunchDialog \/ DialogResult \/ UserStep PROVE UNCHANGED hist
  BY <1>6 DEF LaunchDialog, DialogResult, UserStep, AnswerDialog, TrustAlert,
              QueryStatus, TrustTarget, ApprovalCheck
<1>7. ASSUME TrustTargetDone \/ RememberLoad \/ RememberTrust
      PROVE  UNCHANGED hist
  BY <1>7 DEF TrustTargetDone, RememberLoad, RememberTrust
<1>8. ASSUME ConfigStep PROVE UNCHANGED hist
  BY <1>8 DEF ConfigStep, ReplaceConfig, SoftRefresh, Launch
<1> QED BY <1>1, <1>2, <1>3, <1>4, <1>5, <1>6, <1>7, <1>8
        DEF Next, AppStep, OutsideStep, vars

\* The versions of a file are only ever added to, and trust is never struck
\* from the record.
LEMMA NextGrows ==
  ASSUME TypeInv, OpenIsVouched, [Next]_vars
  PROVE  Grows
<1> USE RulesGuardAssumption DEF TypeInv
<1>1. UNCHANGED hist \/ \E g \in AnyFile, b \in Body : Write(g, b)
  BY NextWrites
<1>2. ASSUME NEW f \in File
      PROVE  /\ Gen(f) <= Gen(f)'
             /\ \A i \in 1..Gen(f) : hist'[f][i] = hist[f][i]
  <2>1. CASE UNCHANGED hist
    BY <2>1, CurrentIsBody DEF Gen
  <2>2. CASE \E g \in AnyFile, b \in Body : Write(g, b)
    BY <2>2, WriteGrows
  <2> QED BY <1>1, <2>1, <2>2
<1> QED BY <1>2, NextOpen DEF Grows

\* A check that passes meets a trusted version of each file it looks at.
LEMMA PassIsVouched ==
  ASSUME TypeOK, OpenIsVouched, NEW w, Passes(guard, config, w),
         NEW f \in FilesFor(config, w)
  PROVE  f \in File /\ hist[f][Gen(f)] \in vouched[f]
<1>1. f \in File
  BY DEF FilesFor, TypeOK, File
<1>2. guard[f].trusted = Current(f) /\ ~guard[f].blocked
  BY DEF Passes, Intact
<1> QED BY <1>1, <1>2 DEF OpenIsVouched, Current, Gen

LEMMA NextSeen ==
  ASSUME TypeInv, WindowInv, TypeOK', [Next]_vars,
         NEW q \in Request, NEW f \in File
  PROVE  Seen(request[q], f)'
<1> DEFINE r == request[q]
<1> USE DEF TypeInv
<1>1. Grows
  BY NextGrows DEF WindowInv
<1>2. CASE UNCHANGED request[q]
  BY <1>1, <1>2, AllSeenKept
<1>3. /\ Seen(r, f) /\ r \in Requests /\ Gen(f) \in Nat \ {0}
      /\ r.first[f] \in Nat /\ r.read[f] \in Nat /\ r.second[f] \in Nat
  BY CurrentIsBody DEF WindowInv, TypeOK, Requests, Gens
<1>4. \A files : GensOf(files)[f] = IF f \in files THEN Gen(f) ELSE 0
  BY DEF GensOf
<1>5. CASE \E w \in Workspace : Begin(q, w)
  <2>1. UNCHANGED <<hist, vouched>>
    BY <1>5 DEF Begin
  <2>2. /\ request'[q].first = r.first /\ request'[q].read = r.read
        /\ request'[q].second = r.second /\ request'[q].pc = "begun"
        /\ r.pc = "new"
    BY <1>3, <1>5 DEF Begin, TypeOK, Requests
  <2> QED BY <1>3, <2>1, <2>2 DEF Seen, Gen
<1>6. CASE FirstCheck(q)
  <2>1. UNCHANGED <<hist, vouched>> /\ r.pc = "begun"
    BY <1>6 DEF FirstCheck
  <2>2. CASE Passes(guard, config, r.ws)
    <3>1. request'[q] = [r EXCEPT !.pc = "checked",
                           !.first = GensOf(FilesFor(config, r.ws))]
      BY <1>6, <2>2 DEF FirstCheck, TypeOK
    <3>2. /\ request'[q].first[f] \in {0, Gen(f)} /\ request'[q].pc = "checked"
          /\ request'[q].read = r.read /\ request'[q].second = r.second
          /\ request'[q].first[f] > 0 => hist[f][Gen(f)] \in vouched[f]
      BY <1>3, <1>4, <2>2, <3>1, PassIsVouched DEF Requests, WindowInv
    <3> QED BY <1>3, <2>1, <3>2 DEF Seen, Gen
  <2>3. CASE ~Passes(guard, config, r.ws)
    <3>1. /\ request'[q].first = r.first /\ request'[q].read = r.read
          /\ request'[q].second = r.second /\ request'[q].pc = "refused"
      BY <1>3, <1>6, <2>3 DEF FirstCheck, TypeOK, Requests
    <3> QED BY <1>3, <2>1, <3>1 DEF Seen, Gen
  <2> QED BY <2>2, <2>3
<1>7. CASE LoadRules(q)
  <2>1. UNCHANGED <<hist, vouched>> /\ r.pc = "checked"
    BY <1>7 DEF LoadRules
  <2>2. /\ request'[q].first = r.first /\ request'[q].second = r.second
        /\ \/ request'[q].pc = "refused" /\ request'[q].read = r.read
           \/ request'[q].pc = "loaded" /\ request'[q].read[f] \in {0, Gen(f)}
    BY <1>3, <1>4, <1>7 DEF LoadRules, TypeOK, Requests
  <2> QED BY <1>3, <2>1, <2>2 DEF Seen, Gen
<1>8. CASE SecondCheck(q)
  <2>1. UNCHANGED <<hist, vouched>> /\ r.pc = "loaded"
    BY <1>8 DEF SecondCheck
  <2>2. CASE Passes(guard, config, r.ws)
    <3>1. request'[q] = [r EXCEPT !.pc = "decided",
                           !.second = GensOf(FilesFor(config, r.ws))]
      BY <1>8, <2>2 DEF SecondCheck, TypeOK
    <3>2. /\ request'[q].second[f] \in {0, Gen(f)}
          /\ request'[q].pc = "decided"
          /\ request'[q].read = r.read /\ request'[q].first = r.first
          /\ request'[q].second[f] > 0 => hist[f][Gen(f)] \in vouched[f]
      BY <1>3, <1>4, <2>2, <3>1, PassIsVouched DEF Requests, WindowInv
    <3> QED BY <1>3, <2>1, <3>2 DEF Seen, Gen
  <2>3. CASE ~Passes(guard, config, r.ws)
    <3>1. /\ request'[q].first = r.first /\ request'[q].read = r.read
          /\ request'[q].second = r.second /\ request'[q].pc = "refused"
      BY <1>3, <1>8, <2>3 DEF SecondCheck, TypeOK, Requests
    <3> QED BY <1>3, <2>1, <3>1 DEF Seen, Gen
  <2> QED BY <2>2, <2>3
<1>9. ASSUME NEW p \in Request, p # q, RequestStep(p)
      PROVE  UNCHANGED request[q]
  BY <1>9 DEF RequestStep, Begin, FirstCheck, LoadRules, SecondCheck, TypeOK
<1>10. ASSUME \/ WatchStep \/ LaunchDialog \/ DialogResult \/ AppStep
              \/ UserStep \/ ConfigStep \/ OutsideStep \/ UNCHANGED vars
       PROVE  UNCHANGED request
  <2>1. CASE WatchStep \/ OutsideStep
    BY <2>1 DEF WatchStep, Poll, ScanFile, ApplyScan, OutsideStep, Edit,
                SaveTemplate, NoteExpires
  <2>2. CASE LaunchDialog \/ DialogResult \/ UserStep
    BY <2>2 DEF LaunchDialog, DialogResult, UserStep, AnswerDialog, TrustAlert,
                QueryStatus, TrustTarget, ApprovalCheck
  <2>3. CASE AppStep \/ ConfigStep \/ UNCHANGED vars
    BY <2>3 DEF AppStep, TrustTargetDone, RememberLoad, RememberWrite,
                RememberTrust, ConfigStep, ReplaceConfig, SoftRefresh, Launch,
                vars
  <2> QED BY <1>10, <2>1, <2>2, <2>3
<1> QED BY <1>2, <1>5, <1>6, <1>7, <1>8, <1>9, <1>10 DEF Next, RequestStep

\* The double check makes a decision with rules that had been trusted, as long
\* as a file is written at most once between the two checks: for any number of
\* requests, workspaces and edits.
THEOREM DecisionWindowHolds == Spec => []DecisionWindow
<1>1. Init => TypeInv /\ WindowInv
  <2> SUFFICES ASSUME Init PROVE WindowInv
    BY InitType
  <2>1. OpenIsVouched
    BY DEF Init, OpenIsVouched, Open, Closed
  <2>2. ASSUME NEW q \in Request, NEW f \in File PROVE Seen(request[q], f)
    <3>1. TypeOK
      BY InitType DEF TypeInv
    <3> QED BY <3>1, CurrentIsBody DEF Init, NewRequest, Unseen, Seen
  <2> QED BY <2>1, <2>2 DEF WindowInv
<1>2. TypeInv /\ WindowInv /\ [Next]_vars => TypeInv' /\ WindowInv'
  <2> SUFFICES ASSUME TypeInv, WindowInv, [Next]_vars PROVE WindowInv'
    BY NextType
  <2>1. TypeOK'
    BY NextType DEF TypeInv
  <2>2. OpenIsVouched'
    BY NextOpen DEF WindowInv
  <2> QED BY <2>1, <2>2, NextSeen DEF WindowInv
<1>3. TypeInv /\ WindowInv => DecisionWindow
  <2> SUFFICES ASSUME TypeInv, WindowInv, NEW q \in Request, NEW f \in File,
                      request[q].first[f] > 0, request[q].read[f] > 0,
                      request[q].second[f] > 0,
                      request[q].second[f] <= request[q].first[f] + 1
               PROVE  hist[f][request[q].read[f]] \in vouched[f]
    BY DEF DecisionWindow
  <2>1. Seen(request[q], f)
    BY DEF WindowInv
  <2>2. /\ request[q].first[f] \in Nat /\ request[q].read[f] \in Nat
        /\ request[q].second[f] \in Nat
    BY DEF TypeInv, TypeOK, Requests, Gens
  <2>3. \/ request[q].read[f] = request[q].first[f]
        \/ request[q].read[f] = request[q].second[f]
    BY <2>1, <2>2 DEF Seen
  <2> QED BY <2>1, <2>3 DEF Seen
<1> QED BY <1>1, <1>2, <1>3, PTL DEF Spec

-----------------------------------------------------------------------------
(* An alert holds the block: AlertHoldsTheBlock *)

\* A file whose alert waits is blocked, or open for what Harness Hat wrote, or
\* being trusted explicitly.
Held(f) == \/ guard[f].blocked \/ guard[f].trusted \in own[f]
           \/ app.op = "restamp" /\ app.file = f
ReviewHeld ==
  review.file # NoFile => review.file \in File /\ Held(review.file)

\* What the client asks a launch for, what the manager has noted and what its
\* handler has written are contents Harness Hat wrote; a note made for a write
\* that is still to come is of that write.
Noted(f) == note[f].fresh =>
  IF app.op = "loaded" /\ app.file = f THEN note[f].body = Holding(app.rules)
                                       ELSE note[f].body \in own[f]
AlertInv ==
  /\ ReviewHeld
  /\ hostWrite # NoWrite => hostWrite.body \in own[hostWrite.file]
  /\ app.op = "written" => Holding(app.rules) \in own[app.file]
  /\ \A f \in File : Noted(f)

\* A check or a report keeps what is trusted, and a block.
LEMMA OnlyBlocks ==
  ASSUME NEW g \in Guards, NEW cfg, NEW w, NEW h, NEW f \in File
  PROVE  /\ Ensure(g, cfg, w)[f].trusted = g[f].trusted
         /\ RulesStatus(g, cfg)[f].trusted = g[f].trusted
         /\ Block(g, h)[f].trusted = g[f].trusted
         /\ g[f].blocked => /\ Ensure(g, cfg, w)[f].blocked
                            /\ RulesStatus(g, cfg)[f].blocked
                            /\ Block(g, h)[f].blocked
BY DEF Ensure, RulesStatus, Block, Guards, Entry

\* A step that opens no file and starts no write keeps the invariant.
LEMMA AlertKept ==
  ASSUME TypeInv, AlertInv, UNCHANGED <<own, app>>,
         hostWrite' \in {hostWrite, NoWrite},
         \A f \in File : note'[f].fresh => note'[f] = note[f],
         ReviewHeld'
  PROVE  AlertInv'
<1>1. \A f \in File : Noted(f)'
  BY DEF AlertInv, Noted
<1> QED BY <1>1 DEF AlertInv

LEMMA HeldKept ==
  ASSUME TypeInv, AlertInv, UNCHANGED <<own, app, review>>,
         \A f \in File : /\ guard[f].blocked => guard'[f].blocked
                         /\ guard'[f].trusted = guard[f].trusted
  PROVE  ReviewHeld'
BY DEF AlertInv, ReviewHeld, Held, TypeInv, TypeOK, Reviews, AnyFile

LEMMA ReviewAlert ==
  ASSUME TypeInv, AlertInv, AppIdle, TrustReviewed \/ DismissReview,
         UNCHANGED <<note, app, hostWrite, own>>
  PROVE  AlertInv'
<1> USE DEF TypeInv
<1>1. CASE review' = NoReview
  BY <1>1, AlertKept DEF NoReview, ReviewHeld
<1>2. CASE /\ guard' = Block(guard, review.file)
           /\ \E d \in BOOLEAN : review' = [review EXCEPT !.dismissed = d]
  <2>1. review'.file = review.file /\ review.file \in AnyFile
    BY <1>2 DEF TypeOK, Reviews
  <2>2. review.file \in File => guard'[review.file].blocked
    BY <1>2 DEF Block, TypeOK, Guards, Entry
  <2> QED BY <2>1, <2>2, AlertKept DEF ReviewHeld, Held, AnyFile
<1> QED BY <1>1, <1>2 DEF TrustReviewed, DismissReview

LEMMA NextAlert ==
  ASSUME TypeInv, AlertInv, [Next]_vars
  PROVE  AlertInv'
<1> USE RulesGuardAssumption DEF TypeInv, hostVars
<1> DEFINE r == review.file
<1>1. /\ r \in AnyFile /\ guard \in Guards
      /\ \A f \in File : ~NoNote.fresh
  BY DEF TypeOK, Reviews, NoNote
<1>2. ASSUME UNCHANGED <<review, app, own>>,
             hostWrite' \in {hostWrite, NoWrite},
             \A f \in File : note'[f].fresh => note'[f] = note[f],
             \A f \in File : /\ guard[f].blocked => guard'[f].blocked
                             /\ guard'[f].trusted = guard[f].trusted
      PROVE  AlertInv'
  BY <1>2, HeldKept, AlertKept
<1>3. ASSUME NEW q \in Request, RequestStep(q) PROVE AlertInv'
  <2>1. \E w : guard' \in {guard, Ensure(guard, config, w)}
    BY <1>3 DEF RequestStep, Begin, FirstCheck, LoadRules, SecondCheck
  <2>2. \A f \in File : /\ guard[f].blocked => guard'[f].blocked
                        /\ guard'[f].trusted = guard[f].trusted
    BY <1>1, <2>1, OnlyBlocks
  <2> QED BY <1>2, <1>3, <2>2
          DEF RequestStep, Begin, FirstCheck, LoadRules, SecondCheck, watchVars,
              alertVars
<1>4. ASSUME NEW g \in File, NEW b \in EditBodies, Edit(g, b) PROVE AlertInv'
  BY <1>2, <1>4 DEF Edit, watchVars, alertVars
<1>5. ASSUME NEW w \in Workspace, NEW e \in HostRules, SaveTemplate(w, e)
      PROVE  AlertInv'
  <2> DEFINE new == Holding(Current(w).rules \union {e})
  <2>1. /\ Wrote(w, new) /\ hostWrite' = [file |-> w, body |-> new]
        /\ UNCHANGED <<guard, note, review, app>>
    BY <1>5 DEF SaveTemplate, watchVars, alertVars
  <2>2. /\ \A f \in File : own[f] \subseteq own'[f]
        /\ w \in File /\ new \in own'[w]
    BY <2>1 DEF Wrote, TypeOK, Vouchers, File
  <2>3. hostWrite'.body \in own'[hostWrite'.file]
    BY <2>1, <2>2
  <2>4. \A f \in File : Noted(f)'
    BY <2>1, <2>2 DEF Noted, AlertInv
  <2>5. app'.op = "written" => Holding(app'.rules) \in own'[app'.file]
    BY <2>1, <2>2 DEF AlertInv, AppFile
  <2>6. ReviewHeld'
    BY <1>1, <2>1, <2>2 DEF AlertInv, ReviewHeld, Held, AnyFile
  <2> QED BY <2>3, <2>4, <2>5, <2>6 DEF AlertInv
<1>6. ASSUME Poll PROVE AlertInv'
  <2>1. \A f \in File : note'[f].fresh => note'[f] = note[f]
    BY <1>1, <1>6 DEF Poll
  <2> QED BY <1>2, <1>6, <2>1 DEF Poll, alertVars
<1>7. ASSUME NEW t \in Thread, NEW g \in File, ScanFile(t, g) PROVE AlertInv'
  BY <1>2, <1>7 DEF ScanFile, alertVars
<1>8. ASSUME NEW g \in File, NoteExpires(g) PROVE AlertInv'
  <2>1. \A f \in File : note'[f].fresh => note'[f] = note[f]
    BY <1>8 DEF NoteExpires, TypeOK, Notes
  <2> QED BY <1>2, <1>8, <2>1 DEF NoteExpires, alertVars
<1>9. ASSUME NEW t \in Thread, ApplyScan(t) PROVE AlertInv'
  <2>1. UNCHANGED <<own, app, hostWrite>> /\ app.op = "idle"
    BY <1>9 DEF ApplyScan, AppIdle
  <2>2. \A f \in File : note'[f].fresh => note'[f] = note[f]
    BY <1>1, <1>9 DEF ApplyScan
  <2>3. ASSUME NEW f \in File, f \in Alerts(t) \/ f = r
        PROVE  Held(f)'
    <3>1. CASE f \in Alerts(t)
      BY <1>9, <3>1 DEF ApplyScan, Block, TypeOK, Guards, Entry, Held
    <3>2. CASE f \in Changed(t) \ Alerts(t)
      <4>1. note[f].fresh /\ note[f].body \in own[f]
        BY <2>1, <3>2 DEF Alerts, OwnWrite, AlertInv, Noted
      <4>2. guard'[f].trusted = note[f].body
        BY <1>9, <3>2 DEF ApplyScan, Open
      <4> QED BY <2>1, <4>1, <4>2 DEF Held
    <3>3. CASE f \notin Changed(t) /\ f \notin Alerts(t) /\ f = r
      <4>1. guard'[f] = guard[f] /\ Held(f)
        BY <1>9, <3>3 DEF ApplyScan, AlertInv, ReviewHeld
      <4> QED BY <2>1, <4>1 DEF Held
    <3> QED BY <2>3, <3>1, <3>2, <3>3
  <2>4. review' = review \/ \E f \in Alerts(t) : review'.file = f
    BY <1>9 DEF ApplyScan, Alert
  <2>5. Alerts(t) \subseteq File
    BY DEF Alerts, Changed
  <2>6. ReviewHeld'
    BY <1>1, <2>3, <2>4, <2>5 DEF ReviewHeld, AnyFile
  <2> QED BY <2>1, <2>2, <2>6, AlertKept
<1>10. ASSUME LaunchDialog PROVE AlertInv'
  <2>1. review'.file = r /\ UNCHANGED <<own, app, hostWrite, note, guard>>
    BY <1>10 DEF LaunchDialog, TypeOK, Reviews, watchVars
  <2>2. ReviewHeld'
    BY <1>1, <2>1 DEF AlertInv, ReviewHeld, Held, AnyFile
  <2> QED BY <2>1, <2>2, AlertKept
<1>11. ASSUME NEW c \in {"allow", "deny"}, AnswerDialog(c) PROVE AlertInv'
  BY <1>2, <1>11 DEF AnswerDialog, watchVars
<1>12. ASSUME DialogResult \/ TrustAlert PROVE AlertInv'
  <2>1. UNCHANGED <<note, app, hostWrite, own>> /\ AppIdle
    BY <1>12 DEF DialogResult, TrustAlert, watchVars
  <2>2. CASE UNCHANGED <<guard, review>>
    BY <1>2, <2>1, <2>2
  <2>3. CASE TrustReviewed \/ DismissReview
    BY <2>1, <2>3, ReviewAlert
  <2> QED BY <1>12, <2>2, <2>3 DEF DialogResult, TrustAlert
<1>13. ASSUME NEW g \in TrustTargets, TrustTarget(g) PROVE AlertInv'
  <2>1. /\ g \in File /\ app'.op = "restamp" /\ app'.file = g
        /\ app.op = "idle" /\ UNCHANGED <<own, hostWrite, note, review>>
    BY <1>13 DEF TrustTarget, Idle, AppIdle, watchVars, alertVars
  <2>2. \A h \in File : h # g => guard'[h] = guard[h]
    BY <1>1, <1>13 DEF TrustTarget, Guards
  <2>3. ReviewHeld'
    BY <1>1, <2>1, <2>2 DEF AlertInv, ReviewHeld, Held, AnyFile
  <2> QED BY <2>1, <2>3 DEF AlertInv, Noted
<1>14. ASSUME TrustTargetDone PROVE AlertInv'
  <2>1. /\ app.op = "restamp" /\ app'.op = "idle" /\ app.file \in File
        /\ UNCHANGED <<own, hostWrite>>
    BY <1>14 DEF TrustTargetDone, Idle, AppFile
  <2>2. \A f \in File : note'[f].fresh => note'[f] = note[f]
    BY <1>1, <1>14 DEF TrustTargetDone, TypeOK, Notes
  <2>3. ReviewHeld'
    <3>1. CASE r = app.file
      BY <1>14, <3>1 DEF TrustTargetDone, Settled, NoReview, ReviewHeld
    <3>2. CASE r # app.file
      <4>1. review' = review
        BY <1>14, <3>2 DEF TrustTargetDone, Settled
      <4>2. r # NoFile => /\ r \in File
                         /\ (guard[r].blocked \/ guard[r].trusted \in own[r])
        BY <1>1, <3>2 DEF AlertInv, ReviewHeld, Held, AnyFile
      <4>3. guard' = RulesStatus(guard, config)
        BY <1>14 DEF TrustTargetDone
      <4> QED BY <1>1, <2>1, <4>1, <4>2, <4>3, OnlyBlocks DEF ReviewHeld, Held
    <3> QED BY <3>1, <3>2
  <2> QED BY <2>1, <2>2, <2>3 DEF AlertInv, Noted
<1>15. ASSUME QueryStatus PROVE AlertInv'
  <2>1. \A f \in File : /\ guard[f].blocked => guard'[f].blocked
                        /\ guard'[f].trusted = guard[f].trusted
    BY <1>1, <1>15, OnlyBlocks DEF QueryStatus
  <2> QED BY <1>2, <1>15, <2>1 DEF QueryStatus, watchVars, alertVars
<1>16. ASSUME NEW w \in Workspace, NEW e \in Remembered, ApprovalCheck(w, e)
       PROVE  AlertInv'
  <2>1. \A f \in File : /\ guard[f].blocked => guard'[f].blocked
                        /\ guard'[f].trusted = guard[f].trusted
    BY <1>1, <1>16, OnlyBlocks DEF ApprovalCheck
  <2>2. /\ app.op = "idle" /\ app'.op \in {"idle", "checked"}
        /\ UNCHANGED <<own, hostWrite, note, review>>
    BY <1>16 DEF ApprovalCheck, AppIdle, Idle, watchVars, alertVars
  <2>3. ReviewHeld'
    BY <1>1, <2>1, <2>2 DEF AlertInv, ReviewHeld, Held, AnyFile
  <2> QED BY <2>2, <2>3 DEF AlertInv, Noted
<1>17. ASSUME RememberLoad PROVE AlertInv'
  <2>1. app.op = "checked" /\ UNCHANGED <<own, hostWrite, guard, review>>
    BY <1>17 DEF RememberLoad, alertVars
  <2>2. CASE app' = Idle /\ UNCHANGED note
    BY <2>1, <2>2 DEF AlertInv, ReviewHeld, Noted, Held, Idle
  <2>3. CASE ~(app' = Idle /\ UNCHANGED note)
    <3> DEFINE new == Current(app.file).rules \union app.rules
    <3>1. /\ app' = [app EXCEPT !.op = "loaded", !.rules = new]
          /\ note' = [note EXCEPT ![app.file] = [body |-> Holding(new),
                                                 fresh |-> TRUE]]
      BY <1>17, <2>3 DEF RememberLoad
    <3> HIDE DEF new
    <3>2. app'.op = "loaded" /\ app'.file = app.file /\ app'.rules = new
      BY <3>1 DEF TypeOK, Handlers
    <3>3. /\ app.file \in File /\ note'[app.file].body = Holding(new)
          /\ \A f \in File : f # app.file => note'[f] = note[f]
      BY <2>1, <3>1 DEF TypeOK, Notes, AppFile
    <3>4. \A f \in File : Noted(f)'
      BY <2>1, <3>2, <3>3 DEF AlertInv, Noted
    <3>5. ReviewHeld'
      BY <2>1 DEF AlertInv, ReviewHeld, Held
    <3> QED BY <2>1, <3>2, <3>4, <3>5 DEF AlertInv
  <2> QED BY <2>2, <2>3
<1>18. ASSUME RememberWrite PROVE AlertInv'
  <2>1. /\ app.op = "loaded" /\ app'.op = "written" /\ app'.file = app.file
        /\ app'.rules = app.rules /\ Wrote(app.file, Holding(app.rules))
        /\ UNCHANGED <<guard, review, note, hostWrite>>
    BY <1>18 DEF RememberWrite, TypeOK, Handlers, watchVars, alertVars
  <2>2. /\ app.file \in File /\ Holding(app.rules) \in own'[app.file]
        /\ \A f \in File : own[f] \subseteq own'[f]
    BY <2>1 DEF Wrote, TypeOK, Vouchers, AppFile
  <2>3. hostWrite' # NoWrite => hostWrite'.body \in own'[hostWrite'.file]
    <3>1. hostWrite.file \in File \/ hostWrite.file = NoFile
      BY DEF TypeOK, HostWrites, File
    <3>2. own' = [own EXCEPT ![app.file] = own[app.file]
                                             \union {Holding(app.rules)}]
      BY <2>1 DEF Wrote
    <3>3. own[hostWrite.file] \subseteq own'[hostWrite.file]
      BY <2>2, <3>1, <3>2 DEF TypeOK, Vouchers
    <3> QED BY <2>1, <3>3 DEF AlertInv
  <2>4. \A f \in File : Noted(f)'
    BY <2>1, <2>2 DEF AlertInv, Noted
  <2>5. ReviewHeld'
    BY <1>1, <2>1, <2>2 DEF AlertInv, ReviewHeld, Held, AnyFile
  <2> QED BY <2>1, <2>2, <2>3, <2>4, <2>5 DEF AlertInv
<1>19. ASSUME RememberTrust PROVE AlertInv'
  <2>1. /\ app.op = "written" /\ app'.op = "idle" /\ app.file \in File
        /\ UNCHANGED <<own, hostWrite, note, review>>
    BY <1>19 DEF RememberTrust, Idle, AppFile, watchVars, alertVars
  <2>2. \A f \in File : \/ guard'[f] = guard[f]
                        \/ guard'[f].trusted \in own[f]
    <3>1. CASE UNCHANGED guard
      BY <3>1
    <3>2. CASE guard' = [guard EXCEPT ![app.file] = Open(Current(app.file))]
               /\ Current(app.file) = Holding(app.rules)
      BY <1>1, <2>1, <3>2 DEF AlertInv, Open, Guards
    <3> QED BY <1>19, <3>1, <3>2 DEF RememberTrust
  <2>3. ReviewHeld'
    BY <1>1, <2>1, <2>2 DEF AlertInv, ReviewHeld, Held, AnyFile
  <2> QED BY <2>1, <2>3 DEF AlertInv, Noted
<1>20. ASSUME NEW cfg \in Configs, ReplaceConfig(cfg) PROVE AlertInv'
  BY <1>2, <1>20 DEF ReplaceConfig, watchVars, alertVars
<1>21. ASSUME NEW cfg \in Configs, SoftRefresh(cfg) PROVE AlertInv'
  <2>1. \A f \in File : ~note'[f].fresh
    BY <1>1, <1>21 DEF SoftRefresh
  <2> QED BY <1>2, <1>21, <2>1 DEF SoftRefresh, alertVars
<1>22. ASSUME NEW cfg \in Configs, NEW ready \in BOOLEAN, Launch(cfg, ready)
       PROVE  AlertInv'
  <2> DEFINE w == hostWrite.file
             trusting == [guard EXCEPT ![w] = Open(hostWrite.body)]
  <2>1. /\ UNCHANGED <<own, app, review, note>> /\ hostWrite' = NoWrite
        /\ hostWrite.body \in own[w]
    BY <1>22 DEF Launch, AlertInv, watchVars, alertVars
  <2>2. trusting \in Guards
    BY GuardType DEF TypeOK, HostWrites
  <2>3. \A f \in File : trusting[f] = IF f = w THEN Open(hostWrite.body)
                                               ELSE guard[f]
    BY <1>1 DEF Guards
  <2>4. guard' \in {guard, trusting, Ensure(trusting, cfg, w)}
    BY <1>22 DEF Launch
  <2> HIDE DEF trusting
  <2>5. \A f \in File : \/ f = w /\ guard'[f].trusted \in own[f]
                        \/ /\ guard[f].blocked => guard'[f].blocked
                           /\ guard'[f].trusted = guard[f].trusted
    BY <2>1, <2>2, <2>3, <2>4, OnlyBlocks DEF Open
  <2>6. ReviewHeld'
    BY <1>1, <2>1, <2>5 DEF AlertInv, ReviewHeld, Held, AnyFile
  <2> QED BY <2>1, <2>6, AlertKept
<1>23. ASSUME UNCHANGED vars PROVE AlertInv'
  BY <1>2, <1>23 DEF vars
<1> QED
  BY <1>3, <1>4, <1>5, <1>6, <1>7, <1>8, <1>9, <1>10, <1>11, <1>12, <1>13,
     <1>14, <1>15, <1>16, <1>17, <1>18, <1>19, <1>20, <1>21, <1>22, <1>23
  DEF Next, WatchStep, AppStep, UserStep, ConfigStep, OutsideStep

\* While an alert waits its file is blocked, or what is trusted is what Harness
\* Hat itself wrote, whatever editors, clients, launches, scans and dialogs do.
THEOREM AlertBlockHolds == Spec => []AlertHoldsTheBlock
<1>1. Init => TypeInv /\ AlertInv
  BY InitType DEF Init, AlertInv, ReviewHeld, NoReview, NoNote, Idle, Noted
<1>2. TypeInv /\ AlertInv /\ [Next]_vars => TypeInv' /\ AlertInv'
  BY NextType, NextAlert
<1>3. TypeInv /\ AlertInv => AlertHoldsTheBlock
  BY DEF AlertInv, ReviewHeld, Held, AlertHoldsTheBlock
<1> QED BY <1>1, <1>2, <1>3, PTL DEF Spec

-----------------------------------------------------------------------------
(* A file in line stays in line: IntactStaysOpen *)

\* A check or a report of the guard leaves an intact file as it is.
LEMMA IntactKept ==
  ASSUME NEW g \in Guards, NEW cfg, NEW w, NEW f \in File, Intact(g, f)
  PROVE  /\ Ensure(g, cfg, w)[f] = g[f]
         /\ RulesStatus(g, cfg)[f] = g[f]
<1>1. RulesStatus(g, cfg)[f] = g[f]
  BY DEF RulesStatus
<1>2. ~Passes(g, cfg, w) /\ Intact(g, GlobalFile) => ~Intact(g, w)
  BY DEF Passes, FilesFor
<1>3. CASE Passes(g, cfg, w)
  BY <1>1, <1>3 DEF Ensure
<1>4. CASE ~Passes(g, cfg, w)
  <2>1. f # IF Intact(g, GlobalFile) THEN w ELSE GlobalFile
    BY <1>2, <1>4
  <2>2. Ensure(g, cfg, w)[f] = g[f]
    BY <1>4, <2>1 DEF Ensure, Guards
  <2> QED BY <1>1, <2>2
<1> QED BY <1>3, <1>4

\* Contents, stamp and version of a file that is not written stay.
LEMMA Unwritten ==
  ASSUME TypeInv, [Next]_vars, NEW f \in File, Gen(f)' = Gen(f)
  PROVE  hist'[f] = hist[f]
<1> USE RulesGuardAssumption DEF TypeInv
<1>1. UNCHANGED hist \/ \E g \in AnyFile, b \in Body : Write(g, b)
  BY NextWrites
<1>2. ASSUME NEW g \in AnyFile, NEW b \in Body, Write(g, b)
      PROVE  hist'[f] = hist[f]
  <2>1. hist'[f] = IF f = g THEN Append(hist[f], b) ELSE hist[f]
    BY <1>2 DEF Write, TypeOK, Histories
  <2>2. hist[f] \in Seq(Body)
    BY DEF TypeOK, Histories
  <2>3. Len(hist[f]) \in Nat /\ Len(Append(hist[f], b)) = Len(hist[f]) + 1
    <3>1. \A seq \in Seq(Body) : Len(Append(seq, b)) = Len(seq) + 1
      BY AppendProperties, Zenon
    <3> QED BY <2>2, <3>1
  <2>4. f # g
    <3>1. Len(hist'[f]) = Len(hist[f])
      BY DEF Gen
    <3> QED BY <2>1, <2>3, <3>1
  <2> QED BY <2>1, <2>4
<1> QED BY <1>1, <1>2

\* A step that leaves the stamps as they are, or only forgets them.
LEMMA InLineKept ==
  ASSUME NEW f \in File, hist'[f] = hist[f], Intact(guard, f),
         guard'[f] = guard[f], review'.file # f,
         \A t \in Thread : scan'[t].stamps[f] \in {NoStamp, Stamp(f)},
         baseline'[f] \in {NoStamp, Stamp(f)}
  PROVE  InLine(f)'
<1>1. Current(f)' = Current(f) /\ Stamp(f)' = Stamp(f)
  BY DEF Current, Stamp, Gen
<1>2. Intact(guard, f)'
  BY <1>1 DEF Intact
<1> QED BY <1>1, <1>2 DEF InLine, NoOlderStamp

\* A step keeps a file in line.
LEMMA LineSteps ==
  ASSUME TypeInv, [Next]_vars, NEW f \in File, Gen(f)' = Gen(f), InLine(f)
  PROVE  InLine(f)'
<1> USE RulesGuardAssumption DEF TypeInv, hostVars
<1> DEFINE Quiet == UNCHANGED <<guard, review, scan, baseline>>
<1>1. /\ hist'[f] = hist[f] /\ Intact(guard, f) /\ review.file # f
      /\ \A t \in Thread : scan[t].stamps[f] \in {NoStamp, Stamp(f)}
      /\ baseline[f] \in {NoStamp, Stamp(f)}
  BY Unwritten DEF InLine, NoOlderStamp
<1>2. Open(Current(f)) = guard[f]
  BY <1>1 DEF Intact, Open, TypeOK, Guards, Entry
<1>3. \A cfg, w : /\ Ensure(guard, cfg, w)[f] = guard[f]
                  /\ RulesStatus(guard, cfg)[f] = guard[f]
  BY <1>1, IntactKept DEF TypeOK
<1>4. \A g : /\ [guard EXCEPT ![g] = Open(Current(g))][f] = guard[f]
             /\ g # f => Block(guard, g)[f] = guard[f]
  BY <1>2 DEF Block, TypeOK, Guards
<1>5. ASSUME guard'[f] = guard[f], UNCHANGED <<review, scan, baseline>>
      PROVE  InLine(f)'
  BY <1>1, <1>5, InLineKept
<1>6. ASSUME NEW q \in Request, RequestStep(q) PROVE InLine(f)'
  <2>1. /\ \E w : guard' \in {guard, Ensure(guard, config, w)}
        /\ UNCHANGED <<review, scan, baseline>>
    BY <1>6 DEF RequestStep, Begin, FirstCheck, LoadRules, SecondCheck,
                watchVars, alertVars
  <2> QED BY <1>3, <1>5, <2>1
<1>7. ASSUME \/ \E g \in File, b \in EditBodies : Edit(g, b)
             \/ \E w \in Workspace, e \in HostRules : SaveTemplate(w, e)
             \/ \E g \in File : NoteExpires(g)
             \/ \E c \in {"allow", "deny"} : AnswerDialog(c)
             \/ RememberLoad \/ RememberWrite
             \/ \E cfg \in Configs : ReplaceConfig(cfg)
             \/ UNCHANGED vars
      PROVE  InLine(f)'
  <2>1. Quiet
    BY <1>7 DEF Edit, SaveTemplate, NoteExpires, AnswerDialog, RememberLoad,
                RememberWrite, ReplaceConfig, watchVars, alertVars, vars
  <2> QED BY <1>5, <2>1
<1>8. ASSUME Poll PROVE InLine(f)'
  <2>1. UNCHANGED <<guard, review>> /\ baseline'[f] \in {baseline[f], NoStamp}
    BY <1>8 DEF Poll, alertVars
  <2>2. ASSUME NEW t \in Thread
        PROVE  scan'[t].stamps[f] \in {NoStamp, scan[t].stamps[f]}
    <3>1. CASE inFlight
      BY <1>8, <3>1 DEF Poll
    <3>2. CASE ~inFlight
      <4>1. PICK u \in Thread :
              scan' = [scan EXCEPT ![u] = [todo |-> Watched(config),
                         stamps |-> [g \in File |-> NoStamp], on |-> TRUE]]
        BY <1>8, <3>2 DEF Poll
      <4> QED BY <4>1 DEF TypeOK, Scans
    <3> QED BY <3>1, <3>2
  <2> QED BY <1>1, <2>1, <2>2, InLineKept
<1>9. ASSUME NEW t \in Thread, NEW g \in File, ScanFile(t, g) PROVE InLine(f)'
  <2>1. UNCHANGED <<guard, review, baseline>>
        /\ scan' = [scan EXCEPT ![t] = Stamped(scan[t], g)]
    BY <1>9 DEF ScanFile, alertVars
  <2>2. Stamped(scan[t], g).stamps[f] \in {Stamp(f), scan[t].stamps[f]}
    BY DEF Stamped, TypeOK, Scans, Gens
  <2>3. \A u \in Thread : scan'[u].stamps[f] \in {Stamp(f), scan[u].stamps[f]}
    BY <2>1, <2>2 DEF TypeOK, Scans
  <2> QED BY <1>1, <2>1, <2>3, InLineKept
<1>10. ASSUME NEW t \in Thread, ApplyScan(t) PROVE InLine(f)'
  <2>1. f \notin Changed(t) /\ f \notin Alerts(t)
    BY <1>1 DEF Changed, Alerts
  <2>2. /\ guard'[f] = guard[f]
        /\ baseline'[f] \in {baseline[f], scan[t].stamps[f]}
    BY <1>10, <2>1 DEF ApplyScan
  <2>3. review'.file # f
    BY <1>1, <1>10, <2>1 DEF ApplyScan, Alert
  <2>4. \A u \in Thread : scan'[u].stamps[f] \in {NoStamp, scan[u].stamps[f]}
    BY <1>10 DEF ApplyScan, TypeOK, Scans, NoScan
  <2> QED BY <1>1, <2>2, <2>3, <2>4, InLineKept
<1>11. ASSUME LaunchDialog PROVE InLine(f)'
  <2>1. UNCHANGED <<guard, scan, baseline>> /\ review'.file = review.file
    BY <1>11 DEF LaunchDialog, watchVars, TypeOK, Reviews
  <2> QED BY <1>1, <2>1, InLineKept
<1>12. ASSUME DialogResult \/ TrustAlert PROVE InLine(f)'
  <2>1. UNCHANGED <<scan, baseline>>
    BY <1>12 DEF DialogResult, TrustAlert, watchVars
  <2>2. guard'[f] = guard[f] /\ review'.file # f
    <3>1. CASE UNCHANGED <<guard, review>>
      BY <1>1, <3>1
    <3>2. CASE TrustReviewed \/ DismissReview
      <4>1. \/ guard' = Block(guard, review.file)
            \/ guard' = [guard EXCEPT ![review.file]
                           = Open(Current(review.file))]
        BY <3>2 DEF TrustReviewed, DismissReview
      <4>2. review'.file \in {review.file, NoFile}
        BY <3>2 DEF TrustReviewed, DismissReview, NoReview, TypeOK, Reviews
      <4> QED BY <1>1, <1>4, <4>1, <4>2
    <3> QED BY <1>12, <3>1, <3>2 DEF DialogResult, TrustAlert
  <2> QED BY <1>1, <2>1, <2>2, InLineKept
<1>13. ASSUME \/ \E g \in TrustTargets : TrustTarget(g)
              \/ QueryStatus \/ RememberTrust
              \/ \E w \in Workspace, e \in Remembered : ApprovalCheck(w, e)
       PROVE  InLine(f)'
  <2>1. /\ UNCHANGED <<review, scan, baseline>>
        /\ \/ guard' \in {guard, RulesStatus(guard, config)}
           \/ \E g : guard' = [guard EXCEPT ![g] = Open(Current(g))]
           \/ \E w : guard' = Ensure(guard, config, w)
    BY <1>13 DEF TrustTarget, QueryStatus, RememberTrust, ApprovalCheck,
                 watchVars, alertVars
  <2>2. guard'[f] = guard[f]
    <3>1. CASE guard' \in {guard, RulesStatus(guard, config)}
      BY <1>3, <3>1
    <3>2. ASSUME NEW g, guard' = [guard EXCEPT ![g] = Open(Current(g))]
          PROVE  guard'[f] = guard[f]
      BY <1>4, <3>2
    <3>3. ASSUME NEW w, guard' = Ensure(guard, config, w)
          PROVE  guard'[f] = guard[f]
      BY <1>3, <3>3
    <3> QED BY <2>1, <3>1, <3>2, <3>3
  <2> QED BY <1>5, <2>1, <2>2
<1>14. ASSUME TrustTargetDone PROVE InLine(f)'
  <2>1. guard'[f] = guard[f] /\ UNCHANGED scan
    BY <1>3, <1>14 DEF TrustTargetDone
  <2>2. review'.file # f /\ baseline'[f] \in {baseline[f], Stamp(f)}
    BY <1>1, <1>14 DEF TrustTargetDone, Settled, NoReview, TypeOK, Gens
  <2> QED BY <1>1, <2>1, <2>2, InLineKept
<1>15. ASSUME NEW cfg \in Configs, SoftRefresh(cfg) PROVE InLine(f)'
  <2>1. /\ UNCHANGED <<guard, review, scan>>
        /\ baseline'[f] \in {NoStamp, Stamp(f)}
    BY <1>15 DEF SoftRefresh, Restamp, alertVars
  <2> QED BY <1>1, <2>1, InLineKept
<1>16. ASSUME NEW cfg \in Configs, NEW ready \in BOOLEAN, Launch(cfg, ready)
       PROVE  InLine(f)'
  <2> DEFINE w == hostWrite.file
             trusting == [guard EXCEPT ![w] = Open(hostWrite.body)]
  <2>1. UNCHANGED <<review, scan, baseline>>
    BY <1>16 DEF Launch, watchVars, alertVars
  <2>2. CASE UNCHANGED guard
    BY <1>5, <2>1, <2>2
  <2>3. CASE Current(w) = hostWrite.body
             /\ guard' \in {trusting, Ensure(trusting, cfg, w)}
    <3>1. trusting \in Guards
      BY GuardType DEF TypeOK, HostWrites
    <3>2. trusting[f] = guard[f]
      BY <1>4, <2>3
    <3> HIDE DEF trusting
    <3>3. Intact(trusting, f)
      BY <1>1, <3>2 DEF Intact
    <3>4. Ensure(trusting, cfg, w)[f] = trusting[f]
      BY <3>1, <3>3, IntactKept
    <3> QED BY <1>5, <2>1, <2>3, <3>2, <3>4
  <2> QED BY <1>16, <2>2, <2>3 DEF Launch
<1> QED
  BY <1>6, <1>7, <1>8, <1>9, <1>10, <1>11, <1>12, <1>13, <1>14, <1>15, <1>16
  DEF Next, WatchStep, AppStep, UserStep, ConfigStep, OutsideStep

\* The end of an explicit trust brings the file in line.
LEMMA TrustLines ==
  ASSUME TypeInv, [Next]_vars, NEW f \in File, Gen(f)' = Gen(f),
         JustTrusted(f), NoOlderStamp(f), app' = Idle
  PROVE  InLine(f)'
<1> USE RulesGuardAssumption DEF TypeInv, hostVars
<1>1. app.op = "restamp" /\ app'.op = "idle" /\ app.file = f /\ Intact(guard, f)
  BY DEF JustTrusted, Idle
<1>2. TrustTargetDone
  <2>1. \A q \in Request : ~RequestStep(q)
    BY <1>1 DEF RequestStep, Begin, FirstCheck, LoadRules, SecondCheck
  <2>2. ~WatchStep /\ ~LaunchDialog /\ ~DialogResult
    BY <1>1 DEF WatchStep, Poll, ScanFile, ApplyScan, LaunchDialog,
                DialogResult, AppIdle
  <2>3. ~UserStep /\ ~ConfigStep /\ ~OutsideStep
    BY <1>1 DEF UserStep, AnswerDialog, TrustAlert, QueryStatus, TrustTarget,
                ApprovalCheck, ConfigStep, ReplaceConfig, SoftRefresh, Launch,
                OutsideStep, Edit, SaveTemplate, NoteExpires, AppIdle
  <2>4. ~RememberLoad /\ ~RememberWrite /\ ~RememberTrust /\ ~UNCHANGED vars
    BY <1>1 DEF RememberLoad, RememberWrite, RememberTrust, vars
  <2> QED BY <2>1, <2>2, <2>3, <2>4 DEF Next, AppStep
<1>3. guard'[f] = guard[f] /\ UNCHANGED scan /\ hist'[f] = hist[f]
  BY <1>1, <1>2, IntactKept DEF TrustTargetDone, TypeOK
<1>4. review'.file # f /\ baseline'[f] = Stamp(f)
  BY <1>1, <1>2 DEF TrustTargetDone, Settled, NoReview, TypeOK, Gens
<1> QED BY <1>1, <1>3, <1>4, InLineKept DEF NoOlderStamp

\* An explicit trust brings a file in line with the watcher, unless a scan with
\* an older stamp is under way, and a file in line stays so until it is written.
THEOREM IntactStaysOpenHolds == Spec => IntactStaysOpen
<1> DEFINE Ok(f) == /\ Gen(f)' = Gen(f)
                    /\ \/ InLine(f)
                       \/ JustTrusted(f) /\ NoOlderStamp(f) /\ app' = Idle
                    => InLine(f)'
<1>1. TypeInv /\ [Next]_vars => [\A f \in File : Ok(f)]_vars
  BY LineSteps, TrustLines
<1>2. Init => TypeInv
  BY InitType
<1>3. TypeInv /\ [Next]_vars => TypeInv'
  BY NextType
<1> QED BY <1>1, <1>2, <1>3, PTL DEF Spec, IntactStaysOpen
=============================================================================
