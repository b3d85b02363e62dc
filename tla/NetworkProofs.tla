--------------------------- MODULE NetworkProofs ---------------------------
(***************************************************************************)
(* Theorems about NetworkApproval, for any connections, sessions,          *)
(* destinations and bounds: the rows keep within their quota, nothing is   *)
(* forwarded under the answer to another request, no request that waits is *)
(* lost between the channel and the rows, and what is cut while it asks is *)
(* not forwarded.                                                          *)
(***************************************************************************)
EXTENDS NetworkApproval, TLAPS, Facts

Unsent == {"new", "open", "sending"}
Passed == {"connecting", "forwarding"}
Waits(c) == pc[c] = "waiting" /\ reply[c] = "none"

(***************************************************************************)
(* The inductive invariant.  A request is in one place: not yet sent, in   *)
(* the channel once, in one row, or nowhere once it was answered.          *)
(***************************************************************************)
InChannel(c) == c \in Range(channel)
InSome(c) == \E row \in rows : c \in In(row)

Placed ==
  /\ IsInjective(channel)
  /\ \A c \in Conn : InChannel(c) => pc[c] \notin Unsent /\ ~InSome(c)
  /\ \A row \in rows : \A c \in In(row) :
       /\ pc[c] \notin Unsent
       /\ Key(c) = Key(row.shown)
       /\ \A other \in rows : c \in In(other) => other = row
  /\ \A c \in Conn : Waits(c) => InChannel(c) \/ InSome(c)

\* Whoever is let pass, or may be in its next step, was granted that.
Granted ==
  \A c \in Conn : pc[c] \in Passed \/ reply[c] = "allow" => c \in granted

\* A plain request that was cut while it asked has its flag up, and asks still or
\* is over.
CutShort == \A c \in early : flag[c] /\ pc[c] \in Asking \cup {"over"}

Inv == TypeOK /\ IsFiniteSet(rows) /\ Placed /\ Granted /\ CutShort

-----------------------------------------------------------------------------
(* Types, and the quota of the rows *)

PlainTypes ==
  /\ pc \in [Conn -> Stage]
  /\ flag \in [Conn -> BOOLEAN]
  /\ reply \in [Conn -> {"none", "allow", "deny"}]
  /\ live \subseteq Session
  /\ turn \in {"prune", "enqueue", "decide"}
  /\ granted \subseteq Conn /\ early \subseteq Conn \ Tunnel

\* A task changes its stage, and whether it was granted to go on.
TaskStep(c) ==
  \/ Open(c)
  \/ \E stage \in Stage \ {"new", "waiting"} :
       /\ Goto(c, stage) /\ UNCHANGED early
       /\ pc[c] # "over"
       /\ stage \in Unsent => pc[c] \in Unsent
       /\ granted \subseteq granted' /\ granted' \subseteq granted \cup {c}
       /\ stage \in Passed => c \in granted' \/ pc[c] \in Passed \/ reply[c] = "allow"
       /\ stage \in Passed /\ flag[c] /\ pc[c] \in Asking => c \in Tunnel

LEMMA TaskSteps ==
  ASSUME PlainTypes, NEW c \in Conn, Task(c)
  PROVE  TaskStep(c) \/ Send(c)
<1>1. ASSUME NEW p \in Policies, Policy(c, p)
      PROVE  TaskStep(c)
  <2>1. p \in {"auto", "deny", "prompt"}
    BY NetworkAssumption
  <2>2. CASE p = "auto"
    BY <1>1, <2>2 DEF PlainTypes, Policy, Proceed, TaskStep, Stage, Unsent, Passed, history
  <2>3. CASE p = "deny"
    BY <1>1, <2>3 DEF PlainTypes, Policy, TaskStep, Stage, Unsent, Passed, history
  <2>4. CASE p = "prompt"
    BY <1>1, <2>4 DEF PlainTypes, Policy, TaskStep, Stage, Unsent, Passed, history
  <2> QED BY <2>1, <2>2, <2>3, <2>4
<1>2. CASE TakeAllow(c)
  BY <1>2 DEF PlainTypes, TakeAllow, Proceed, TaskStep, Stage, Unsent, Passed, history
<1>3. CASE \/ TakeDeny(c) \/ Expire(c) \/ Forward(c) \/ Finish(c)
           \/ Cancelled(c) \/ Abort(c)
  BY <1>3 DEF PlainTypes, TakeDeny, Expire, Forward, Finish, Cancelled, Abort, Tasks,
              Leave, TaskStep, Stage, Unsent, Passed, Asking, history
<1> QED BY <1>1, <1>2, <1>3 DEF Task, TaskStep

LEMMA NextTypes == Inv /\ [Next]_vars => PlainTypes'
<1> SUFFICES ASSUME Inv, [Next]_vars
             PROVE  PlainTypes'
  OBVIOUS
<1>1. PlainTypes /\ channel \in Seq(Conn) /\ rows \subseteq Rows
  BY DEF Inv, TypeOK, PlainTypes
<1> USE DEF PlainTypes, Stage, history, Cuttable
<1>2. ASSUME NEW c \in Conn, Task(c)
      PROVE  PlainTypes'
  <2>1. CASE TaskStep(c)
    BY <1>1, <2>1 DEF TaskStep, Open, Goto
  <2>2. CASE Send(c)
    BY <1>1, <2>2 DEF Send
  <2> QED BY <1>1, <1>2, <2>1, <2>2, TaskSteps
<1>3. ASSUME NEW s \in Session, Cut(s)
      PROVE  PlainTypes'
  BY <1>1, <1>3 DEF Cut
<1>4. ASSUME NEW gone, NEW decision \in {"allow", "deny"}, Answer(gone, decision)
      PROVE  reply' \in [Conn -> {"none", "allow", "deny"}]
  BY <1>1, <1>4 DEF Answer
<1>5. CASE Prune \/ Enqueue \/ NextTurn
  <2>1. CASE Prune
    BY <1>1, <1>4, <2>1 DEF Prune
  <2>2. CASE Enqueue
    BY <1>1, <2>2 DEF Enqueue
  <2>3. CASE NextTurn
    BY <1>1, <2>3 DEF NextTurn
  <2> QED BY <1>5, <2>1, <2>2, <2>3
<1>6. ASSUME NEW row \in rows, NEW decision \in {"allow", "deny"}, Decide(row, decision)
      PROVE  PlainTypes'
  BY <1>1, <1>4, <1>6 DEF Decide
<1>7. ASSUME NEW c \in Conn, CancelRequest(c)
      PROVE  PlainTypes'
  BY <1>1, <1>7 DEF CancelRequest
<1>8. ASSUME NEW s \in Session, CloseSession(s)
      PROVE  PlainTypes'
  BY <1>1, <1>4, <1>8 DEF CloseSession
<1>9. ASSUME NEW w, RemoveWorkspace(w)
      PROVE  PlainTypes'
  BY <1>1, <1>4, <1>9 DEF RemoveWorkspace
<1>10. CASE UNCHANGED vars
  BY <1>1, <1>10 DEF vars
<1> QED BY <1>2, <1>3, <1>5, <1>6, <1>7, <1>8, <1>9, <1>10 DEF Next, EventLoop

\* Flags are raised, and nothing else.
Cuts(S) ==
  /\ flag' = [c \in Conn |-> flag[c] \/ c \in S]
  /\ early' = early \cup Cuttable(S)

\* What an action may do to the rows and the channel.
Answers ==
  \E gone \in SUBSET rows, decision \in {"allow", "deny"} :
    /\ Answer(gone, decision)
    /\ UNCHANGED <<pc, flag, channel, early>>
    /\ \/ decision = "deny" /\ granted' = granted
       \/ \E row \in rows :
            /\ gone = {row}
            /\ granted' = granted \cup
                 {c \in Conn : pc[c] = "waiting" /\ Key(c) = Key(row.shown)}

LEMMA LoopSteps ==
  ASSUME PlainTypes, EventLoop
  PROVE  \/ Answers \/ Enqueue
         \/ /\ UNCHANGED <<pc, reply, channel, rows, granted>>
            /\ \E S \in SUBSET Conn : Cuts(S)
<1> USE DEF history
<1>1. CASE Prune
  BY <1>1 DEF Prune, Answers
<1>2. ASSUME NEW row \in rows, NEW decision \in {"allow", "deny"}, Decide(row, decision)
      PROVE  Answers
  BY <1>2 DEF Decide, Answers
<1>3. ASSUME NEW s \in Session, CloseSession(s)
      PROVE  Answers
  BY <1>3 DEF CloseSession, Answers
<1>4. ASSUME NEW w, RemoveWorkspace(w)
      PROVE  Answers
  BY <1>4 DEF RemoveWorkspace, Answers, RowsOf
<1>5. CASE NextTurn
  <2>1. Cuts({}) /\ UNCHANGED <<pc, reply, channel, rows, granted>>
    BY <1>5 DEF NextTurn, Cuts, Cuttable, PlainTypes
  <2> QED BY <2>1
<1>6. ASSUME NEW c \in Conn, CancelRequest(c)
      PROVE  Cuts({c}) /\ UNCHANGED <<pc, reply, channel, rows, granted>>
  BY <1>6 DEF CancelRequest, Cuts, PlainTypes
<1> QED BY <1>1, <1>2, <1>3, <1>4, <1>5, <1>6 DEF EventLoop

RowsInv == rows \subseteq Rows /\ IsFiniteSet(rows) /\ QuotaHolds

LEMMA FewerRows ==
  ASSUME RowsInv, rows' \subseteq rows
  PROVE  RowsInv'
<1>1. IsFiniteSet(rows') /\ Cardinality(rows') <= Total
  BY SubsetBound, NetworkAssumption DEF RowsInv, QuotaHolds
<1>2. ASSUME NEW w \in Range(Workspace)
      PROVE  Cardinality(RowsOf(w)') <= PerSource
  <2>1. RowsOf(w) \subseteq rows /\ RowsOf(w)' \subseteq RowsOf(w)
    BY DEF RowsOf
  <2>2. IsFiniteSet(RowsOf(w)) /\ Cardinality(RowsOf(w)) <= PerSource
    BY <1>2, <2>1, FS_Subset DEF RowsInv, QuotaHolds
  <2> QED BY <2>1, <2>2, SubsetBound, NetworkAssumption
<1> QED BY <1>1, <1>2 DEF RowsInv, QuotaHolds

\* A request that joins a row leaves their number as it is, and which workspace
\* the row counts for.
LEMMA FoldKeepsQuota ==
  ASSUME RowsInv, NEW row \in rows, NEW c \in Conn,
         rows' = (rows \ {row}) \cup {[row EXCEPT !.folded = @ \cup {c}]}
  PROVE  RowsInv'
<1> DEFINE longer == [row EXCEPT !.folded = @ \cup {c}]
<1>1. longer \in Rows /\ longer.shown = row.shown
  BY DEF RowsInv, Rows
<1> HIDE DEF longer
<1>2. rows' = (rows \ {row}) \cup {longer}
  BY DEF longer
<1>3. IsFiniteSet(rows') /\ Cardinality(rows') <= Total
  <2>1. IsFiniteSet(rows) /\ Cardinality(rows) <= Total /\ Total \in Nat
    BY NetworkAssumption DEF RowsInv, QuotaHolds
  <2>2. /\ IsFiniteSet((rows \ {row}) \cup {longer})
        /\ Cardinality((rows \ {row}) \cup {longer}) <= Total
    BY <2>1, SwapBound
  <2> QED BY <1>2, <2>2
<1>4. ASSUME NEW w \in Range(Workspace)
      PROVE  Cardinality(RowsOf(w)') <= PerSource
  <2>1. IsFiniteSet(RowsOf(w)) /\ Cardinality(RowsOf(w)) <= PerSource
    BY <1>4, FS_Subset DEF RowsInv, QuotaHolds, RowsOf
  <2>2. CASE row \in RowsOf(w)
    <3>1. RowsOf(w)' = (RowsOf(w) \ {row}) \cup {longer}
      BY <1>1, <1>2, <2>2 DEF RowsOf
    <3> QED BY <2>1, <2>2, <3>1, SwapBound, NetworkAssumption
  <2>3. CASE row \notin RowsOf(w)
    <3>1. RowsOf(w)' = RowsOf(w)
      BY <1>1, <1>2, <2>3 DEF RowsOf
    <3> QED BY <2>1, <3>1
  <2> QED BY <2>2, <2>3
<1> QED BY <1>1, <1>2, <1>3, <1>4 DEF RowsInv, QuotaHolds

LEMMA NewRowKeepsQuota ==
  ASSUME RowsInv, NEW c \in Conn, HasRoom(c),
         rows' = rows \cup {[shown |-> c, folded |-> {}]}
  PROVE  RowsInv'
<1> DEFINE new == [shown |-> c, folded |-> {}]
<1>1. new \in Rows /\ new.shown = c
  BY DEF Rows
<1> HIDE DEF new
<1>2. rows' = rows \cup {new}
  BY DEF new
<1>3. IsFiniteSet(rows') /\ Cardinality(rows') <= Total
  <2>1. IsFiniteSet(rows) /\ Cardinality(rows) < Total /\ Total \in Nat
    BY NetworkAssumption DEF RowsInv, HasRoom
  <2> QED BY <1>2, <2>1, AddBound
<1>4. ASSUME NEW w \in Range(Workspace)
      PROVE  Cardinality(RowsOf(w)') <= PerSource
  <2>1. IsFiniteSet(RowsOf(w)) /\ Cardinality(RowsOf(w)) <= PerSource
    BY <1>4, FS_Subset DEF RowsInv, QuotaHolds, RowsOf
  <2>2. CASE w = Workspace[Owner[c]]
    <3>1. RowsOf(w)' = RowsOf(w) \cup {new}
      BY <1>1, <1>2, <2>2 DEF RowsOf
    <3> QED BY <2>1, <2>2, <3>1, AddBound, NetworkAssumption DEF HasRoom
  <2>3. CASE w # Workspace[Owner[c]]
    <3>1. RowsOf(w)' = RowsOf(w)
      BY <1>1, <1>2, <2>3 DEF RowsOf
    <3> QED BY <2>1, <3>1
  <2> QED BY <2>2, <2>3
<1> QED BY <1>1, <1>2, <1>3, <1>4 DEF RowsInv, QuotaHolds

LEMMA NextRows == Inv /\ [Next]_vars => RowsInv'
<1> SUFFICES ASSUME Inv, [Next]_vars
             PROVE  RowsInv'
  OBVIOUS
<1>1. RowsInv /\ PlainTypes
  BY DEF Inv, TypeOK, RowsInv, PlainTypes
<1>2. CASE rows' \subseteq rows
  BY <1>1, <1>2, FewerRows
<1>3. CASE Enqueue
  <2>1. channel # <<>> /\ Head(channel) \in Conn
    BY <1>3, TailOnce DEF Enqueue, Inv, TypeOK, Placed
  <2> QED BY <1>1, <1>2, <1>3, <2>1, FoldKeepsQuota, NewRowKeepsQuota DEF Enqueue
<1>4. CASE EventLoop
  <2>1. Answers => rows' \subseteq rows
    BY DEF Answers, Answer
  <2> QED BY <1>1, <1>2, <1>3, <1>4, <2>1, LoopSteps
<1>5. ASSUME NEW c \in Conn, Task(c)
      PROVE  RowsInv'
  BY <1>1, <1>2, <1>5, TaskSteps DEF TaskStep, Open, Goto, Send
<1> QED BY <1>2, <1>4, <1>5 DEF Next, Cut, vars

-----------------------------------------------------------------------------
(* Where a request is, and who may go on *)

LEMMA RowsHold ==
  ASSUME Inv, NEW row \in rows
  PROVE  In(row) \subseteq Conn
BY DEF Inv, TypeOK, Rows, In

LEMMA SendPlaces ==
  ASSUME Inv, NEW c \in Conn, Send(c)
  PROVE  Placed'
<1>1. /\ PlainTypes /\ Placed /\ channel \in Seq(Conn)
      /\ ~InChannel(c) /\ ~InSome(c)
  BY DEF Inv, TypeOK, PlainTypes, Placed, Send, Unsent, InSome
<1>2. Range(channel') = Range(channel) \cup {c} /\ IsInjective(channel')
  BY <1>1, AppendOnce DEF Send, Placed, InChannel
<1>3. /\ pc'[c] = "waiting" /\ UNCHANGED <<rows, reply>>
      /\ \A d \in Conn \ {c} : pc'[d] = pc[d]
  BY <1>1 DEF Send, PlainTypes
<1> QED BY <1>1, <1>2, <1>3, RowsHold DEF Placed, InChannel, InSome, Unsent, Waits, In, Key

\* Answers take rows away, and whoever of them waits has an answer.
LEMMA AnswersPlace ==
  ASSUME Inv, Answers
  PROVE  Placed'
<1>1. PlainTypes /\ Placed
  BY DEF Inv, TypeOK, PlainTypes
<1>2. PICK gone \in SUBSET rows, decision \in {"allow", "deny"} :
        Answer(gone, decision) /\ UNCHANGED <<pc, channel>>
  BY DEF Answers
<1>3. rows' = rows \ gone
  BY <1>2 DEF Answer
<1>4. ASSUME NEW c \in Conn, Waits(c)'
      PROVE  Waits(c) /\ \A row \in gone : c \notin In(row)
  BY <1>1, <1>2, <1>4 DEF Answer, Waits, PlainTypes
<1> QED BY <1>1, <1>2, <1>3, <1>4, RowsHold DEF Placed, InChannel, InSome, In, Key

LEMMA EnqueuePlaces ==
  ASSUME Inv, Enqueue
  PROVE  Placed'
<1> DEFINE c == Head(channel)
<1>1. PlainTypes /\ Placed /\ channel \in Seq(Conn) /\ channel # <<>>
  BY DEF Inv, TypeOK, PlainTypes, Enqueue
<1>2. /\ c \in Conn /\ InChannel(c)
      /\ Range(channel') = Range(channel) \ {c}
      /\ IsInjective(channel')
  BY <1>1, TailOnce DEF Placed, InChannel, Enqueue
<1> HIDE DEF c
<1>3. pc[c] \notin Unsent /\ ~InSome(c) /\ UNCHANGED pc
  BY <1>1, <1>2 DEF Placed, Enqueue
<1>4. \A d \in Conn : InChannel(d)' <=> InChannel(d) /\ d # c
  BY <1>2 DEF InChannel
<1>5. ASSUME NEW row \in rows, Same(row, c), UNCHANGED reply,
             rows' = (rows \ {row}) \cup {[row EXCEPT !.folded = @ \cup {c}]}
      PROVE  Placed'
  <2> DEFINE longer == [row EXCEPT !.folded = @ \cup {c}]
  <2>1. /\ In(longer) = In(row) \cup {c} /\ longer.shown = row.shown
        /\ rows \subseteq Rows
    BY DEF In, Inv, TypeOK, Rows
  <2> HIDE DEF longer
  <2>2. rows' = (rows \ {row}) \cup {longer}
    BY <1>5 DEF longer
  <2>3. \A d \in Conn : InSome(d)' <=> InSome(d) \/ d = c
    BY <1>3, <2>1, <2>2 DEF InSome
  <2>4. \A new \in rows' : \A d \in In(new) :
          /\ pc'[d] \notin Unsent /\ Key(d) = Key(new.shown)
          /\ \A other \in rows' : d \in In(other) => other = new
    BY <1>1, <1>3, <1>5, <2>1, <2>2 DEF Placed, InSome, Same
  <2>5. \A d \in Conn : Waits(d)' <=> Waits(d)
    BY <1>3, <1>5 DEF Waits
  <2> QED BY <1>1, <1>2, <1>3, <1>4, <2>3, <2>4, <2>5 DEF Placed, In, Key
<1>6. ASSUME UNCHANGED reply, rows' = rows \cup {[shown |-> c, folded |-> {}]}
      PROVE  Placed'
  <2> DEFINE added == [shown |-> c, folded |-> {}]
  <2>1. In(added) = {c} /\ added.shown = c /\ rows' = rows \cup {added}
    BY <1>6 DEF In
  <2> HIDE DEF added
  <2>2. \A d \in Conn : InSome(d)' <=> InSome(d) \/ d = c
    BY <2>1 DEF InSome
  <2>3. \A new \in rows' : \A d \in In(new) :
          /\ pc'[d] \notin Unsent /\ Key(d) = Key(new.shown)
          /\ \A other \in rows' : d \in In(other) => other = new
    BY <1>1, <1>3, <2>1 DEF Placed, InSome
  <2>4. \A d \in Conn : Waits(d)' <=> Waits(d)
    BY <1>3, <1>6 DEF Waits
  <2> QED BY <1>1, <1>2, <1>3, <1>4, <2>2, <2>3, <2>4 DEF Placed, In, Key
<1>7. ASSUME UNCHANGED rows,
             reply' = [reply EXCEPT ![c] = IF pc[c] = "waiting" THEN "deny" ELSE @]
      PROVE  Placed'
  <2>1. \A d \in Conn : Waits(d)' <=> Waits(d) /\ d # c
    BY <1>1, <1>2, <1>3, <1>7 DEF Waits, PlainTypes
  <2> QED BY <1>1, <1>2, <1>3, <1>4, <1>7, <2>1 DEF Placed, InSome, In, Key
<1> QED BY <1>5, <1>6, <1>7 DEF Enqueue, c

LEMMA NextPlaced == Inv /\ [Next]_vars => Placed'
<1> SUFFICES ASSUME Inv, [Next]_vars
             PROVE  Placed'
  OBVIOUS
<1>1. PlainTypes /\ Placed
  BY DEF Inv, TypeOK, PlainTypes
<1>2. ASSUME UNCHANGED <<reply, channel, rows>>,
             \A c \in Conn : \/ pc'[c] = pc[c]
                             \/ /\ pc'[c] # "waiting"
                                /\ pc'[c] \in Unsent => pc[c] \in Unsent
      PROVE  Placed'
  BY <1>1, <1>2, RowsHold DEF Placed, InChannel, InSome, Waits, In, Key
<1>3. ASSUME NEW c \in Conn, Task(c)
      PROVE  Placed'
  <2>1. CASE TaskStep(c)
    BY <1>1, <1>2, <2>1 DEF TaskStep, Open, Goto, PlainTypes, Unsent
  <2> QED BY <1>1, <1>3, <2>1, TaskSteps, SendPlaces
<1>4. CASE EventLoop
  BY <1>1, <1>2, <1>4, LoopSteps, AnswersPlace, EnqueuePlaces
<1> QED BY <1>2, <1>3, <1>4 DEF Next, Cut, vars

LEMMA NextGranted == Inv /\ [Next]_vars => Granted'
<1> SUFFICES ASSUME Inv, [Next]_vars
             PROVE  Granted'
  OBVIOUS
<1>1. PlainTypes /\ Granted /\ Placed
  BY DEF Inv, TypeOK, PlainTypes
<1>2. ASSUME NEW c \in Conn, Task(c)
      PROVE  Granted'
  <2>1. CASE TaskStep(c)
    BY <1>1, <2>1 DEF TaskStep, Open, Goto, PlainTypes, Granted, Passed, history
  <2>2. CASE Send(c)
    BY <1>1, <2>2 DEF Send, PlainTypes, Granted, Passed, history
  <2> QED BY <1>1, <1>2, <2>1, <2>2, TaskSteps
<1>3. CASE Answers
  <2>1. PICK gone \in SUBSET rows, decision \in {"allow", "deny"} :
          /\ Answer(gone, decision) /\ UNCHANGED pc /\ granted \subseteq granted'
          /\ decision = "allow" =>
               \E row \in rows :
                 /\ gone = {row}
                 /\ granted' = granted \cup
                      {c \in Conn : pc[c] = "waiting" /\ Key(c) = Key(row.shown)}
    BY <1>3 DEF Answers
  <2>2. ASSUME NEW c \in Conn, reply'[c] = "allow"
        PROVE  c \in granted'
    BY <1>1, <2>1, <2>2 DEF Answer, PlainTypes, Granted, Placed
  <2> QED BY <1>1, <2>1, <2>2 DEF Granted
<1>4. CASE Enqueue
  BY <1>1, <1>4 DEF Enqueue, Granted, PlainTypes, history
<1>5. CASE UNCHANGED <<pc, reply, granted>>
  BY <1>1, <1>5 DEF Granted
<1> QED BY <1>1, <1>2, <1>3, <1>4, <1>5, LoopSteps DEF Next, Cut, vars

\* A cut asker goes on asking or ends: whoever lets it pass, its flag stays up.
LEMMA NextCut == Inv /\ [Next]_vars => CutShort'
<1> SUFFICES ASSUME Inv, [Next]_vars
             PROVE  CutShort'
  OBVIOUS
<1>1. PlainTypes /\ CutShort
  BY DEF Inv, TypeOK, PlainTypes
<1>2. ASSUME NEW c \in Conn, Task(c)
      PROVE  CutShort'
  <2>1. CASE Open(c)
    BY <1>1, <2>1 DEF Open, PlainTypes, CutShort, Asking, history
  <2>2. ASSUME NEW stage \in Stage \ {"new", "waiting"},
               Goto(c, stage), UNCHANGED early, pc[c] # "over",
               stage \in Passed /\ flag[c] /\ pc[c] \in Asking => c \in Tunnel
        PROVE  CutShort'
    BY <1>1, <2>2 DEF Goto, PlainTypes, CutShort, Stage, Asking, Passed
  <2>3. CASE Send(c)
    BY <1>1, <2>3 DEF Send, PlainTypes, CutShort, Asking, history
  <2> QED BY <1>1, <1>2, <2>1, <2>2, <2>3, TaskSteps DEF TaskStep
<1>3. ASSUME NEW S \in SUBSET Conn, Cuts(S), UNCHANGED pc
      PROVE  CutShort'
  BY <1>1, <1>3 DEF Cuts, Cuttable, PlainTypes, CutShort, Asking
<1>4. CASE Answers \/ Enqueue \/ UNCHANGED vars
  BY <1>1, <1>4 DEF Answers, Enqueue, vars, CutShort, history
<1>5. ASSUME NEW s \in Session, Cut(s)
      PROVE  CutShort'
  <2> DEFINE S == {c \in Conn : c \in Tasks /\ Owner[c] = s}
  <2>1. flag' = [c \in Conn |-> flag[c] \/ c \in S]
    BY <1>5 DEF Cut
  <2>2. Cuttable({c \in Conn : Owner[c] = s}) = Cuttable(S)
    BY DEF Cuttable, Tasks, Asking
  <2>3. Cuts(S) /\ UNCHANGED pc
    BY <1>5, <2>1, <2>2 DEF Cut, Cuts
  <2> QED BY <1>3, <2>3
<1> QED BY <1>1, <1>2, <1>3, <1>4, <1>5, LoopSteps DEF Next

LEMMA NextChannel ==
  Inv /\ [Next]_vars => channel' \in Seq(Conn) /\ Len(channel') <= ChannelCap
<1> SUFFICES ASSUME Inv, [Next]_vars
             PROVE  channel' \in Seq(Conn) /\ Len(channel') <= ChannelCap
  OBVIOUS
<1>1. /\ PlainTypes /\ channel \in Seq(Conn) /\ Len(channel) <= ChannelCap
      /\ IsInjective(channel) /\ Len(channel) \in Nat
  BY LenProperties DEF Inv, TypeOK, PlainTypes, Placed
<1>2. ASSUME NEW c \in Conn, Send(c)
      PROVE  channel' \in Seq(Conn) /\ Len(channel') <= ChannelCap
  BY <1>1, <1>2, AppendOnce, NetworkAssumption DEF Send
<1>3. CASE Enqueue
  <2>1. channel' \in Seq(Conn) /\ Len(channel') <= Len(channel)
    BY <1>1, <1>3, TailOnce DEF Enqueue
  <2>2. Len(channel') \in Nat
    BY <2>1, LenProperties
  <2> QED BY <1>1, <2>1, <2>2, NetworkAssumption
<1>4. ASSUME NEW c \in Conn, Task(c)
      PROVE  channel' \in Seq(Conn) /\ Len(channel') <= ChannelCap
  BY <1>1, <1>2, <1>4, TaskSteps DEF TaskStep, Open, Goto
<1>5. CASE EventLoop
  BY <1>1, <1>3, <1>5, LoopSteps DEF Answers
<1> QED BY <1>1, <1>4, <1>5 DEF Next, Cut, vars

-----------------------------------------------------------------------------
(* The theorems *)

LEMMA InitInv == Init => Inv
<1> SUFFICES ASSUME Init
             PROVE  Inv
  OBVIOUS
<1>1. IsFiniteSet({}) /\ Cardinality({}) = 0
  BY FS_EmptySet
<1>2. RowsInv
  <2>1. rows = {} /\ \A w \in Range(Workspace) : RowsOf(w) = {}
    BY DEF Init, RowsOf
  <2> QED BY <1>1, <2>1, NetworkAssumption DEF RowsInv, QuotaHolds
<1>3. Range(channel) = {} /\ IsInjective(channel)
  BY DEF Init, Range, IsInjective
<1>4. PlainTypes /\ channel \in Seq(Conn) /\ Len(channel) <= ChannelCap
  BY NetworkAssumption DEF Init, PlainTypes, Stage
<1>5. Placed /\ Granted /\ CutShort
  BY <1>3 DEF Init, Placed, InChannel, InSome, Waits, Granted, Passed, CutShort
<1> QED BY <1>2, <1>4, <1>5 DEF Inv, TypeOK, RowsInv, PlainTypes

LEMMA NextInv == Inv /\ [Next]_vars => Inv'
<1> SUFFICES ASSUME Inv, [Next]_vars
             PROVE  Inv'
  OBVIOUS
<1>1. PlainTypes' /\ RowsInv' /\ Placed' /\ Granted' /\ CutShort'
  BY NextTypes, NextRows, NextPlaced, NextGranted, NextCut
<1>2. channel' \in Seq(Conn) /\ Len(channel') <= ChannelCap
  BY NextChannel
<1> QED BY <1>1, <1>2 DEF Inv, TypeOK, PlainTypes, RowsInv

LEMMA Inductive == Spec => []Inv
BY InitInv, NextInv, PTL DEF Spec

\* Every variable keeps its type, and the channel and the rows keep within their
\* room: a workspace never has more prompts than its share, however requests are
\* folded, answered, cut and given up.
THEOREM TypeCorrect == Spec => []TypeOK
<1>1. Inv => TypeOK
  BY DEF Inv
<1> QED BY <1>1, Inductive, PTL

\* Nothing is forwarded that neither the rules nor the user, asked for this
\* destination and this session while the request waited, let pass.
THEOREM NothingSlipsThrough == Spec => []AllowedAsShown
<1>1. Inv => AllowedAsShown
  BY DEF Inv, Granted, AllowedAsShown, Passed
<1> QED BY <1>1, Inductive, PTL

\* A request that waits is in the channel or in a row, and in one of them once.
THEOREM WaitersAreKept == Spec => []NoWaiterIsLost
<1>1. Inv => NoWaiterIsLost
  <2> SUFFICES ASSUME Inv, NEW c \in Conn, Waits(c)
               PROVE  \/ c \in Range(channel) /\ ~\E row \in rows : c \in In(row)
                      \/ /\ c \notin Range(channel)
                         /\ Cardinality({row \in rows : c \in In(row)}) = 1
    BY DEF NoWaiterIsLost, Waits
  <2>1. CASE InChannel(c)
    BY <2>1 DEF Inv, Placed, InChannel, InSome
  <2>2. ASSUME NEW row \in rows, c \in In(row)
        PROVE  c \notin Range(channel) /\ {r \in rows : c \in In(r)} = {row}
    BY <2>2 DEF Inv, Placed, InChannel, InSome
  <2>3. \A row : Cardinality({row}) = 1
    BY FS_Singleton
  <2> QED BY <2>1, <2>2, <2>3 DEF Inv, Placed, InSome
<1> QED BY <1>1, Inductive, PTL

\* A plain request that was cut while it asked is never forwarded, whatever is
\* answered to it or to an equal one, and however late its task sees the flag.
THEOREM CutsAreFinal == Spec => []CutAskersAreNotForwarded
<1>1. Inv => CutAskersAreNotForwarded
  BY DEF Inv, CutShort, CutAskersAreNotForwarded, Asking
<1> QED BY <1>1, Inductive, PTL

=============================================================================
