--------------------------- MODULE NetworkApproval ---------------------------
(***************************************************************************)
(* Network requests of the sessions' proxies that the policy prompts for:  *)
(* a connection task sends its request over a channel to the event loop    *)
(* and waits up to five minutes; the event loop folds it into the row of   *)
(* an equal request or gives it a row of its own, within a quota; a row is *)
(* answered by the user, by a cut of its connection, or by the close of a  *)
(* session.  A cut comes from a handler at any time, also between two      *)
(* steps of the event loop.                                                *)
(*                                                                         *)
(* A connection carries one request.  What is asked of a host is left out: *)
(* a destination is a host and a port.                                     *)
(***************************************************************************)
EXTENDS Naturals, Sequences, FiniteSets, Functions

CONSTANTS
  Conn,         \* connections; a client that tries again opens a new one
  Session,      \* sessions, each with a proxy listener of its own
  Owner,        \* the session of a connection
  Dest,         \* the host and port a connection asks for
  Tunnel,       \* connections that ask for a tunnel (CONNECT)
  Template,     \* the template a session was launched from
  Workspace,    \* the workspace of a session
  Policies,     \* what the rules may say
  PerListener,  \* connections of one listener
  ChannelCap,   \* room in the channel to the event loop
  PerSource,    \* rows of one workspace
  Total         \* rows

ASSUME NetworkAssumption ==
  /\ Owner \in [Conn -> Session]
  /\ DOMAIN Dest = Conn /\ Tunnel \subseteq Conn
  /\ DOMAIN Template = Session /\ DOMAIN Workspace = Session
  /\ Policies \subseteq {"auto", "deny", "prompt"}
  /\ PerListener \in Nat /\ ChannelCap \in Nat
  /\ PerSource \in Nat /\ Total \in Nat

VARIABLES
  pc,       \* where the task of a connection is
  flag,     \* its cancel flag
  reply,    \* what the event loop answered
  live,     \* sessions that have not been closed
  channel,  \* requests on their way to the event loop
  rows,     \* prompts: the request shown and those folded into it
  turn,     \* what the event loop is at
  granted,  \* whom the rules, or the user while it waited, let pass (history)
  early     \* plain requests that were cut while they asked (history)

vars == <<pc, flag, reply, live, channel, rows, turn, granted, early>>
history == <<granted, early>>

Stage == {"new", "open", "sending", "waiting", "connecting", "forwarding", "over"}
Asking == {"open", "sending", "waiting"}
Tasks == {c \in Conn : pc[c] \notin {"new", "over"}}

\* What a prompt is for: requests with the same key share a row.
Key(c) == <<Owner[c], Dest[c]>>
In(row) == {row.shown} \cup row.folded
Rows == [shown : Conn, folded : SUBSET Conn]

Init ==
  /\ pc = [c \in Conn |-> "new"]
  /\ flag = [c \in Conn |-> FALSE]
  /\ reply = [c \in Conn |-> "none"]
  /\ live = Session
  /\ channel = <<>> /\ rows = {}
  /\ turn = "prune"
  /\ granted = {} /\ early = {}

-----------------------------------------------------------------------------
(* The task of a connection *)

\* The listener of a session accepts a connection and tracks it.
Open(c) ==
  /\ pc[c] = "new"
  /\ Owner[c] \in live
  /\ Cardinality({d \in Tasks : Owner[d] = Owner[c]}) < PerListener
  /\ pc' = [pc EXCEPT ![c] = "open"]
  /\ UNCHANGED <<flag, reply, live, channel, rows, turn, history>>

Goto(c, stage) ==
  /\ pc' = [pc EXCEPT ![c] = stage]
  /\ UNCHANGED <<flag, reply, live, channel, rows, turn>>

\* Mutant: a plain request is not looked at again either.
ProceedBlindly(c) == Goto(c, "connecting")

\* A plain request is looked at once more when it may go on, a tunnel not; then
\* the name is resolved and the other side connected to.
Proceed(c) == Goto(c, IF flag[c] /\ c \notin Tunnel THEN "over" ELSE "connecting")

\* The rules let it pass, refuse it, or have it ask.
Policy(c, p) ==
  /\ pc[c] = "open"
  /\ CASE p = "auto" -> Proceed(c)
       [] p = "deny" -> Goto(c, "over")
       [] p = "prompt" -> Goto(c, "sending")
  /\ granted' = IF p = "auto" THEN granted \cup {c} ELSE granted
  /\ UNCHANGED early

\* It waits for room in the channel.
Send(c) ==
  /\ pc[c] = "sending"
  /\ Len(channel) < ChannelCap
  /\ channel' = Append(channel, c)
  /\ pc' = [pc EXCEPT ![c] = "waiting"]
  /\ UNCHANGED <<flag, reply, live, rows, turn, history>>

Leave(c, stage) == Goto(c, stage) /\ UNCHANGED history

\* Mutant: the limit is that of the prompt, so a folded request has none.
ExpireShown(c) ==
  /\ pc[c] = "waiting" /\ reply[c] = "none"
  /\ \E row \in rows : row.shown = c
  /\ Leave(c, "over")

\* The answer, or five minutes without one.
TakeAllow(c) ==
  pc[c] = "waiting" /\ reply[c] = "allow" /\ Proceed(c) /\ UNCHANGED history
TakeDeny(c) == pc[c] = "waiting" /\ reply[c] = "deny" /\ Leave(c, "over")
Expire(c) == pc[c] = "waiting" /\ reply[c] = "none" /\ Leave(c, "over")

\* The request leaves, or the tunnel stands; nobody looks at the flag any more.
Forward(c) == pc[c] = "connecting" /\ Leave(c, "forwarding")

\* The connection fails, or what it forwards ends.
Finish(c) == pc[c] \in {"connecting", "forwarding"} /\ Leave(c, "over")

\* The flag is seen, or the listener of the session is gone: the task is
\* dropped where it waits.
Cancelled(c) == c \in Tasks /\ flag[c] /\ Leave(c, "over")
Abort(c) == c \in Tasks /\ Owner[c] \notin live /\ Leave(c, "over")

\* Those a cut reaches while they still ask.
Cuttable(S) == {c \in S \ Tunnel : pc[c] \in Asking}

\* A cut of the connections a session has open, asked for by the session, by a
\* client, or in the interface.
Cut(s) ==
  /\ s \in live
  /\ flag' = [c \in Conn |-> flag[c] \/ (c \in Tasks /\ Owner[c] = s)]
  /\ early' = early \cup Cuttable({c \in Conn : Owner[c] = s})
  /\ UNCHANGED <<pc, reply, live, channel, rows, turn, granted>>

-----------------------------------------------------------------------------
(* The event loop *)

\* Mutant: only the request a row shows is answered.
AnswerShown(gone, decision) ==
  /\ rows' = rows \ gone
  /\ reply' = [c \in Conn |->
                 IF pc[c] = "waiting" /\ \E row \in gone : row.shown = c
                   THEN decision ELSE reply[c]]

\* The requests of some rows are answered; nobody may wait for an answer.
Answer(gone, decision) ==
  /\ rows' = rows \ gone
  /\ reply' = [c \in Conn |->
                 IF pc[c] = "waiting" /\ \E row \in gone : c \in In(row)
                   THEN decision ELSE reply[c]]

\* First, rows whose connection was cut are denied.
Prune ==
  /\ turn = "prune"
  /\ turn' = "enqueue"
  /\ Answer({row \in rows : flag[row.shown]}, "deny")
  /\ UNCHANGED <<pc, flag, live, channel, history>>

\* Mutant: equal destinations are folded whoever asks.
SameDest(row, c) == Dest[row.shown] = Dest[c]

Same(row, c) == Key(row.shown) = Key(c)
RowsOf(w) == {row \in rows : Workspace[Owner[row.shown]] = w}

\* Mutant: one row too many of a workspace.
HasRoomForOne(c) ==
  /\ Cardinality(RowsOf(Workspace[Owner[c]])) <= PerSource
  /\ Cardinality(rows) < Total

HasRoom(c) == /\ Cardinality(RowsOf(Workspace[Owner[c]])) < PerSource
              /\ Cardinality(rows) < Total

\* Then requests are taken: folded, given a row, or denied for lack of room.
Enqueue ==
  LET c == Head(channel) IN
  /\ turn = "enqueue"
  /\ channel # <<>>
  /\ channel' = Tail(channel)
  /\ \/ \E row \in rows :
          /\ Same(row, c)
          /\ rows' = (rows \ {row}) \cup {[row EXCEPT !.folded = @ \cup {c}]}
          /\ UNCHANGED reply
     \/ /\ ~\E row \in rows : Same(row, c)
        /\ HasRoom(c)
        /\ rows' = rows \cup {[shown |-> c, folded |-> {}]}
        /\ UNCHANGED reply
     \/ /\ ~\E row \in rows : Same(row, c)
        /\ ~HasRoom(c)
        /\ reply' = [reply EXCEPT ![c] = IF pc[c] = "waiting" THEN "deny" ELSE @]
        /\ UNCHANGED rows
  /\ UNCHANGED <<pc, flag, live, turn, history>>

\* It takes so many in a turn, goes on to the user's decisions, and begins anew.
NextTurn ==
  /\ turn # "prune"
  /\ turn' = IF turn = "enqueue" THEN "decide" ELSE "prune"
  /\ UNCHANGED <<pc, flag, reply, live, channel, rows, history>>

\* The user allows or denies what a row shows; allowing turns into a denial
\* while the rules file is not trusted.
Decide(row, decision) ==
  /\ turn = "decide"
  /\ Answer({row}, decision)
  /\ granted' = granted \cup
       {c \in Conn : decision = "allow" /\ pc[c] = "waiting" /\ Key(c) = Key(row.shown)}
  /\ UNCHANGED <<pc, flag, live, channel, turn, early>>

\* Ctrl+C on a request in the interface, also on one that is over.
CancelRequest(c) ==
  /\ turn = "decide"
  /\ pc[c] # "new"
  /\ flag' = [flag EXCEPT ![c] = TRUE]
  /\ early' = early \cup Cuttable({c})
  /\ UNCHANGED <<pc, reply, live, channel, rows, turn, granted>>

\* A session closes: rows are its own by their session or by their container,
\* and the container a request names is the template of its session.
MatchesSession(row, s) == Template[Owner[row.shown]] = Template[s]
CloseSession(s) ==
  /\ turn = "decide"
  /\ s \in live
  /\ live' = live \ {s}
  /\ Answer({row \in rows : MatchesSession(row, s)}, "deny")
  /\ UNCHANGED <<pc, flag, channel, turn, history>>

\* A workspace is removed: its sessions close, and its rows are dropped, which
\* who waits takes for a denial.  Rows are left if the configuration cannot be
\* changed.
RemoveWorkspace(w) ==
  LET its == {s \in live : Workspace[s] = w} IN
  /\ turn = "decide"
  /\ live' = live \ its
  /\ \E dropped \in {RowsOf(w), {}} :
       Answer(dropped \cup
                {row \in rows : \E s \in its : MatchesSession(row, s)}, "deny")
  /\ UNCHANGED <<pc, flag, channel, turn, history>>

-----------------------------------------------------------------------------
Task(c) ==
  \/ Open(c)
  \/ \E p \in Policies : Policy(c, p)
  \/ Send(c) \/ TakeAllow(c) \/ TakeDeny(c) \/ Expire(c)
  \/ Forward(c) \/ Finish(c) \/ Cancelled(c) \/ Abort(c)
EventLoop ==
  \/ Prune \/ Enqueue \/ NextTurn
  \/ \E row \in rows, decision \in {"allow", "deny"} : Decide(row, decision)
  \/ \E c \in Conn : CancelRequest(c)
  \/ \E s \in Session : CloseSession(s)
  \/ \E w \in Range(Workspace) : RemoveWorkspace(w)

Next ==
  \/ \E c \in Conn : Task(c)
  \/ \E s \in Session : Cut(s)
  \/ EventLoop

Spec == Init /\ [][Next]_vars

(***************************************************************************)
(* Tasks run on, see their flag and their timer; the event loop turns and  *)
(* takes what is in the channel, which serves senders in turn (a step that *)
(* others interrupt again and again, hence strong fairness).  Nothing is   *)
(* assumed of the user, and nothing of what is forwarded.                  *)
(***************************************************************************)
Fairness ==
  /\ WF_vars(Prune \/ NextTurn) /\ SF_vars(Enqueue)
  /\ \A c \in Conn :
       /\ SF_vars(Send(c))
       /\ WF_vars(\/ \E p \in Policies : Policy(c, p)
                  \/ TakeAllow(c) \/ TakeDeny(c) \/ Expire(c)
                  \/ Cancelled(c) \/ Abort(c))

FairSpec == Spec /\ Fairness

-----------------------------------------------------------------------------
(* Properties *)

\* Rows are bounded, for each workspace and altogether, whatever is folded,
\* closed or left behind by requests that are over.
QuotaHolds ==
  /\ Cardinality(rows) <= Total
  /\ \A w \in Range(Workspace) : Cardinality(RowsOf(w)) <= PerSource

\* Every variable has its type, and channel and rows keep within their room.
TypeOK ==
  /\ pc \in [Conn -> Stage]
  /\ flag \in [Conn -> BOOLEAN]
  /\ reply \in [Conn -> {"none", "allow", "deny"}]
  /\ live \subseteq Session
  /\ channel \in Seq(Conn) /\ Len(channel) <= ChannelCap
  /\ rows \subseteq Rows
  /\ turn \in {"prune", "enqueue", "decide"}
  /\ granted \subseteq Conn /\ early \subseteq Conn \ Tunnel
  /\ QuotaHolds

\* A connection goes on only if the rules let it pass or the user, while it was
\* waiting, allowed its very destination for its very session: folding, rows of
\* requests that are over, cuts and closing sessions never let one pass under
\* the answer to another or to an earlier prompt.
AllowedAsShown ==
  \A c \in Conn : pc[c] \in {"connecting", "forwarding"} => c \in granted

\* A task that waits without an answer is in the channel or in a row, and in
\* one of them once: no removal of rows drops it silently, so that only an
\* answer, its timer, or its own end frees it.
NoWaiterIsLost ==
  \A c \in Conn :
    pc[c] = "waiting" /\ reply[c] = "none" =>
      \/ c \in Range(channel) /\ ~\E row \in rows : c \in In(row)
      \/ c \notin Range(channel) /\ Cardinality({row \in rows : c \in In(row)}) = 1

\* A plain request that was cut while it asked is never forwarded, though the
\* user allows it in the same moment, an equal one is allowed for both, and its
\* task sees the flag late: whoever is let pass is looked at once more
\* (handle_plain_http, forward_request_with_activity).  One cut after that look may
\* still leave.
CutAskersAreNotForwarded ==
  \A c \in early : pc[c] \notin {"connecting", "forwarding"}

\* Whoever asks gets on or gives up, though the user never answers and other
\* connections keep the channel and the rows full; and whoever was cut is over,
\* whatever it waited for.
AskersComeToRest ==
  <>[](\A c \in Conn : pc[c] \notin Asking /\ (flag[c] => pc[c] = "over"))

-----------------------------------------------------------------------------
(* What a document says of the code, and the code does not keep *)

\* "Closing or stopping a subagent now denies and removes its pending network
\* approval requests" (CHANGELOG.md): closing a session leaves the requests of
\* the sessions that stay open as they are.
CloseSparesOthers ==
  [][\A c \in Conn :
       live' # live /\ Owner[c] \in live' => reply'[c] = reply[c]]_vars

=============================================================================
