--------------------------- MODULE InterfaceProofs ---------------------------
(***************************************************************************)
(* Theorems about the two interfaces, for any terminals, screens,          *)
(* pictures, configurations and bounds.                                    *)
(*                                                                         *)
(* The attached one (module AttachedTui): no poll sleeps over news, keys   *)
(* come in order and at most once more per late answer, what a terminal    *)
(* shows adds up, and the feed keeps the promise of EventLog.              *)
(*                                                                         *)
(* The manager's own (module Interface): every session has one group and   *)
(* every pointer names a session, pointers follow the lists, a key acts    *)
(* on what the last frame shows, and the cursor keeps its item.            *)
(***************************************************************************)
EXTENDS AttachedTui, Interface, TLAPS, Facts

-----------------------------------------------------------------------------
(* THE ATTACHED INTERFACE *)

Ask == [key : 0 .. MaxKeys, full : BOOLEAN, size : Size, resized : BOOLEAN]
Item == [client : Client, heard : BOOLEAN, ask : Ask]
Asking == {"send", "wait", "retry"}

(***************************************************************************)
(* The inductive invariant, in four parts: types, the feed, the keys and   *)
(* the screens.  The feed part is about a daemon that does not restart.    *)
(***************************************************************************)
PollType(c) ==
  \/ poll[c] \in [at : {"ask"}]
  \/ poll[c] \in [at : {"read", "await", "parked"}, woken : BOOLEAN]
  \/ poll[c] \in [at : {"answered"}, latest : 0 .. MaxEvents, news : BOOLEAN, upTo : Nat]

RelayType(c) ==
  /\ relay[c].at \in {"loop", "gone", "answered"} \cup Asking
  /\ relay[c].at \in Asking => relay[c] \in [at : Asking, ask : Ask]
  /\ relay[c].at = "answered" =>
       /\ relay[c].ask \in Ask
       /\ relay[c].forced \in BOOLEAN /\ relay[c].exact \in BOOLEAN
       /\ relay[c].buffer \in Buffer /\ relay[c].upTo \in Nat
       /\ DOMAIN relay[c].frame \subseteq Cell
       /\ \A x \in DOMAIN relay[c].frame : relay[c].frame[x] \in Colour

Types ==
  /\ display \in Picture /\ last \in Buffer \cup {NoBuffer}
  /\ queue \in Seq(Item) /\ Len(queue) <= QueueLimit
  /\ sequence \in 0 .. MaxEvents /\ after \in [Client -> 0 .. MaxEvents]
  /\ signal \in [Client -> BOOLEAN] /\ typed \in [Client -> 0 .. MaxKeys]
  /\ size \in [Client -> Size] /\ lastSize \in [Client -> Size \cup {None}]
  /\ needs \in [Client -> [render : BOOLEAN, full : BOOLEAN]]
  /\ screen \in [Client -> [Cell -> Colour \cup {Unknown}]]
  /\ poll = [c \in Client |-> poll[c]] /\ relay = [c \in Client |-> relay[c]]
  /\ lastFrame = [c \in Client |-> lastFrame[c]]
  /\ \A c \in Client : PollType(c) /\ RelayType(c) /\ DOMAIN lastFrame[c] \subseteq Cell
  /\ history \in History
  /\ sequence <= history.total /\ history.total <= MaxEvents

\* A position counts the events heard of, and a poll that waits has missed none.
FeedInv(c) ==
  /\ after[c] = history.seen[c] /\ after[c] <= sequence
  /\ poll[c].at \in {"await", "parked"} /\ ~poll[c].woken => after[c] = sequence
  /\ poll[c].at = "answered" =>
       /\ after[c] <= poll[c].latest /\ poll[c].latest <= sequence
       /\ poll[c].upTo = poll[c].latest
       /\ poll[c].news = (poll[c].latest > after[c])
  /\ history.shown[c] <= history.total
  /\ relay[c].at = "answered" =>
       /\ history.shown[c] <= relay[c].upTo /\ relay[c].upTo <= history.total
       /\ ~signal[c] => history.seen[c] <= relay[c].upTo

Feed == sequence = history.total /\ \A c \in Client : FeedInv(c)

\* The requests of a terminal that wait, the one it waits for being the last.
Of(c) == {i \in DOMAIN queue : queue[i].client = c}
QueueInv(c) ==
  /\ relay[c].at \in {"loop", "answered"} => Of(c) = {}
  /\ \A i \in Of(c) :
       /\ relay[c].at # "gone" => queue[i].ask.key = relay[c].ask.key
       /\ queue[i].heard => relay[c].at = "wait" /\ queue[i].ask = relay[c].ask
       /\ \A j \in Of(c) :
            /\ queue[i].ask.key = queue[j].ask.key
            /\ queue[i].heard => j <= i

\* How many keys were applied and the last of them, the requests that bring a key, and whether another
\* will be sent.
Applied(c) == Len(history.applied[c])
Latest(c) == LET keys == history.applied[c] IN IF keys = <<>> THEN 0 ELSE keys[Len(keys)]
Bringing(c) == {i \in Of(c) : queue[i].ask.key # None}
Again(c) == IF relay[c].at \in {"send", "retry"} /\ relay[c].ask.key # None THEN 1 ELSE 0
Coming(c) == Cardinality(Bringing(c)) + Again(c)

InOrder(keys) ==
  \A i \in DOMAIN keys : keys[i] - (IF i = 1 THEN 0 ELSE keys[i - 1]) \in {0, 1}

KeyInv(c) ==
  /\ InOrder(history.applied[c])
  /\ relay[c].at \in {"loop", "answered"} => typed[c] = Latest(c)
  /\ relay[c].at = "answered" => relay[c].ask.key \in {None, typed[c]}
  /\ relay[c].at \in Asking =>
       IF relay[c].ask.key = None THEN typed[c] = Latest(c)
       ELSE typed[c] = relay[c].ask.key /\ Latest(c) \in {typed[c] - 1, typed[c]}
  /\ \A i \in Bringing(c) : Latest(c) \in {queue[i].ask.key - 1, queue[i].ask.key}
  /\ Applied(c) <= Latest(c) + history.late
  /\ \A i \in Bringing(c) : Applied(c) + Coming(c) <= queue[i].ask.key + history.late
  /\ Again(c) = 1 => Applied(c) + Coming(c) <= relay[c].ask.key + history.late

Keys == \A c \in Client : QueueInv(c) /\ KeyInv(c)

\* A terminal that has missed nothing shows what it was sent last, and the buffer
\* drawn last if that was drawn for it; and an answer brings it the next one.
ScreenInv(c) ==
  /\ relay[c].at \in Asking \cup {"answered"} /\ relay[c].ask.resized => relay[c].ask.full
  /\ history.synced[c] =>
       /\ \A x \in DOMAIN lastFrame[c] : screen[c][x] = lastFrame[c][x]
       /\ history.drawnFor = c /\ relay[c].at # "answered" => screen[c] = last.cells
  /\ relay[c].at = "answered" =>
       LET r == relay[c] IN
       /\ history.drawnFor = c => last = r.buffer
       /\ r.ask.full => r.forced
       /\ r.forced => r.frame = r.buffer.cells
       /\ r.exact /\ history.synced[c] =>
            \/ r.frame = r.buffer.cells
            \/ /\ \A x \in DOMAIN r.frame :
                     r.frame[x] = r.buffer.cells[x] /\ r.frame[x] # screen[c][x]
               /\ \A x \in Cell \ DOMAIN r.frame : screen[c][x] = r.buffer.cells[x]

Screens == \A c \in Client : ScreenInv(c)

StaysInv == Types /\ Keys /\ Screens
Inv == Types /\ Feed /\ Keys /\ Screens

-----------------------------------------------------------------------------
(* Types *)

\* What the parts of a turn of the terminal do to its type.
LEMMA StartTypes == Init => Types
<1> SUFFICES ASSUME Init PROVE Types
  OBVIOUS
<1>1. (CHOOSE p \in Picture : TRUE) \in Picture /\ (CHOOSE s \in Size : TRUE) \in Size
  BY AttachedAssumption
<1>2. history \in History
  BY EmptySeq DEF Init, History
<1>3. \A c \in Client : PollType(c) /\ RelayType(c) /\ DOMAIN lastFrame[c] \subseteq Cell
  BY DEF Init, PollType, RelayType, Asking
<1>4. display \in Picture /\ queue \in Seq(Item) /\ Len(queue) <= QueueLimit
  BY <1>1, AttachedAssumption, EmptySeq DEF Init
<1>5. /\ MaxEvents \in Nat /\ MaxKeys \in Nat
      /\ screen \in [Client -> [Cell -> Colour \cup {Unknown}]]
      /\ DOMAIN lastFrame = Client
  BY AttachedAssumption DEF Init, Blank
<1>6. history.total = 0 /\ sequence = 0
  BY DEF Init
<1>7. /\ lastFrame = [c \in Client |-> lastFrame[c]]
      /\ poll = [c \in Client |-> poll[c]] /\ relay = [c \in Client |-> relay[c]]
  BY DEF Init
<1>8. /\ size \in [Client -> Size] /\ lastSize \in [Client -> Size \cup {None}]
      /\ last \in Buffer \cup {NoBuffer}
      /\ needs \in [Client -> [render : BOOLEAN, full : BOOLEAN]]
      /\ signal \in [Client -> BOOLEAN]
  BY <1>1 DEF Init
<1>9. after \in [Client -> 0 .. MaxEvents] /\ typed \in [Client -> 0 .. MaxKeys]
  BY <1>5 DEF Init
<1> QED
  BY <1>2, <1>3, <1>4, <1>5, <1>6, <1>7, <1>8, <1>9 DEF Types

\* Steps that change the poll of a terminal only.
Polling(c) ==
  Register(c) \/ ReadNews(c) \/ ReadNothing(c) \/ Park(c) \/ Wake(c) \/ Deadline(c) \/ PollTimesOut(c)

LEMMA PollingTypes ==
  ASSUME Types, NEW c \in Client, Polling(c)
  PROVE  Types'
<1>1. UNCHANGED <<display, last, queue, sequence, after, signal, relayVars, history>>
  BY DEF Polling, Register, ReadNews, ReadNothing, Park, Wake, Deadline, PollTimesOut, Answer
<1>2. history.total \in Nat
  BY DEF Types, History
<1>3. poll' = [d \in Client |-> poll'[d]] /\ \A d \in Client \ {c} : poll'[d] = poll[d]
  BY DEF Types, Polling, Register, ReadNews, ReadNothing, Park, Wake, Deadline, PollTimesOut, Answer
<1>4. PollType(c)'
  <2>1. CASE Register(c) \/ Wake(c) \/ PollTimesOut(c)
    <3>1. poll'[c] = [at |-> "read", woken |-> FALSE] \/ poll'[c] = [at |-> "ask"]
      BY <2>1 DEF Types, Register, Wake, PollTimesOut
    <3>2. /\ [at |-> "read", woken |-> FALSE] \in [at : {"read", "await", "parked"}, woken : BOOLEAN]
          /\ [at |-> "ask"] \in [at : {"ask"}]
      OBVIOUS
    <3> QED BY <3>1, <3>2 DEF PollType
  <2>2. CASE ReadNothing(c) \/ Park(c)
    <3>1. PICK at \in {"await", "parked"} :
            poll'[c] = [poll[c] EXCEPT !.at = at] /\ poll[c].at \in {"read", "await"}
      BY <2>2 DEF Types, ReadNothing, Park
    <3> QED BY <3>1 DEF Types, PollType
  <2>3. CASE ReadNews(c) \/ Deadline(c)
    <3>1. Answer(c) /\ News(c) \in BOOLEAN
      BY <2>3 DEF ReadNews, Deadline, News, Reset
    <3> QED BY <1>2, <3>1 DEF Types, PollType, Answer
  <2> QED BY <2>1, <2>2, <2>3 DEF Polling
<1>5. \A d \in Client : PollType(d)'
  BY <1>3, <1>4 DEF Types, PollType
<1> QED
  BY <1>1, <1>3, <1>5 DEF Types, relayVars, RelayType

LEMMA HearTypes ==
  ASSUME Types, NEW c \in Client, Hear(c)
  PROVE  Types'
<1>1. history' \in History /\ history'.total = history.total
  BY DEF Types, PollType, Hear, History
<1>2. poll' = [d \in Client |-> poll'[d]] /\ \A d \in Client : PollType(d)'
  BY DEF Types, PollType, Hear
<1>3. after' \in [Client -> 0 .. MaxEvents] /\ signal' \in [Client -> BOOLEAN]
  BY DEF Types, PollType, Hear
<1> QED
  BY <1>1, <1>2, <1>3 DEF Types, Hear, relayVars, RelayType

LEMMA TickTypes ==
  ASSUME Types, Tick
  PROVE  Types'
<1>1. history' \in History /\ history'.total = history.total + 1 /\ history.total \in Nat
  <2>1. /\ history' = [history EXCEPT !.total = history.total + 1]
        /\ history \in History /\ history.total + 1 \in Nat
    BY SMTT(60) DEF Types, Tick, Publish, History
  <2> QED BY <2>1 DEF History
<1>2. poll' = [d \in Client |-> poll'[d]] /\ \A d \in Client : PollType(d)'
  BY ZenonT(60) DEF Types, PollType, Tick, Publish, Registered
<1>3. sequence' \in 0 .. MaxEvents /\ history'.total <= MaxEvents /\ sequence' <= history'.total
  BY SMTT(60), <1>1, AttachedAssumption DEF Types, Tick, Publish
<1> QED
  BY <1>1, <1>2, <1>3 DEF Types, Tick, Publish, relayVars, RelayType

\* A turn with a key, or with none.
TurnWith(c, key) ==
  LET resized == lastSize[c] # size[c] IN
  /\ typed' = [typed EXCEPT ![c] = IF key = None THEN @ ELSE key]
  /\ needs' = [needs EXCEPT ![c] = [render |-> @.render \/ signal[c],
                                    full |-> @.full \/ resized]]
  /\ relay' = [relay EXCEPT ![c] =
       [at |-> "send", ask |-> [key |-> key, full |-> needs'[c].full,
                                size |-> size[c], resized |-> resized]]]

LEMMA TurnParts ==
  ASSUME NEW c \in Client, Turn(c)
  PROVE  \E key \in {None} \cup ({typed[c] + 1} \cap 1 .. MaxKeys) : TurnWith(c, key)
  BY DEF Turn, TurnWith

LEMMA TurnTypes ==
  ASSUME Types, NEW c \in Client, Turn(c)
  PROVE  Types'
<1>1. PICK key \in {None} \cup ({typed[c] + 1} \cap 1 .. MaxKeys) : TurnWith(c, key)
  BY TurnParts
<1>2. needs' \in [Client -> [render : BOOLEAN, full : BOOLEAN]]
  BY <1>1 DEF Types, TurnWith
<1>3. key \in 0 .. MaxKeys /\ typed' \in [Client -> 0 .. MaxKeys]
  BY <1>1, AttachedAssumption DEF Types, None, TurnWith
<1>4. relay'[c] \in [at : Asking, ask : Ask]
  BY <1>1, <1>2, <1>3 DEF Types, Ask, Asking, TurnWith
<1>5. relay' = [d \in Client |-> relay'[d]] /\ \A d \in Client : RelayType(d)'
  BY <1>1, <1>4 DEF Types, RelayType, Asking, TurnWith
<1> QED
  BY <1>2, <1>3, <1>5 DEF Types, Turn, PollType

LEMMA LeaveTypes ==
  ASSUME Types, NEW c \in Client, GiveUp(c) \/ Quit(c)
  PROVE  Types'
<1>1. Leave(c) /\ UNCHANGED history
  BY DEF GiveUp, Quit
<1>2. relay' = [d \in Client |-> relay'[d]] /\ \A d \in Client : RelayType(d)'
  BY <1>1 DEF Types, Leave, RelayType, Asking
<1>3. poll' = [d \in Client |-> poll'[d]] /\ \A d \in Client : PollType(d)'
  BY <1>1 DEF Types, Leave, PollType
<1> QED
  BY <1>1, <1>2, <1>3 DEF Types, Leave

LEMMA EnqueueTypes ==
  ASSUME Types, NEW c \in Client, Enqueue(c)
  PROVE  Types'
<1>1. [client |-> c, heard |-> TRUE, ask |-> relay[c].ask] \in Item
  BY DEF Types, Enqueue, RelayType, Item, Asking
<1>2. queue' \in Seq(Item) /\ Len(queue') <= QueueLimit
  BY <1>1, AppendProperties, AttachedAssumption DEF Types, Enqueue
<1>3. relay' = [d \in Client |-> relay'[d]] /\ \A d \in Client : RelayType(d)'
  BY ZenonT(60) DEF Types, Enqueue, Step, RelayType, Asking
<1> QED
  BY <1>2, <1>3 DEF Types, Enqueue, feedVars, RelayRest, PollType

LEMMA StepTypes ==
  ASSUME Types, NEW c \in Client, Busy(c) \/ Retry(c)
  PROVE  Types'
<1>1. PICK at \in Asking : Step(c, at) /\ relay[c].at \in Asking
  BY DEF Busy, Retry, Asking
<1>2. relay' = [d \in Client |-> relay'[d]] /\ \A d \in Client : RelayType(d)'
  BY ZenonT(60), <1>1 DEF Types, Step, RelayType, Asking
<1> QED
  BY <1>2 DEF Types, Busy, Retry, feedVars, RelayRest, PollType

LEMMA TimesOutTypes ==
  ASSUME Types, NEW c \in Client, TimesOut(c)
  PROVE  Types'
<1>1. history' \in History /\ history'.total = history.total
  <2> history \in History /\ history.late + 1 \in Nat /\ history.drawnFor \in Client \cup {None}
    BY SMTT(60) DEF Types, History
  <2>1. PICK n \in Nat, d \in Client \cup {None} :
          history' = [history EXCEPT !.late = n, !.drawnFor = d]
    BY DEF TimesOut
  <2> QED BY <2>1 DEF Types, History
<1>2. relay' = [d \in Client |-> relay'[d]] /\ \A d \in Client : RelayType(d)'
  BY DEF Types, TimesOut, RelayType, Asking
<1>3. queue' \in Seq(Item) /\ Len(queue') = Len(queue)
  <2> DEFINE n == Len(queue)
             Late(q) == IF q.client = c THEN [q EXCEPT !.heard = FALSE] ELSE q
  <2>1. n \in Nat /\ DOMAIN queue = 1 .. n /\ \A i \in 1 .. n : queue[i] \in Item
    BY LenProperties, ElementOfSeq DEF Types
  <2>2. \A q \in Item : Late(q) \in Item
    BY DEF Item
  <2>3. queue' = [i \in 1 .. n |-> Late(queue[i])]
    BY <2>1 DEF TimesOut
  <2> HIDE DEF Late, n
  <2>4. queue' \in [1 .. n -> Item]
    BY <2>1, <2>2, <2>3
  <2>5. queue' \in Seq(Item)
    BY <2>1, <2>3, <2>2, IsASeq
  <2>6. DOMAIN queue' = 1 .. n
    BY <2>3
  <2>7. Len(queue') = n
    BY <2>1, <2>5, <2>6, LenProperties
  <2> QED BY <2>5, <2>7 DEF n
<1> QED
  BY <1>1, <1>2, <1>3 DEF Types, TimesOut, feedVars, RelayRest, PollType

LEMMA ReceiveTypes ==
  ASSUME Types, NEW c \in Client, Receive(c)
  PROVE  Types'
<1>1. history' \in History /\ history'.total = history.total
  BY DEF Types, Receive, RelayType, History
<1>2. relay' = [d \in Client |-> relay'[d]] /\ \A d \in Client : RelayType(d)'
  BY DEF Types, Receive, RelayType, Asking
<1>3. screen' \in [Client -> [Cell -> Colour \cup {Unknown}]]
  BY DEF Types, Receive, RelayType, Drawn, Blank
<1>4. /\ lastFrame' = [d \in Client |-> lastFrame'[d]]
      /\ \A d \in Client : DOMAIN lastFrame'[d] \subseteq Cell
  BY DEF Types, Receive, RelayType
<1> QED
  BY <1>1, <1>2, <1>3, <1>4 DEF Types, Receive, Painted, PollType

LEMMA ResizeTypes ==
  ASSUME Types, NEW c \in Client, Resize(c)
  PROVE  Types'
<1>1. history' \in History /\ history'.total = history.total
  <2> history \in History /\ history.resizes + 1 \in Nat
    BY SMTT(60) DEF Types, History
  <2>1. PICK n \in Nat : history' = [history EXCEPT !.resizes = n, !.synced[c] = FALSE]
    BY DEF Resize
  <2> QED BY <2>1 DEF Types, History
<1>2. screen' \in [Client -> [Cell -> Colour \cup {Unknown}]] /\ size' \in [Client -> Size]
  BY DEF Types, Resize, Blank
<1> QED
  BY <1>1, <1>2 DEF Types, Resize, feedVars, RelayType, PollType

LEMMA RestartTypes ==
  ASSUME Types, Restart
  PROVE  Types'
<1>1. history' \in History /\ history'.total = history.total /\ history.total \in Nat
  <2> history \in History /\ history.restarts + 1 \in Nat /\ history.total \in Nat
    BY DEF Types, History
  <2>1. PICK n \in Nat, f \in [Client -> Nat] :
          history' = [history EXCEPT !.restarts = n, !.drawnFor = None, !.seen = f]
    BY DEF Restart
  <2> QED BY <2>1 DEF Types, History
<1>2. relay' = [d \in Client |-> relay'[d]] /\ \A d \in Client : RelayType(d)'
  BY DEF Types, Restart, RelayType, Asking
<1> QED
  BY <1>1, <1>2, EmptySeq, AttachedAssumption DEF Types, Restart, RelayRest, PollType

(* The request served, what is drawn for it and what is answered. *)
First == Head(queue)
Drawing(d) == [size |-> First.ask.size, cells |-> d]
Full(forced) == First.ask.full \/ forced
Frame(d, forced) == IF Full(forced) THEN d ELSE Delta(last, Drawing(d))
Reply(c, d, forced) ==
  [at |-> "answered", ask |-> relay[c].ask, frame |-> Frame(d, forced), forced |-> Full(forced),
   buffer |-> Drawing(d), upTo |-> history.total, exact |-> history.drawnFor = c]
Served(c, d, forced) ==
  /\ display' = d /\ last' = Drawing(d)
  /\ history' = [history EXCEPT
       !.applied[c] = IF First.ask.key = None THEN @ ELSE Append(@, First.ask.key),
       !.drawnFor = IF First.heard THEN c ELSE None]
  /\ relay' = IF ~First.heard THEN relay ELSE [relay EXCEPT ![c] = Reply(c, d, forced)]
  /\ queue # <<>> /\ queue' = Tail(queue)
  /\ UNCHANGED <<feedVars, size, lastSize, screen, lastFrame, needs, typed>>

LEMMA ServeParts ==
  ASSUME Types, Serve
  PROVE  /\ First \in Item /\ First = queue[1] /\ 1 \in DOMAIN queue
         /\ \E d \in Picture, forced \in BOOLEAN : Served(First.client, d, forced)
<1>1. First \in Item /\ First = queue[1] /\ 1 \in DOMAIN queue
  BY HeadTailProperties, LenProperties, EmptySeq DEF Types, Serve, First
<1>2. \E d \in Picture, forced \in BOOLEAN : Served(First.client, d, forced)
  BY DEF Serve, Served, Reply, Frame, Full, Drawing, First
<1> QED BY <1>1, <1>2

\* A terminal that is answered waits for just this request.
LEMMA ServeWaiting ==
  ASSUME Types, Keys, Serve, First.heard
  PROVE  relay[First.client].at = "wait" /\ relay[First.client].ask = First.ask
  BY ServeParts DEF Keys, QueueInv, Of, Item

LEMMA ServeTypes ==
  ASSUME Types, Keys, Serve
  PROVE  Types'
<1> DEFINE c == First.client
           key == First.ask.key
<1>1. First \in Item /\ c \in Client /\ key \in Nat
  BY ServeParts, AttachedAssumption DEF Item, Ask
<1>2. PICK d \in Picture, forced \in BOOLEAN : Served(c, d, forced)
  BY ServeParts
<1>3. queue' \in Seq(Item) /\ Len(queue') <= QueueLimit
  BY <1>2, HeadTailProperties, LenProperties, AttachedAssumption DEF Types, Served
<1>4. Drawing(d) \in Buffer /\ Full(forced) \in BOOLEAN /\ d \in [Cell -> Colour]
  BY <1>1, AttachedAssumption DEF Drawing, Buffer, Item, Ask, Full, Colour
<1>5. /\ DOMAIN Frame(d, forced) \subseteq Cell
      /\ \A x \in DOMAIN Frame(d, forced) : Frame(d, forced)[x] \in Colour
  <2>1. CASE Frame(d, forced) = d
    BY <1>4, <2>1
  <2>2. CASE Frame(d, forced) # d
    BY <1>4, <2>2 DEF Frame, Delta, Drawing, Restrict
  <2> QED BY <2>1, <2>2
<1> HIDE DEF c, key
<1>6. relay' = [e \in Client |-> relay'[e]] /\ \A e \in Client : RelayType(e)'
  <2>1. CASE ~First.heard
    BY <1>2, <2>1 DEF Types, Served, RelayType
  <2>2. CASE First.heard
    <3>1. relay' = [relay EXCEPT ![c] = Reply(c, d, forced)]
      BY <1>2, <2>2 DEF Served
    <3>2. relay[c].ask \in Ask
      BY <1>1, <2>2, ServeWaiting DEF c, Item
    <3> QED BY <1>1, <1>4, <1>5, <3>1, <3>2 DEF Types, RelayType, Reply, History, Asking
  <2> QED BY <2>1, <2>2
<1>7. history' \in History /\ history'.total = history.total
  <2>1. PICK keys \in Seq(Nat), e \in Client \cup {None} :
          history' = [history EXCEPT !.applied[c] = keys, !.drawnFor = e]
    BY <1>1, <1>2, AppendProperties DEF Types, History, Served, key
  <2> QED BY <1>1, <2>1 DEF Types, History
<1> QED
  BY <1>2, <1>3, <1>4, <1>6, <1>7, AttachedAssumption
  DEF Types, Served, feedVars, PollType

LEMMA TypesStep ==
  ASSUME Types, Keys, [Next \/ Restart]_vars
  PROVE  Types'
<1>1. CASE UNCHANGED vars
  BY <1>1 DEF vars, feedVars, relayVars, Types, PollType, RelayType
<1>2. ASSUME NEW c \in Client, Polling(c) \/ Hear(c) \/ Turn(c) \/ Relay(c) \/ TimesOut(c)
                               \/ GiveUp(c) \/ Quit(c) \/ Resize(c)
      PROVE  Types'
  BY <1>2, PollingTypes, HearTypes, TurnTypes, LeaveTypes, EnqueueTypes, StepTypes,
     TimesOutTypes, ReceiveTypes, ResizeTypes DEF Relay
<1>3. CASE Tick \/ Serve \/ Restart
  BY <1>3, TickTypes, ServeTypes, RestartTypes
<1> QED
  BY <1>1, <1>2, <1>3 DEF Next, Poller, Polling

-----------------------------------------------------------------------------
(* The feed *)

\* There is news, a reset included, just if the position is behind.
LEMMA NewsIsBehind ==
  ASSUME Types, Feed, NEW c \in Client
  PROVE  News(c) <=> after[c] < sequence
<1> DEFINE a == after[c]
           s == sequence
           o == Oldest
<1>1. a \in Nat /\ s \in Nat /\ a <= s /\ Retained \in Nat \ {0}
  BY AttachedAssumption DEF Types, Feed, FeedInv
<1>2. o \in Nat \ {0} /\ (s > 0 => o <= s)
  BY <1>1 DEF Oldest
<1>3. News(c) <=> \/ s > 0 /\ a + 1 < o
                  \/ \E e \in o .. s : e > a
  BY DEF News, Events, Reset
<1> HIDE DEF a, s, o
<1>4. ASSUME a < s PROVE s > 0 /\ s \in o .. s /\ s > a
  BY <1>1, <1>2, <1>4
<1>5. ASSUME NEW e \in o .. s, e > a PROVE a < s
  BY <1>1, <1>2, <1>5
<1>6. ASSUME s > 0, a + 1 < o PROVE a < s
  BY <1>1, <1>2, <1>6
<1> QED
  BY <1>3, <1>4, <1>5, <1>6 DEF a, s

LEMMA FeedTypes ==
  ASSUME Types, NEW c \in Client
  PROVE  /\ sequence \in Nat /\ after[c] \in Nat /\ signal[c] \in BOOLEAN
         /\ history.total \in Nat /\ history.seen[c] \in Nat /\ history.shown[c] \in Nat
         /\ relay[c].at = "answered" => relay[c].upTo \in Nat
         /\ poll[c].at = "answered" =>
              poll[c].latest \in Nat /\ poll[c].upTo \in Nat /\ poll[c].news \in BOOLEAN
         /\ poll[c].at \in {"read", "await", "parked"} => poll[c].woken \in BOOLEAN
<1>1. /\ MaxEvents \in Nat /\ sequence \in Nat /\ after[c] \in Nat /\ signal[c] \in BOOLEAN
      /\ history.total \in Nat /\ history.seen[c] \in Nat /\ history.shown[c] \in Nat
  BY AttachedAssumption DEF Types, History
<1>2. relay[c].at = "answered" => relay[c].upTo \in Nat
  BY DEF Types, RelayType
<1>3. PollType(c)
  BY DEF Types
<1> QED BY <1>1, <1>2, <1>3 DEF PollType

LEMMA PollingFeed ==
  ASSUME Types, Feed, NEW c \in Client, Polling(c)
  PROVE  Feed'
<1>1. UNCHANGED <<sequence, after, signal, relay, history>>
  BY DEF Polling, Register, ReadNews, ReadNothing, Park, Wake, Deadline, PollTimesOut, Answer, relayVars
<1>2. \A d \in Client \ {c} : poll'[d] = poll[d]
  BY DEF Types, Polling, Register, ReadNews, ReadNothing, Park, Wake, Deadline, PollTimesOut, Answer
<1>3. /\ poll'[c].at \in {"await", "parked"} /\ ~poll'[c].woken => after[c] = sequence
      /\ poll'[c].at = "answered" =>
           /\ after[c] <= poll'[c].latest /\ poll'[c].latest <= sequence
           /\ poll'[c].upTo = poll'[c].latest
           /\ poll'[c].news = (poll'[c].latest > after[c])
  <2>1. CASE Register(c) \/ Wake(c) \/ PollTimesOut(c)
    BY <2>1 DEF Types, Register, Wake, PollTimesOut
  <2>2. CASE ReadNothing(c)
    <3>1. after[c] = sequence
      BY <2>2, NewsIsBehind, FeedTypes DEF ReadNothing, Feed, FeedInv
    <3>2. poll'[c].at = "await"
      BY <2>2 DEF Types, PollType, ReadNothing
    <3> QED BY <3>1, <3>2
  <2>3. CASE Park(c)
    <3>1. poll'[c].at = "parked" /\ poll'[c].woken = poll[c].woken /\ poll[c].at = "await"
      BY <2>3 DEF Types, PollType, Park
    <3> QED BY <3>1 DEF Feed, FeedInv
  <2>4. CASE ReadNews(c) \/ Deadline(c)
    <3>1. poll'[c] = [at |-> "answered", latest |-> sequence, news |-> News(c),
                      upTo |-> history.total]
      BY <2>4 DEF ReadNews, Deadline, Answer, Types
    <3>2. News(c) = (sequence > after[c])
      BY NewsIsBehind, FeedTypes DEF News, Reset
    <3> QED BY <3>1, <3>2, FeedTypes DEF Feed, FeedInv
  <2> QED BY <2>1, <2>2, <2>3, <2>4 DEF Polling
<1> QED
  BY <1>1, <1>2, <1>3 DEF Feed, FeedInv

LEMMA HearFeed ==
  ASSUME Types, Feed, NEW c \in Client, Hear(c)
  PROVE  Feed'
<1>1. /\ UNCHANGED <<sequence, relay>> /\ history'.total = history.total
      /\ history'.shown = history.shown
      /\ \A d \in Client \ {c} :
           /\ after'[d] = after[d] /\ poll'[d] = poll[d] /\ signal'[d] = signal[d]
           /\ history'.seen[d] = history.seen[d]
  BY DEF Types, History, Hear, relayVars
<1>2. /\ poll[c].at = "answered" /\ poll'[c].at = "ask"
      /\ after'[c] = poll[c].latest /\ history'.seen[c] = poll[c].upTo
      /\ signal'[c] = (signal[c] \/ poll[c].news)
  BY DEF Types, History, Hear
<1>3. FeedInv(c)'
  BY <1>1, <1>2, FeedTypes DEF Feed, FeedInv
<1> QED
  BY <1>1, <1>3 DEF Feed, FeedInv

LEMMA TickFeed ==
  ASSUME Types, Feed, Tick
  PROVE  Feed'
<1>1. /\ UNCHANGED <<after, signal, relay>>
      /\ sequence' = sequence + 1 /\ history'.total = history.total + 1
      /\ history'.seen = history.seen /\ history'.shown = history.shown
  BY DEF Types, History, Tick, Publish, relayVars
<1>2. ASSUME NEW c \in Client
      PROVE  /\ poll'[c].at \in {"await", "parked"} => poll'[c].woken
             /\ poll'[c].at = poll[c].at
             /\ poll[c].at = "answered" => poll'[c] = poll[c]
  BY DEF Types, PollType, Tick, Publish, Registered
<1>3. ASSUME NEW c \in Client PROVE FeedInv(c)'
  BY <1>1, <1>2, FeedTypes DEF Feed, FeedInv
<1> QED
  BY <1>1, <1>3 DEF Feed

LEMMA TurnFeed ==
  ASSUME Types, Feed, NEW c \in Client, Turn(c)
  PROVE  Feed'
<1>1. /\ UNCHANGED <<sequence, after, poll, history>>
      /\ relay'[c].at = "send"
      /\ \A d \in Client \ {c} : relay'[d] = relay[d] /\ signal'[d] = signal[d]
  BY DEF Types, Turn
<1> QED
  BY <1>1 DEF Feed, FeedInv

LEMMA ReceiveFeed ==
  ASSUME Types, Feed, NEW c \in Client, Receive(c)
  PROVE  Feed'
<1>1. /\ UNCHANGED <<sequence, after, poll, signal>>
      /\ history'.total = history.total /\ history'.seen = history.seen
      /\ \A d \in Client \ {c} :
           relay'[d] = relay[d] /\ history'.shown[d] = history.shown[d]
      /\ relay'[c].at = "loop" /\ relay[c].at = "answered"
      /\ history'.shown[c] = relay[c].upTo
  BY DEF Types, History, Receive, Painted
<1> QED
  BY <1>1 DEF Feed, FeedInv

\* Other steps of the relay answer nothing, and a poll they end is asked again.
LEMMA RelayFeed ==
  ASSUME Types, Feed, NEW c \in Client,
         Enqueue(c) \/ Busy(c) \/ Retry(c) \/ TimesOut(c) \/ GiveUp(c) \/ Quit(c)
  PROVE  Feed'
<1>1. /\ UNCHANGED <<sequence, after, signal>>
      /\ history'.total = history.total /\ history'.seen = history.seen
      /\ history'.shown = history.shown
  BY DEF Types, History, Enqueue, Busy, Retry, TimesOut, GiveUp, Quit, Leave, feedVars
<1>2. /\ \A d \in Client \ {c} : relay'[d] = relay[d] /\ poll'[d] = poll[d]
      /\ relay'[c].at # "answered"
      /\ poll'[c] = poll[c] \/ poll'[c].at = "ask"
  BY DEF Types, RelayType, Asking, Enqueue, Busy, Retry, Step, TimesOut, GiveUp, Quit, Leave, feedVars
<1> QED
  BY <1>1, <1>2 DEF Feed, FeedInv

LEMMA ServeFeed ==
  ASSUME Types, Feed, Keys, Serve
  PROVE  Feed'
<1>1. PICK c \in Client, d \in Picture, forced \in BOOLEAN : Served(c, d, forced)
  BY ServeParts DEF Item
<1>2. /\ UNCHANGED <<sequence, after, poll, signal>>
      /\ history'.total = history.total /\ history'.seen = history.seen
      /\ history'.shown = history.shown
  BY <1>1 DEF Types, History, Served, feedVars
<1>3. /\ \A e \in Client \ {c} : relay'[e] = relay[e]
      /\ relay'[c] = relay[c] \/ relay'[c].upTo = history.total
  BY <1>1 DEF Types, Served, Reply
<1>4. FeedInv(c)'
  BY <1>2, <1>3, FeedTypes DEF Feed, FeedInv
<1> QED
  BY <1>2, <1>3, <1>4 DEF Feed, FeedInv

LEMMA FeedStep ==
  ASSUME Types, Feed, Keys, [Next]_vars
  PROVE  Feed'
<1>1. CASE UNCHANGED vars
  BY <1>1 DEF vars, feedVars, relayVars, Feed, FeedInv
<1>2. ASSUME NEW c \in Client, Resize(c)
      PROVE  Feed'
  <2>1. UNCHANGED <<sequence, after, poll, signal, relay, history.total, history.seen, history.shown>>
    BY <1>2 DEF Types, History, Resize, feedVars
  <2> QED BY <2>1 DEF Feed, FeedInv
<1>3. ASSUME NEW c \in Client, Polling(c) \/ Hear(c) \/ Turn(c) \/ Relay(c) \/ TimesOut(c)
                               \/ GiveUp(c) \/ Quit(c)
      PROVE  Feed'
  BY <1>3, PollingFeed, HearFeed, TurnFeed, ReceiveFeed, RelayFeed DEF Relay
<1> QED
  BY <1>1, <1>2, <1>3, TickFeed, ServeFeed DEF Next, Poller, Polling

-----------------------------------------------------------------------------
(* The promise of EventLog *)

Due == [c \in Client |-> signal[c] \/ needs[c].render]
logVars == <<history.total, history.seen, Due, history.shown>>

LEMMA PublishKept ==
  ASSUME Types, Tick
  PROVE  Log!Publish
<1>1. /\ UNCHANGED <<signal, needs>> /\ history'.total = history.total + 1
      /\ history'.seen = history.seen /\ history'.shown = history.shown
  BY DEF Types, History, Tick, Publish, relayVars
<1> QED BY <1>1 DEF Log!Publish

LEMMA HearKept ==
  ASSUME Types, Feed, NEW c \in Client, Hear(c)
  PROVE  Log!Learn(c) \/ UNCHANGED logVars
<1>1. /\ UNCHANGED needs /\ history'.total = history.total
      /\ history'.shown = history.shown
      /\ signal' = [signal EXCEPT ![c] = @ \/ poll[c].news]
      /\ history'.seen = [history.seen EXCEPT ![c] = poll[c].upTo]
      /\ poll[c].at = "answered"
  BY DEF Types, History, Hear, relayVars
<1>2. /\ history.seen \in [Client -> Nat] /\ signal \in [Client -> BOOLEAN]
      /\ needs \in [Client -> [render : BOOLEAN, full : BOOLEAN]]
  BY DEF Types, History
<1>3. /\ history.seen[c] <= poll[c].upTo /\ poll[c].upTo <= history.total
      /\ poll[c].news = (poll[c].upTo > history.seen[c])
  BY <1>1, FeedTypes DEF Feed, FeedInv
<1>4. CASE poll[c].news
  <2>1. poll[c].upTo \in history.seen[c] + 1 .. history.total
    BY <1>1, <1>3, <1>4, FeedTypes
  <2>2. Due' = [Due EXCEPT ![c] = TRUE]
    BY <1>1, <1>2, <1>4 DEF Due
  <2> QED BY <1>1, <2>1, <2>2 DEF Log!Learn, Due
<1>5. CASE ~poll[c].news
  <2>1. poll[c].upTo = history.seen[c]
    BY <1>1, <1>3, <1>5, FeedTypes
  <2>2. history'.seen = history.seen
    BY <1>1, <1>2, <2>1
  <2>3. Due' = Due
    BY <1>1, <1>2, <1>5 DEF Due
  <2> QED BY <1>1, <2>2, <2>3 DEF logVars
<1> QED BY <1>4, <1>5

LEMMA ReceiveKept ==
  ASSUME Types, Feed, NEW c \in Client, Receive(c)
  PROVE  Log!Repaint(c)
<1>1. /\ UNCHANGED signal /\ history'.total = history.total /\ history'.seen = history.seen
      /\ needs' = [needs EXCEPT ![c] = [render |-> FALSE, full |-> FALSE]]
      /\ history'.shown = [history.shown EXCEPT ![c] = relay[c].upTo]
      /\ relay[c].at = "answered"
  BY DEF Types, History, Receive, Painted
<1>2. /\ signal \in [Client -> BOOLEAN]
      /\ needs \in [Client -> [render : BOOLEAN, full : BOOLEAN]]
  BY DEF Types
<1>3. /\ relay[c].upTo \in history.shown[c] .. history.total
      /\ ~signal[c] => relay[c].upTo >= history.seen[c]
  BY <1>1, FeedTypes DEF Feed, FeedInv
<1>4. CASE signal[c]
  <2>1. Due' = Due
    BY <1>1, <1>2, <1>4 DEF Due
  <2> QED BY <1>1, <1>3, <2>1 DEF Log!Repaint, Due
<1>5. CASE ~signal[c]
  <2>1. Due' = [Due EXCEPT ![c] = FALSE]
    BY <1>1, <1>2, <1>5 DEF Due
  <2> QED BY <1>1, <1>3, <1>5, <2>1 DEF Log!Repaint, Due
<1> QED BY <1>4, <1>5

LEMMA StutterKept ==
  ASSUME Types, Feed, Keys, NEW c \in Client,
         \/ Polling(c) \/ Turn(c) \/ Enqueue(c) \/ Busy(c) \/ Retry(c) \/ TimesOut(c)
         \/ GiveUp(c) \/ Quit(c) \/ Resize(c) \/ Serve
  PROVE  UNCHANGED logVars
<1>1. history'.total = history.total /\ history'.seen = history.seen /\ history'.shown = history.shown
  <2>1. CASE Polling(c) \/ Turn(c) \/ Enqueue(c) \/ Busy(c) \/ Retry(c) \/ GiveUp(c) \/ Quit(c)
    <3>1. UNCHANGED history
      BY <2>1 DEF Polling, Register, ReadNews, ReadNothing, Park, Wake, Deadline, PollTimesOut,
                  Answer, Turn, Enqueue, Busy, Retry, GiveUp, Quit
    <3> QED BY <3>1
  <2>2. CASE TimesOut(c) \/ Resize(c)
    BY <2>2 DEF Types, History, TimesOut, Resize
  <2>3. CASE Serve
    <3>1. PICK e \in Client, d \in Picture, forced \in BOOLEAN : Served(e, d, forced)
      BY <2>3, ServeParts DEF Item
    <3> QED BY <3>1 DEF Types, History, Served
  <2> QED BY <2>1, <2>2, <2>3
<1>2. Due' = Due
  <2>1. CASE Turn(c)
    <3>1. PICK f \in BOOLEAN :
            needs' = [needs EXCEPT ![c] = [render |-> @.render \/ signal[c], full |-> f]]
      BY <2>1 DEF Turn, Types
    <3>2. signal' = [signal EXCEPT ![c] = FALSE]
      BY <2>1 DEF Turn
    <3> QED BY <3>1, <3>2 DEF Due, Types
  <2>2. CASE ~Turn(c)
    <3>1. UNCHANGED <<signal, needs>>
      BY <2>2 DEF Polling, Register, ReadNews, ReadNothing, Park, Wake, Deadline, PollTimesOut,
                  Answer, Enqueue, Busy, Retry, TimesOut, GiveUp, Quit, Leave, Resize, Serve,
                  feedVars, relayVars, RelayRest
    <3> QED BY <3>1 DEF Due
  <2> QED BY <2>1, <2>2
<1> QED BY <1>1, <1>2 DEF logVars

LEMMA LogStep ==
  ASSUME Types, Feed, Keys, [Next]_vars
  PROVE  [Log!Next]_logVars
<1>1. CASE UNCHANGED vars
  BY <1>1 DEF vars, feedVars, relayVars, logVars, Due
<1>2. CASE Tick
  BY <1>2, PublishKept DEF Log!Next
<1>3. CASE Serve
  <2>1. PICK c \in Client : First.client = c
    BY <1>3, ServeParts DEF Item
  <2> QED BY <1>3, <2>1, StutterKept
<1>4. ASSUME NEW c \in Client, Polling(c) \/ Turn(c) \/ TimesOut(c) \/ GiveUp(c) \/ Quit(c) \/ Resize(c)
                               \/ Enqueue(c) \/ Busy(c) \/ Retry(c)
      PROVE  [Log!Next]_logVars
  BY <1>4, StutterKept
<1>5. ASSUME NEW c \in Client, Hear(c) \/ Receive(c)
      PROVE  [Log!Next]_logVars
  BY <1>5, HearKept, ReceiveKept DEF Log!Next
<1> QED
  BY <1>1, <1>2, <1>3, <1>4, <1>5 DEF Next, Poller, Relay, Polling

-----------------------------------------------------------------------------
(* The keys *)

LEMMA KeyTypes ==
  ASSUME Types, NEW c \in Client
  PROVE  /\ history.applied[c] \in Seq(Nat) /\ history.late \in Nat /\ typed[c] \in Nat
         /\ Latest(c) \in Nat /\ Applied(c) \in Nat
         /\ Len(queue) \in Nat /\ DOMAIN queue = 1 .. Len(queue)
         /\ \A i \in DOMAIN queue : queue[i] \in Item /\ queue[i].ask.key \in Nat
         /\ relay[c].at \in Asking \cup {"answered"} =>
              relay[c].ask \in Ask /\ relay[c].ask.key \in Nat
         /\ IsFiniteSet(Bringing(c)) /\ Cardinality(Bringing(c)) \in Nat
         /\ Again(c) \in {0, 1} /\ Coming(c) \in Nat
<1>1. history.applied[c] \in Seq(Nat) /\ history.late \in Nat /\ typed[c] \in Nat
  BY AttachedAssumption DEF Types, History
<1>2. Latest(c) \in Nat /\ Applied(c) \in Nat
  BY <1>1, LenProperties, EmptySeq, ElementOfSeq DEF Latest, Applied
<1>3. Len(queue) \in Nat /\ DOMAIN queue = 1 .. Len(queue)
  BY LenProperties DEF Types
<1>4. \A i \in DOMAIN queue : queue[i] \in Item /\ queue[i].ask.key \in Nat
  <2>1. \A i \in DOMAIN queue : queue[i] \in Item
    BY <1>3, ElementOfSeq DEF Types
  <2>2. \A q \in Item : q.ask.key \in Nat
    BY AttachedAssumption DEF Item, Ask
  <2> QED BY <2>1, <2>2
<1>5. relay[c].at \in Asking \cup {"answered"} => relay[c].ask \in Ask /\ relay[c].ask.key \in Nat
  BY AttachedAssumption DEF Types, RelayType, Ask, Asking
<1>6. Bringing(c) \subseteq 1 .. Len(queue) /\ IsFiniteSet(1 .. Len(queue))
  BY <1>3, FS_Interval DEF Bringing, Of
<1>7. IsFiniteSet(Bringing(c)) /\ Cardinality(Bringing(c)) \in Nat
  BY <1>6, FS_Subset, FS_CardinalityType
<1>8. Again(c) \in {0, 1} /\ Coming(c) \in Nat
  BY <1>7 DEF Again, Coming
<1> QED BY <1>1, <1>2, <1>3, <1>4, <1>5, <1>7, <1>8

\* What was asked stands: a terminal whose keys and requests did not change.
Kept(c) ==
  /\ Of(c)' = Of(c)
  /\ \A i \in Of(c) : queue'[i] = queue[i]
  /\ relay'[c].at = relay[c].at /\ (relay[c].at \in Asking \cup {"answered"} => relay'[c].ask = relay[c].ask)
  /\ typed'[c] = typed[c]
  /\ history'.applied[c] = history.applied[c] /\ history'.late >= history.late

LEMMA KeptKeys ==
  ASSUME Types, Types', NEW c \in Client, QueueInv(c), KeyInv(c), Kept(c)
  PROVE  QueueInv(c)' /\ KeyInv(c)'
<1>1. QueueInv(c)'
  <2>1. relay[c].at \in {"loop", "gone", "answered"} \cup Asking
    BY DEF Types, RelayType
  <2>2. relay'[c].at = relay[c].at /\ Of(c)' = Of(c)
    BY DEF Kept
  <2>3. ASSUME NEW i \in Of(c)
        PROVE  /\ queue'[i] = queue[i]
               /\ relay[c].at # "gone" => relay'[c].ask = relay[c].ask
    BY <2>1 DEF Kept, QueueInv, Asking
  <2> QED BY <2>2, <2>3 DEF QueueInv
<1>2. Bringing(c)' = Bringing(c) /\ Again(c)' = Again(c) /\ Coming(c)' = Coming(c)
  <2>1. Bringing(c)' = Bringing(c)
    BY DEF Bringing, Kept
  <2>2. Again(c)' = Again(c)
    BY DEF Again, Kept, Asking
  <2> QED BY <2>1, <2>2 DEF Coming
<1>3. Latest(c)' = Latest(c) /\ Applied(c)' = Applied(c)
  BY DEF Latest, Applied, Kept
<1>4. history'.late \in Nat /\ history.late \in Nat /\ history'.late >= history.late
  BY KeyTypes DEF Kept, Types, History
<1>5. \A i \in Bringing(c) : queue'[i] = queue[i] /\ queue[i].ask.key \in Nat
  BY KeyTypes DEF Bringing, Of, Kept
<1>6. Applied(c) <= Latest(c) + history'.late
  BY <1>4, KeyTypes DEF KeyInv
<1>7. \A i \in Bringing(c) : Applied(c) + Coming(c) <= queue[i].ask.key + history'.late
  BY <1>4, <1>5, KeyTypes DEF KeyInv
<1>8. Again(c) = 1 => Applied(c) + Coming(c) <= relay[c].ask.key + history'.late
  <2>1. Again(c) = 1 => relay[c].ask.key \in Nat
    BY KeyTypes DEF Again, Asking
  <2> QED BY <1>4, <2>1, KeyTypes DEF KeyInv
<1>9. Again(c) = 1 => relay'[c].ask = relay[c].ask
  BY DEF Again, Kept, Asking
<1> QED
  BY <1>1, <1>2, <1>3, <1>5, <1>6, <1>7, <1>8, <1>9 DEF KeyInv, Kept

\* Most steps leave the keys of all terminals alone.
LEMMA AloneKeys ==
  ASSUME Types, Types', Keys, UNCHANGED <<queue, relay, typed>>,
         history'.applied = history.applied, history'.late >= history.late
  PROVE  Keys'
<1>1. ASSUME NEW c \in Client PROVE Kept(c)
  BY DEF Kept, Of
<1> QED BY <1>1, KeptKeys DEF Keys

\* A step of one terminal's relay alone.
LEMMA OneKeys ==
  ASSUME Types, Types', Keys, NEW c \in Client,
         \A d \in Client \ {c} : Kept(d), QueueInv(c)', KeyInv(c)'
  PROVE  Keys'
  BY KeptKeys DEF Keys

LEMMA OwnKeys ==
  ASSUME Types, NEW c \in Client,
         UNCHANGED queue, \A d \in Client \ {c} : relay'[d] = relay[d] /\ typed'[d] = typed[d],
         history'.applied = history.applied, history'.late = history.late
  PROVE  /\ \A d \in Client \ {c} : Kept(d)
         /\ Of(c)' = Of(c) /\ Bringing(c)' = Bringing(c)
         /\ Applied(c)' = Applied(c) /\ Latest(c)' = Latest(c)
<1>1. \A d \in Client : Of(d)' = Of(d) /\ Bringing(d)' = Bringing(d)
  BY DEF Of, Bringing
<1>2. history.late \in Nat
  BY KeyTypes
<1> QED
  BY <1>1, <1>2 DEF Kept, Of, Bringing, Applied, Latest

LEMMA TurnKeys ==
  ASSUME Types, Types', Keys, NEW c \in Client, Turn(c)
  PROVE  Keys'
<1>1. PICK key \in {None} \cup ({typed[c] + 1} \cap 1 .. MaxKeys) :
        /\ typed' = [typed EXCEPT ![c] = IF key = None THEN @ ELSE key]
        /\ relay'[c].at = "send" /\ relay'[c].ask.key = key
        /\ \A d \in Client \ {c} : relay'[d] = relay[d]
  BY TurnParts DEF TurnWith, Types
<1>2. relay[c].at = "loop" /\ Of(c) = {} /\ Bringing(c) = {} /\ typed[c] = Latest(c)
  BY DEF Turn, Keys, QueueInv, KeyInv, Bringing
<1>3. UNCHANGED <<queue, history>> /\ \A d \in Client \ {c} : typed'[d] = typed[d]
  BY <1>1 DEF Turn, Types
<1>4. /\ \A d \in Client \ {c} : Kept(d)
      /\ Of(c)' = Of(c) /\ Bringing(c)' = Bringing(c)
      /\ Applied(c)' = Applied(c) /\ Latest(c)' = Latest(c)
  BY <1>1, <1>3, OwnKeys
<1>5. QueueInv(c)'
  BY <1>1, <1>2, <1>4 DEF QueueInv
<1>6. Coming(c)' = IF key = None THEN 0 ELSE 1
  BY <1>1, <1>2, <1>4, FS_EmptySet DEF Coming, Again
<1>7. /\ typed'[c] = IF key = None THEN typed[c] ELSE typed[c] + 1
      /\ key = None \/ key = typed[c] + 1
  BY <1>1 DEF Types
<1>8. Applied(c) <= Latest(c) + history.late /\ InOrder(history.applied[c])
  BY DEF Keys, KeyInv
<1>9. /\ key = None => typed'[c] = Latest(c)
      /\ key # None => typed'[c] = key /\ Latest(c) = key - 1
                       /\ Applied(c) + 1 <= key + history.late
  BY <1>2, <1>7, <1>8, KeyTypes DEF None
<1>10. KeyInv(c)'
  BY <1>1, <1>2, <1>3, <1>4, <1>6, <1>8, <1>9 DEF KeyInv, Again, Asking
<1> QED
  BY <1>4, <1>5, <1>10, OneKeys

LEMMA ReceiveKeys ==
  ASSUME Types, Types', Keys, NEW c \in Client, Receive(c)
  PROVE  Keys'
<1>1. /\ relay[c].at = "answered" /\ relay'[c].at = "loop"
      /\ \A d \in Client \ {c} : relay'[d] = relay[d]
      /\ UNCHANGED <<queue, typed>>
      /\ history'.applied = history.applied /\ history'.late = history.late
  BY DEF Receive, Types, History
<1>2. /\ \A d \in Client \ {c} : Kept(d)
      /\ Of(c)' = Of(c) /\ Bringing(c)' = Bringing(c)
      /\ Applied(c)' = Applied(c) /\ Latest(c)' = Latest(c)
  BY <1>1, OwnKeys
<1>3. Of(c) = {} /\ Bringing(c) = {}
  BY <1>1 DEF Keys, QueueInv, Bringing
<1>4. QueueInv(c)' /\ KeyInv(c)'
  BY <1>1, <1>2, <1>3 DEF Keys, QueueInv, KeyInv, Again, Asking
<1> QED
  BY <1>2, <1>4, OneKeys

\* The terminal ends, or is told to wait, or asks again.
LEMMA StepKeys ==
  ASSUME Types, Types', Keys, NEW c \in Client, Busy(c) \/ Retry(c) \/ GiveUp(c) \/ Quit(c)
  PROVE  Keys'
<1>1. /\ \A d \in Client \ {c} : relay'[d] = relay[d]
      /\ UNCHANGED <<queue, typed, history>>
      /\ relay'[c].at \in {"send", "retry", "gone"}
      /\ relay'[c].at # "gone" =>
           relay[c].at \in {"send", "retry"} /\ relay'[c].ask = relay[c].ask
      /\ relay[c].at \in {"loop", "send", "retry"}
  BY DEF Busy, Retry, Step, GiveUp, Quit, Leave, RelayRest, Types, RelayType, Asking
<1>2. /\ \A d \in Client \ {c} : Kept(d)
      /\ Of(c)' = Of(c) /\ Bringing(c)' = Bringing(c)
      /\ Applied(c)' = Applied(c) /\ Latest(c)' = Latest(c)
  BY <1>1, OwnKeys
<1>3. QueueInv(c)'
  BY <1>1, <1>2 DEF Keys, QueueInv, Of
<1>4. Again(c)' \in {0, Again(c)} /\ (relay'[c].at # "gone" => Again(c)' = Again(c))
  BY <1>1 DEF Again
<1>5. Coming(c)' \in Nat /\ Coming(c)' <= Coming(c) /\ (relay'[c].at # "gone" => Coming(c)' = Coming(c))
  BY <1>2, <1>4, KeyTypes DEF Coming
<1>6. \A i \in Bringing(c) : queue[i].ask.key \in Nat /\ queue'[i] = queue[i]
  BY <1>1, KeyTypes DEF Bringing, Of
<1>7. KeyInv(c)'
  <2>1. \A i \in Bringing(c) : Applied(c) + Coming(c)' <= queue[i].ask.key + history.late
    BY <1>5, <1>6, KeyTypes DEF Keys, KeyInv
  <2>2. KeyInv(c)
    BY DEF Keys
  <2>3. Again(c)' = 1 => relay'[c].at # "gone"
    BY DEF Again
  <2> QED BY <1>1, <1>2, <1>4, <1>5, <1>6, <2>1, <2>2, <2>3 DEF KeyInv, Asking
<1> QED
  BY <1>2, <1>3, <1>7, OneKeys

LEMMA RestartKeys ==
  ASSUME Types, Types', Keys, Restart
  PROVE  Keys'
<1>1. ASSUME NEW c \in Client PROVE QueueInv(c)' /\ KeyInv(c)'
  <2>1. /\ relay'[c] = relay[c] \/ relay'[c].at = "gone"
        /\ relay'[c].at \in {"loop", "retry", "gone"}
        /\ UNCHANGED typed
        /\ history'.applied = history.applied /\ history'.late = history.late
        /\ queue' = <<>>
    BY DEF Restart, RelayRest, Types, RelayType, Asking, History
  <2>2. Of(c)' = {} /\ Bringing(c)' = {}
    BY <2>1 DEF Of, Bringing
  <2>3. Applied(c)' = Applied(c) /\ Latest(c)' = Latest(c)
    BY <2>1 DEF Applied, Latest
  <2>4. Coming(c)' = Again(c)' /\ (Again(c)' = 1 => Again(c) = 1 /\ relay'[c] = relay[c])
    BY <2>1, <2>2, FS_EmptySet, KeyTypes DEF Coming, Again
  <2>5. Again(c)' = 1 => Applied(c) + Coming(c)' <= relay[c].ask.key + history.late
    <3> SUFFICES ASSUME Again(c)' = 1 PROVE Applied(c) + 1 <= relay[c].ask.key + history.late
      BY <2>4
    <3>1. Again(c) = 1 /\ Coming(c) >= 1 /\ relay[c].ask.key \in Nat
      BY <2>4, KeyTypes DEF Coming, Again, Asking
    <3>2. Applied(c) + Coming(c) <= relay[c].ask.key + history.late
      BY <3>1 DEF Keys, KeyInv
    <3> QED BY <3>1, <3>2, KeyTypes
  <2>6. QueueInv(c)'
    BY <2>2 DEF QueueInv
  <2>7. KeyInv(c)'
    BY <2>1, <2>2, <2>3, <2>4, <2>5 DEF Keys, KeyInv, Asking
  <2> QED BY <2>6, <2>7
<1> QED
  BY <1>1 DEF Keys

LEMMA EnqueueKeys ==
  ASSUME Types, Types', Keys, NEW c \in Client, Enqueue(c)
  PROVE  Keys'
<1> DEFINE n == Len(queue)
           a == relay[c].ask
           item == [client |-> c, heard |-> TRUE, ask |-> a]
<1>1. /\ relay[c].at = "send" /\ relay'[c].at = "wait" /\ relay'[c].ask = a
      /\ \A d \in Client \ {c} : relay'[d] = relay[d]
      /\ UNCHANGED <<typed, history>>
  BY DEF Enqueue, Step, RelayRest, Types, RelayType, Asking
<1>2. a \in Ask /\ a.key \in Nat /\ item \in Item
  BY <1>1, KeyTypes DEF Item, Asking
<1>3. /\ n \in Nat /\ DOMAIN queue = 1 .. n /\ DOMAIN queue' = 1 .. n + 1
      /\ \A i \in 1 .. n : queue'[i] = queue[i]
      /\ queue'[n + 1] = item
  BY <1>2, AppendProperties, LenProperties DEF Enqueue, Types
<1> HIDE DEF n
<1>4. /\ Of(c)' = Of(c) \cup {n + 1} /\ Of(c) \subseteq 1 .. n
      /\ \A d \in Client \ {c} : Of(d)' = Of(d)
      /\ item.client = c /\ item.heard = TRUE /\ item.ask = a
  BY <1>3 DEF Of
<1>5. \A d \in Client \ {c} : Kept(d)
  <2>1. history.late \in Nat
    BY KeyTypes
  <2> QED BY <1>1, <1>3, <1>4, <2>1 DEF Kept, Of
<1>6. QueueInv(c) /\ KeyInv(c)
  BY DEF Keys
<1>7. \A i \in Of(c) : queue'[i] = queue[i] /\ queue[i].ask.key = a.key /\ ~queue[i].heard
  BY <1>1, <1>3, <1>4, <1>6 DEF QueueInv
<1> HIDE DEF item, a
<1>8. QueueInv(c)'
  BY <1>1, <1>3, <1>4, <1>7 DEF QueueInv
<1>9. Coming(c)' = Coming(c) /\ Again(c)' = 0
  <2>1. Again(c)' = 0
    BY <1>1 DEF Again
  <2>2. CASE a.key = None
    <3>1. Bringing(c) = {} /\ Bringing(c)' = {}
      BY <1>3, <1>4, <1>7, <2>2 DEF Bringing
    <3>2. Again(c) = 0
      BY <1>1, <2>2 DEF Again, a
    <3> QED BY <2>1, <3>1, <3>2 DEF Coming
  <2>3. CASE a.key # None
    <3>1. Bringing(c)' = Bringing(c) \cup {n + 1} /\ n + 1 \notin Bringing(c)
      BY <1>3, <1>4, <1>7, <2>3 DEF Bringing
    <3>2. Cardinality(Bringing(c) \cup {n + 1}) = Cardinality(Bringing(c)) + 1
      BY <3>1, FS_AddElement, KeyTypes
    <3>3. Again(c) = 1
      BY <1>1, <2>3 DEF Again, a
    <3> QED BY <2>1, <3>1, <3>2, <3>3, KeyTypes DEF Coming
  <2> QED BY <2>2, <2>3
<1>10. Applied(c)' = Applied(c) /\ Latest(c)' = Latest(c)
  BY <1>1 DEF Applied, Latest
<1>11. \A i \in Bringing(c)' : queue'[i].ask.key = a.key /\ a.key # None
  BY <1>3, <1>4, <1>7 DEF Bringing
<1>12. a.key # None => Again(c) = 1
  BY <1>1 DEF Again, a
<1>13. KeyInv(c)'
  BY <1>1, <1>6, <1>9, <1>10, <1>11, <1>12 DEF KeyInv, Asking, a
<1> QED
  BY <1>5, <1>8, <1>13, OneKeys

LEMMA TimesOutKeys ==
  ASSUME Types, Types', Keys, NEW c \in Client, TimesOut(c)
  PROVE  Keys'
<1>1. /\ relay[c].at \in {"wait", "answered"} /\ relay'[c].at = "retry"
      /\ relay'[c].ask = relay[c].ask
      /\ \A d \in Client \ {c} : relay'[d] = relay[d]
      /\ UNCHANGED typed
      /\ history'.applied = history.applied /\ history'.late = history.late + 1
  BY DEF TimesOut, RelayRest, Types, History
<1>2. /\ DOMAIN queue' = DOMAIN queue
      /\ \A i \in DOMAIN queue :
           /\ queue'[i].client = queue[i].client /\ queue'[i].ask = queue[i].ask
           /\ queue[i].client = c => ~queue'[i].heard
           /\ queue[i].client # c => queue'[i] = queue[i]
  <2>1. \A i \in DOMAIN queue : queue[i] \in Item
    BY KeyTypes
  <2> QED BY <2>1 DEF TimesOut, Item
<1>3. /\ \A d \in Client : Of(d)' = Of(d)
      /\ Bringing(c)' = Bringing(c)
  BY <1>2 DEF Of, Bringing
<1>4. \A d \in Client \ {c} : Kept(d)
  <2>1. history.late \in Nat
    BY KeyTypes
  <2> QED BY <1>1, <1>2, <1>3, <2>1 DEF Kept, Of
<1>5. QueueInv(c) /\ KeyInv(c)
  BY DEF Keys
<1>6. QueueInv(c)'
  BY <1>1, <1>2, <1>3, <1>5 DEF QueueInv, Of
<1>7. Applied(c)' = Applied(c) /\ Latest(c)' = Latest(c)
  BY <1>1 DEF Applied, Latest
<1>8. /\ Again(c) = 0 /\ Coming(c) = Cardinality(Bringing(c))
      /\ Again(c)' = IF relay[c].ask.key = None THEN 0 ELSE 1
      /\ Coming(c)' = Cardinality(Bringing(c)) + Again(c)'
      /\ relay[c].ask.key \in Nat /\ relay[c].at \in Asking \cup {"answered"}
  BY <1>1, <1>3, KeyTypes DEF Again, Coming, Asking
<1>9. Applied(c) <= Latest(c) + history'.late
  BY <1>1, <1>5, KeyTypes DEF KeyInv
<1>10. \A i \in Bringing(c) :
         /\ queue[i].ask.key \in Nat /\ queue'[i].ask = queue[i].ask
         /\ Applied(c) + Cardinality(Bringing(c)) <= queue[i].ask.key + history.late
  BY <1>2, <1>5, <1>8, KeyTypes DEF KeyInv, Bringing, Of
<1>11. \A i \in Bringing(c) : Applied(c) + Coming(c)' <= queue[i].ask.key + history'.late
  BY <1>1, <1>8, <1>10, KeyTypes
<1>12. Again(c)' = 1 => Applied(c) + Coming(c)' <= relay[c].ask.key + history'.late
  <2> SUFFICES ASSUME Again(c)' = 1
               PROVE  Applied(c) + Cardinality(Bringing(c)) <= relay[c].ask.key + history.late
    BY <1>1, <1>8, KeyTypes
  <2>1. relay[c].ask.key # None
    BY <1>8
  <2>2. Latest(c) <= relay[c].ask.key
    BY <1>1, <1>5, <2>1, KeyTypes DEF KeyInv, Asking
  <2>3. CASE Bringing(c) = {}
    BY <1>5, <1>8, <2>2, <2>3, FS_EmptySet, KeyTypes DEF KeyInv
  <2>4. CASE Bringing(c) # {}
    <3>1. PICK i \in Bringing(c) : TRUE
      BY <2>4
    <3>2. queue[i].ask.key = relay[c].ask.key
      BY <1>1, <1>5, <3>1 DEF QueueInv, Bringing
    <3> QED BY <1>10, <3>1, <3>2
  <2> QED BY <2>3, <2>4
<1>13. KeyInv(c)'
  <2>1. relay[c].ask.key = None => typed[c] = Latest(c)
    BY <1>1, <1>5 DEF KeyInv, Asking
  <2>2. relay[c].ask.key # None => typed[c] = relay[c].ask.key /\ Latest(c) \in {typed[c] - 1, typed[c]}
    BY <1>1, <1>5 DEF KeyInv, Asking
  <2>3. /\ InOrder(history.applied[c])
        /\ \A i \in Bringing(c) : Latest(c) \in {queue[i].ask.key - 1, queue[i].ask.key}
    BY <1>5 DEF KeyInv
  <2> QED BY <1>1, <1>3, <1>7, <1>9, <1>10, <1>11, <1>12, <2>1, <2>2, <2>3 DEF KeyInv
<1> QED
  BY <1>4, <1>6, <1>13, OneKeys

\* A key is applied after the one before it, or once more.
LEMMA AppliedInOrder ==
  ASSUME NEW keys \in Seq(Nat), InOrder(keys), NEW key \in Nat,
         (IF keys = <<>> THEN 0 ELSE keys[Len(keys)]) \in {key - 1, key}
  PROVE  /\ InOrder(Append(keys, key)) /\ Append(keys, key) \in Seq(Nat)
         /\ Append(keys, key) # <<>> /\ Len(Append(keys, key)) = Len(keys) + 1
         /\ Append(keys, key)[Len(Append(keys, key))] = key
<1> DEFINE n == Len(keys)
           more == Append(keys, key)
<1>1. /\ n \in Nat /\ DOMAIN keys = 1 .. n /\ (n = 0 <=> keys = <<>>)
      /\ \A i \in 1 .. n : keys[i] \in Nat
  BY LenProperties, EmptySeq, ElementOfSeq
<1>2. /\ more \in Seq(Nat) /\ Len(more) = n + 1
      /\ \A i \in 1 .. n : more[i] = keys[i]
      /\ more[n + 1] = key
  BY AppendProperties
<1>3. DOMAIN more = 1 .. n + 1 /\ more # <<>>
  BY <1>1, <1>2, LenProperties, EmptySeq
<1>4. (IF n = 0 THEN 0 ELSE keys[n]) \in {key - 1, key}
  BY <1>1
<1> HIDE DEF n, more
<1>5. ASSUME NEW i \in 1 .. n
      PROVE  more[i] - (IF i = 1 THEN 0 ELSE more[i - 1]) \in {0, 1}
  <2>1. keys[i] - (IF i = 1 THEN 0 ELSE keys[i - 1]) \in {0, 1}
    BY <1>1 DEF InOrder
  <2>2. i = 1 \/ i - 1 \in 1 .. n
    BY <1>1
  <2> QED BY <1>2, <2>1, <2>2
<1>6. ASSUME NEW i \in 1 .. n + 1, i \notin 1 .. n
      PROVE  more[i] - (IF i = 1 THEN 0 ELSE more[i - 1]) \in {0, 1}
  <2>1. i = n + 1 /\ i - 1 = n /\ (i = 1 <=> n = 0) /\ (n # 0 => n \in 1 .. n)
    BY <1>1, <1>6
  <2>2. key - (IF n = 0 THEN 0 ELSE keys[n]) \in {0, 1}
    BY <1>1, <1>4
  <2> QED BY <1>2, <2>1, <2>2
<1>7. InOrder(more)
  BY <1>3, <1>5, <1>6 DEF InOrder
<1> QED
  BY <1>1, <1>2, <1>3, <1>7 DEF n, more

\* The queue moves up.
LEMMA MovedUp ==
  ASSUME Types, Serve
  PROVE  /\ 1 \in 1 .. Len(queue) /\ DOMAIN queue' = 1 .. Len(queue) - 1
         /\ Len(queue) \in Nat
         /\ \A i \in 1 .. Len(queue) - 1 : queue'[i] = queue[i + 1]
         /\ \A d \in Client : Of(d)' = {i \in 1 .. Len(queue) - 1 : i + 1 \in Of(d)}
         /\ \A d \in Client : Bringing(d)' = {i \in 1 .. Len(queue) - 1 : i + 1 \in Bringing(d)}
<1>1. PICK c \in Client, delta \in Picture, forced \in BOOLEAN : Served(c, delta, forced)
  BY ServeParts DEF Item
<1> DEFINE n == Len(queue)
<1>2. queue \in Seq(Item) /\ queue # <<>> /\ queue' = Tail(queue)
  BY <1>1 DEF Types, Served
<1>3. n \in Nat /\ DOMAIN queue = 1 .. n /\ n # 0
  BY <1>2, LenProperties, EmptySeq
<1>4. /\ queue' \in Seq(Item) /\ Len(queue') = n - 1
      /\ \A i \in 1 .. n - 1 : queue'[i] = queue[i + 1]
  BY <1>2, <1>3, HeadTailProperties
<1>5. DOMAIN queue' = 1 .. n - 1
  BY <1>4, LenProperties
<1> HIDE DEF n
<1>6. \A i \in 1 .. n - 1 : i + 1 \in 1 .. n
  BY <1>3
<1>7. \A d \in Client : Of(d)' = {i \in 1 .. n - 1 : i + 1 \in Of(d)}
  BY <1>3, <1>4, <1>5, <1>6 DEF Of
<1>8. \A d \in Client : Bringing(d)' = {i \in 1 .. n - 1 : i + 1 \in Bringing(d)}
  BY <1>3, <1>4, <1>5, <1>6, <1>7 DEF Bringing
<1> QED BY <1>3, <1>4, <1>5, <1>7, <1>8 DEF n

\* Every request left in the queue has the key of one that was there.
LEMMA MovedQueue ==
  ASSUME Types, Serve, NEW c \in Client, QueueInv(c),
         relay'[c].at = "gone" \/ Of(c)' # {} =>
           relay'[c].at = relay[c].at /\ (relay[c].at # "gone" => relay'[c].ask = relay[c].ask)
  PROVE  QueueInv(c)'
<1>1. \A i \in Of(c)' :
        /\ i \in Nat /\ i + 1 \in Of(c)
        /\ queue'[i] = queue[i + 1]
  BY MovedUp
<1>2. relay[c].at \in {"loop", "answered"} => Of(c)' = {}
  BY <1>1 DEF QueueInv
<1>3. ASSUME NEW i \in Of(c)'
      PROVE  /\ relay'[c].at # "gone" => queue'[i].ask.key = relay'[c].ask.key
             /\ queue'[i].heard => relay'[c].at = "wait" /\ queue'[i].ask = relay'[c].ask
             /\ \A j \in Of(c)' :
                  /\ queue'[i].ask.key = queue'[j].ask.key
                  /\ queue'[i].heard => j <= i
  <2>1. relay'[c].at = relay[c].at /\ (relay[c].at # "gone" => relay'[c].ask = relay[c].ask)
    OBVIOUS
  <2>2. /\ relay[c].at # "gone" => queue[i + 1].ask.key = relay[c].ask.key
        /\ queue[i + 1].heard => relay[c].at = "wait" /\ queue[i + 1].ask = relay[c].ask
    BY <1>1 DEF QueueInv
  <2>3. ASSUME NEW j \in Of(c)'
        PROVE  /\ queue'[i].ask.key = queue'[j].ask.key
               /\ queue'[i].heard => j <= i
    <3>1. /\ queue[i + 1].ask.key = queue[j + 1].ask.key
          /\ queue[i + 1].heard => j + 1 <= i + 1
      BY <1>1 DEF QueueInv
    <3> QED BY <1>1, <3>1
  <2> QED BY <1>1, <2>1, <2>2, <2>3
<1>4. relay'[c].at \in {"loop", "answered"} => Of(c)' = {}
  BY <1>2
<1> QED BY <1>3, <1>4 DEF QueueInv

LEMMA ServeOthers ==
  ASSUME Types, Keys, Serve, NEW e \in Client, e # First.client
  PROVE  QueueInv(e)' /\ KeyInv(e)'
<1>1. PICK c \in Client, d \in Picture, forced \in BOOLEAN : Served(c, d, forced) /\ c = First.client
  BY ServeParts DEF Item
<1>2. /\ relay'[e] = relay[e] /\ UNCHANGED typed
      /\ history'.applied[e] = history.applied[e] /\ history'.late = history.late
  BY <1>1 DEF Served, Types, History
<1>3. 1 \notin Of(e)
  BY ServeParts DEF Of
<1>4. Bringing(e) \in SUBSET (1 .. Len(queue))
  BY KeyTypes DEF Bringing, Of
<1>5. Cardinality(Bringing(e)') = Cardinality(Bringing(e))
  BY <1>3, <1>4, MovedUp, MoveUp DEF Bringing
<1>6. /\ Coming(e)' = Coming(e) /\ Again(e)' = Again(e)
      /\ Applied(e)' = Applied(e) /\ Latest(e)' = Latest(e)
  BY <1>2, <1>5 DEF Coming, Again, Applied, Latest
<1>7. QueueInv(e)'
  BY <1>2, MovedQueue DEF Keys
<1>8. \A i \in Bringing(e)' : i + 1 \in Bringing(e) /\ queue'[i] = queue[i + 1]
  BY MovedUp
<1>9. KeyInv(e)
  BY DEF Keys
<1> QED BY <1>2, <1>6, <1>7, <1>8, <1>9 DEF KeyInv

LEMMA ServeKeys ==
  ASSUME Types, Types', Keys, Serve
  PROVE  Keys'
<1>1. PICK c \in Client, d \in Picture, forced \in BOOLEAN : Served(c, d, forced) /\ c = First.client
  BY ServeParts DEF Item
<1>2. PICK key \in Nat : key = First.ask.key /\ key = queue[1].ask.key
  BY ServeParts, KeyTypes
<1>3. 1 \in Of(c) /\ QueueInv(c) /\ KeyInv(c)
  BY <1>1, ServeParts DEF Of, Keys
<1>4. /\ UNCHANGED typed /\ history'.late = history.late
      /\ history'.applied[c] = IF key = None THEN history.applied[c]
                               ELSE Append(history.applied[c], key)
      /\ ~First.heard => relay' = relay
      /\ First.heard => relay'[c].at = "answered" /\ relay'[c].ask = relay[c].ask
  BY <1>1, <1>2 DEF Served, Reply, Types, History
<1>5. First.heard => Of(c)' = {} /\ Bringing(c)' = {} /\ relay[c].at = "wait" /\ relay[c].ask.key = key
  <2> SUFFICES ASSUME First.heard
               PROVE  Of(c)' = {} /\ relay[c].at = "wait" /\ relay[c].ask.key = key
    BY DEF Bringing
  <2>1. \A j \in Of(c) : j <= 1
    BY <1>3, ServeParts DEF QueueInv
  <2>2. Of(c)' = {}
    BY <2>1, MovedUp
  <2> QED BY <1>1, <1>2, <2>2, ServeWaiting
<1>6. QueueInv(c)'
  <2>1. CASE First.heard
    BY <1>4, <1>5, <2>1 DEF QueueInv
  <2>2. CASE ~First.heard
    BY <1>3, <1>4, <2>2, MovedQueue
  <2> QED BY <2>1, <2>2
<1>7. \A i \in Bringing(c)' : i + 1 \in Bringing(c) /\ queue'[i] = queue[i + 1] /\ queue'[i].ask.key = key
  BY <1>2, <1>3, MovedUp DEF QueueInv, Bringing
<1>8. KeyInv(c)'
  <2>1. CASE key = None
    <3>1. Bringing(c) = {} /\ Bringing(c)' = {}
      BY <1>2, <1>3, <1>7, <2>1 DEF QueueInv, Bringing
    <3>2. /\ history'.applied[c] = history.applied[c]
          /\ Applied(c)' = Applied(c) /\ Latest(c)' = Latest(c)
      BY <1>4, <2>1 DEF Applied, Latest
    <3>3. CASE ~First.heard
      BY <1>3, <1>4, <3>1, <3>2, <3>3 DEF KeyInv, Again, Coming
    <3>4. CASE First.heard
      <4>1. typed[c] = Latest(c)
        BY <1>3, <1>5, <2>1, <3>4 DEF KeyInv, Asking
      <4> QED BY <1>3, <1>4, <1>5, <2>1, <3>1, <3>2, <3>4, <4>1 DEF KeyInv, Again, Asking
    <3> QED BY <3>3, <3>4
  <2>2. CASE key # None
    <3>1. 1 \in Bringing(c)
      BY <1>2, <1>3, <2>2 DEF Bringing
    <3>2. Latest(c) \in {key - 1, key} /\ Applied(c) + Coming(c) <= key + history.late
      BY <1>2, <1>3, <3>1 DEF KeyInv
    <3>3. /\ InOrder(history'.applied[c]) /\ Applied(c)' = Applied(c) + 1
          /\ Latest(c)' = key
      <4> DEFINE keys == history.applied[c]
      <4>1. keys \in Seq(Nat) /\ InOrder(keys) /\ history'.applied[c] = Append(keys, key)
        BY <1>3, <1>4, <2>2, KeyTypes DEF KeyInv
      <4>2. (IF keys = <<>> THEN 0 ELSE keys[Len(keys)]) \in {key - 1, key}
        BY <3>2 DEF Latest
      <4> HIDE DEF keys
      <4>3. /\ InOrder(Append(keys, key)) /\ Append(keys, key) # <<>>
            /\ Len(Append(keys, key)) = Len(keys) + 1
            /\ Append(keys, key)[Len(Append(keys, key))] = key
        BY <4>1, <4>2, AppliedInOrder
      <4> QED BY <4>1, <4>3 DEF Latest, Applied, keys
    <3>4. Cardinality(Bringing(c)') = Cardinality(Bringing(c)) - 1 /\ Cardinality(Bringing(c)') \in Nat
      <4>1. Bringing(c) \in SUBSET (1 .. Len(queue)) /\ Len(queue) \in Nat
        BY KeyTypes DEF Bringing, Of
      <4>2. Bringing(c)' = {i \in 1 .. Len(queue) - 1 : i + 1 \in Bringing(c)}
        BY MovedUp
      <4> QED BY <3>1, <4>1, <4>2, MoveUp
    <3>5. Again(c)' = Again(c)
      BY <1>4, <1>5 DEF Again
    <3>6. Coming(c)' = Coming(c) - 1 /\ Coming(c)' \in Nat
      BY <3>4, <3>5, KeyTypes DEF Coming
    <3>7. /\ Applied(c) + 1 <= key + history.late
          /\ (Applied(c) + 1) + Coming(c)' <= key + history.late
      BY <3>2, <3>6, KeyTypes
    <3>8. relay[c].at # "gone" => relay[c].ask.key = key /\ relay[c].at \in Asking /\ typed[c] = key
      BY <1>2, <1>3, <2>2 DEF QueueInv, KeyInv, Types, RelayType
    <3>9. Again(c)' = 1 => relay'[c].ask.key = key
      BY <1>4, <3>8 DEF Again
    <3>10. relay'[c].at # "gone" => relay'[c].ask.key = key /\ typed[c] = key
      BY <1>4, <1>5, <3>8
    <3>11. relay'[c].at # "loop"
      BY <1>4, <3>8 DEF Asking
    <3> QED BY <1>4, <1>7, <2>2, <3>3, <3>7, <3>9, <3>10, <3>11 DEF KeyInv, Asking
  <2> QED BY <2>1, <2>2
<1> QED
  BY <1>1, <1>6, <1>8, ServeOthers DEF Keys

LEMMA KeysStep ==
  ASSUME Types, Types', Keys, [Next \/ Restart]_vars
  PROVE  Keys'
<1>1. ASSUME NEW c \in Client, Polling(c) \/ Hear(c) \/ Resize(c) \/ Tick \/ UNCHANGED vars
      PROVE  Keys'
  <2>1. /\ UNCHANGED <<queue, relay, typed>>
        /\ history'.applied = history.applied /\ history'.late = history.late
        /\ history.late \in Nat
    BY <1>1 DEF Types, History, Polling, Register, ReadNews, ReadNothing, Park, Wake, Deadline,
                PollTimesOut, Answer, Hear, Resize, Tick, Publish, vars, relayVars, feedVars
  <2> QED BY <2>1, AloneKeys
<1>2. ASSUME Client = {} PROVE Keys'
  BY <1>2 DEF Keys
<1>3. ASSUME Tick \/ UNCHANGED vars PROVE Keys'
  BY <1>1, <1>2, <1>3
<1>4. ASSUME NEW c \in Client, Turn(c) \/ Relay(c) \/ TimesOut(c) \/ GiveUp(c) \/ Quit(c)
      PROVE  Keys'
  BY <1>4, TurnKeys, ReceiveKeys, StepKeys, EnqueueKeys, TimesOutKeys DEF Relay
<1> QED
  BY <1>1, <1>3, <1>4, ServeKeys, RestartKeys DEF Next, Poller, Polling

LEMMA KeysStart == Types /\ Init => Keys
<1> SUFFICES ASSUME Types, Init, NEW c \in Client PROVE QueueInv(c) /\ KeyInv(c)
  BY DEF Keys
<1>1. relay[c].at = "loop" /\ typed[c] = 0 /\ history.applied[c] = <<>> /\ queue = <<>>
  BY DEF Init
<1>2. Of(c) = {} /\ Bringing(c) = {} /\ Latest(c) = 0 /\ Applied(c) = 0 /\ Again(c) = 0
  BY <1>1, EmptySeq DEF Of, Bringing, Latest, Applied, Again
<1>3. InOrder(history.applied[c])
  BY <1>1, EmptySeq DEF InOrder
<1> QED BY <1>1, <1>2, <1>3, KeyTypes DEF QueueInv, KeyInv, Asking

-----------------------------------------------------------------------------
(* The screens *)

\* An answer brings what is missing on the screen, or all of it.
LEMMA ReceivedAddsUp ==
  ASSUME Types, Screens, NEW c \in Client, Receive(c), history'.synced[c]
  PROVE  /\ screen'[c] = relay[c].buffer.cells
         /\ \A x \in DOMAIN lastFrame'[c] : screen'[c][x] = lastFrame'[c][x]
<1> DEFINE r == relay[c]
           cells == r.buffer.cells
<1>1. /\ r.at = "answered" /\ r.ask.size = size[c]
      /\ r.forced \/ (r.exact /\ history.synced[c])
  BY DEF Receive, Types, History
<1>2. /\ cells = [x \in Cell |-> cells[x]] /\ DOMAIN cells = Cell /\ DOMAIN r.frame \subseteq Cell
      /\ screen[c] = [x \in Cell |-> screen[c][x]]
  BY <1>1, AttachedAssumption DEF Types, RelayType, Buffer
<1>3. screen'[c] = LET before == IF r.ask.resized THEN Blank ELSE screen[c]
                   IN  IF Writes(c) THEN Drawn(r.frame, before) ELSE before
  BY <1>1 DEF Receive, Types
<1>4. lastFrame'[c] = IF Writes(c) THEN r.frame ELSE lastFrame[c]
  BY DEF Receive, Types
<1>5. Writes(c) <=> r.ask.full \/ r.forced \/ lastFrame[c] # r.frame
  BY DEF Writes
<1>6. ScreenInv(c)
  BY DEF Screens
<1>7. CASE r.forced
  <2>1. r.frame = cells
    BY <1>1, <1>6, <1>7 DEF ScreenInv
  <2>2. \A before : Drawn(r.frame, before) = cells
    BY <1>2, <2>1 DEF Drawn
  <2> QED BY <1>3, <1>4, <1>5, <1>7, <2>1, <2>2
<1>8. CASE ~r.forced
  <2>1. ~r.ask.full /\ ~r.ask.resized /\ history.synced[c] /\ r.exact
    BY <1>1, <1>6, <1>8 DEF ScreenInv
  <2>2. screen'[c] = IF Writes(c) THEN Drawn(r.frame, screen[c]) ELSE screen[c]
    BY <1>3, <2>1
  <2>3. \A x \in DOMAIN lastFrame[c] : screen[c][x] = lastFrame[c][x]
    BY <1>6, <2>1 DEF ScreenInv
  <2>4. \/ r.frame = cells
        \/ /\ \A x \in DOMAIN r.frame : r.frame[x] = cells[x] /\ r.frame[x] # screen[c][x]
           /\ \A x \in Cell \ DOMAIN r.frame : screen[c][x] = cells[x]
    BY <1>1, <1>6, <2>1 DEF ScreenInv
  <2> HIDE DEF cells
  <2>5. CASE Writes(c)
    <3>1. \A x \in Cell : screen'[c][x] = cells[x]
      BY <1>2, <2>2, <2>4, <2>5 DEF Drawn
    <3>2. screen'[c] = cells
      BY <1>2, <2>2, <2>5, <3>1 DEF Drawn
    <3>3. lastFrame'[c] = r.frame /\ \A x \in DOMAIN r.frame : r.frame[x] = cells[x]
      BY <1>4, <2>4, <2>5
    <3> QED BY <3>2, <3>3 DEF cells
  <2>6. CASE ~Writes(c)
    <3>1. lastFrame[c] = r.frame
      BY <1>5, <2>6
    <3>2. \A x \in Cell : screen[c][x] = cells[x]
      BY <1>2, <2>3, <2>4, <3>1
    <3>3. screen[c] = cells
      BY <1>2, <3>2
    <3> QED BY <1>4, <2>2, <2>3, <2>6, <3>3 DEF cells
  <2> QED BY <2>5, <2>6
<1> QED BY <1>7, <1>8

\* A terminal that writes nothing, and for which nothing is drawn meanwhile.
LEMMA AloneScreen ==
  ASSUME Types, NEW c \in Client, ScreenInv(c),
         screen'[c] = screen[c], lastFrame'[c] = lastFrame[c], last' = last,
         history'.synced[c] = history.synced[c],
         history'.drawnFor = c => history.drawnFor = c,
         \/ relay'[c] = relay[c]
         \/ /\ relay'[c].at # "answered"
            /\ relay'[c].at \in Asking => (relay'[c].ask.resized => relay'[c].ask.full)
            /\ relay[c].at = "answered" => history'.drawnFor # c
  PROVE  ScreenInv(c)'
  BY DEF ScreenInv

LEMMA ReceiveScreens ==
  ASSUME Types, Screens, NEW c \in Client, Receive(c)
  PROVE  Screens'
<1>1. /\ UNCHANGED last /\ history'.drawnFor = history.drawnFor
      /\ relay'[c].at = "loop" /\ relay[c].at = "answered"
      /\ \A d \in Client \ {c} :
           /\ relay'[d] = relay[d] /\ screen'[d] = screen[d] /\ lastFrame'[d] = lastFrame[d]
           /\ history'.synced[d] = history.synced[d]
  BY DEF Receive, Types, History
<1>2. ScreenInv(c)'
  <2>1. history.drawnFor = c => last = relay[c].buffer
    BY <1>1 DEF Screens, ScreenInv
  <2>2. history'.synced[c] => /\ screen'[c] = relay[c].buffer.cells
                              /\ \A x \in DOMAIN lastFrame'[c] : screen'[c][x] = lastFrame'[c][x]
    BY ReceivedAddsUp
  <2> QED BY <1>1, <2>1, <2>2 DEF ScreenInv, Asking
<1>3. ASSUME NEW d \in Client \ {c} PROVE ScreenInv(d)'
  BY <1>1, AloneScreen DEF Screens
<1> QED BY <1>2, <1>3 DEF Screens

LEMMA RelayScreens ==
  ASSUME Types, Screens, NEW c \in Client,
         \/ Turn(c) \/ Enqueue(c) \/ Busy(c) \/ Retry(c) \/ GiveUp(c) \/ Quit(c) \/ TimesOut(c)
  PROVE  Screens'
<1>1. /\ UNCHANGED <<last, screen, lastFrame>> /\ history'.synced = history.synced
      /\ history'.drawnFor \in {history.drawnFor, None}
      /\ \A d \in Client \ {c} : relay'[d] = relay[d]
  BY DEF Types, History, Turn, Enqueue, Busy, Retry, Step, GiveUp, Quit, Leave, TimesOut, RelayRest
<1>2. /\ relay'[c].at # "answered"
      /\ relay'[c].at \in Asking => (relay'[c].ask.resized => relay'[c].ask.full)
      /\ relay[c].at = "answered" => history'.drawnFor # c
  <2>1. CASE Turn(c)
    <3>1. PICK key \in {None} \cup ({typed[c] + 1} \cap 1 .. MaxKeys) : TurnWith(c, key)
      BY <2>1, TurnParts
    <3>2. relay[c].at = "loop"
      BY <2>1 DEF Turn
    <3> QED BY <3>1, <3>2 DEF TurnWith, Types
  <2>2. CASE TimesOut(c)
    <3>1. relay[c].at = "answered" => history'.drawnFor # c
      BY <2>2, AttachedAssumption DEF TimesOut, Types, History
    <3>2. relay'[c].at = "retry" /\ relay'[c].ask = relay[c].ask /\ relay[c].at \in {"wait", "answered"}
      BY <2>2 DEF TimesOut, Types
    <3> QED BY <3>1, <3>2 DEF Screens, ScreenInv, Asking
  <2>3. CASE Enqueue(c) \/ Busy(c) \/ Retry(c)
    <3>1. /\ relay'[c].at \in Asking /\ relay[c].at \in Asking /\ relay'[c].ask = relay[c].ask
      BY <2>3 DEF Enqueue, Busy, Retry, Step, Types, RelayType, Asking
    <3> QED BY <3>1 DEF Screens, ScreenInv, Asking
  <2>4. CASE GiveUp(c) \/ Quit(c)
    BY <2>4 DEF GiveUp, Quit, Leave, Types, Asking
  <2> QED BY <2>1, <2>2, <2>3, <2>4
<1>3. ASSUME NEW d \in Client PROVE ScreenInv(d)'
  BY <1>1, <1>2, AloneScreen, AttachedAssumption DEF Screens
<1> QED BY <1>3 DEF Screens

LEMMA ResizeScreens ==
  ASSUME Types, Screens, NEW c \in Client, Resize(c)
  PROVE  Screens'
<1>1. /\ UNCHANGED <<last, lastFrame, relay>> /\ history'.drawnFor = history.drawnFor
      /\ history'.synced[c] = FALSE
      /\ \A d \in Client \ {c} :
           screen'[d] = screen[d] /\ history'.synced[d] = history.synced[d]
  BY DEF Types, History, Resize
<1>2. ScreenInv(c)'
  BY <1>1 DEF Screens, ScreenInv
<1>3. ASSUME NEW d \in Client \ {c} PROVE ScreenInv(d)'
  BY <1>1, AloneScreen DEF Screens
<1> QED BY <1>2, <1>3 DEF Screens

LEMMA ServeScreens ==
  ASSUME Types, Keys, Screens, Serve
  PROVE  Screens'
<1>1. PICK c \in Client, d \in Picture, forced \in BOOLEAN : Served(c, d, forced) /\ c = First.client
  BY ServeParts DEF Item
<1>2. /\ UNCHANGED <<screen, lastFrame>> /\ history'.synced = history.synced
      /\ last' = Drawing(d)
      /\ history'.drawnFor = IF First.heard THEN c ELSE None
      /\ \A e \in Client \ {c} : relay'[e] = relay[e]
      /\ relay'[c] = IF First.heard THEN Reply(c, d, forced) ELSE relay[c]
  BY <1>1 DEF Served, Types, History
<1>3. ASSUME NEW e \in Client, e # c \/ ~First.heard PROVE ScreenInv(e)'
  <2>1. history'.drawnFor # e /\ relay'[e] = relay[e]
    BY <1>2, <1>3, AttachedAssumption
  <2> QED BY <1>2, <2>1 DEF Screens, ScreenInv
<1>4. ASSUME First.heard PROVE ScreenInv(c)'
  <2>1. /\ relay[c].at = "wait" /\ relay[c].ask = First.ask
        /\ relay'[c].at = "answered" /\ relay'[c].ask = relay[c].ask
        /\ relay'[c].frame = Frame(d, forced) /\ relay'[c].forced = Full(forced)
        /\ relay'[c].buffer = Drawing(d) /\ relay'[c].exact = (history.drawnFor = c)
    BY <1>1, <1>2, <1>4, ServeWaiting DEF Reply
  <2>2. Drawing(d).cells = d /\ DOMAIN d = Cell
    BY AttachedAssumption DEF Drawing
  <2>3. ScreenInv(c)
    BY DEF Screens
  <2>4. Full(forced) => Frame(d, forced) = d
    BY DEF Frame
  <2>5. ASSUME history.drawnFor = c, history.synced[c]
        PROVE  \/ Frame(d, forced) = d
               \/ /\ \A x \in DOMAIN Frame(d, forced) :
                       Frame(d, forced)[x] = d[x] /\ Frame(d, forced)[x] # screen[c][x]
                  /\ \A x \in Cell \ DOMAIN Frame(d, forced) : screen[c][x] = d[x]
    <3>1. screen[c] = last.cells
      BY <2>1, <2>3, <2>5 DEF ScreenInv
    <3> QED BY <2>2, <3>1 DEF Frame, Delta, Restrict
  <2>6. First.ask.full => Full(forced)
    BY DEF Full
  <2>7. relay'[c].ask.resized => relay'[c].ask.full
    BY <2>1, <2>3 DEF ScreenInv, Asking
  <2>8. history'.synced[c] => \A x \in DOMAIN lastFrame'[c] : screen'[c][x] = lastFrame'[c][x]
    BY <1>2, <2>3 DEF ScreenInv
  <2>9. last' = relay'[c].buffer /\ relay'[c].buffer.cells = d
    BY <1>2, <2>1, <2>2
  <2>10. relay'[c].exact /\ history'.synced[c] =>
           \/ relay'[c].frame = d
           \/ /\ \A x \in DOMAIN relay'[c].frame :
                   relay'[c].frame[x] = d[x] /\ relay'[c].frame[x] # screen'[c][x]
              /\ \A x \in Cell \ DOMAIN relay'[c].frame : screen'[c][x] = d[x]
    BY ZenonT(60), <1>2, <2>1, <2>5
  <2>11. (relay'[c].ask.full => relay'[c].forced) /\ (relay'[c].forced => relay'[c].frame = d)
    BY <2>1, <2>4, <2>6
  <2> QED BY <2>1, <2>7, <2>8, <2>9, <2>10, <2>11 DEF ScreenInv
<1> QED BY <1>3, <1>4 DEF Screens

LEMMA ScreensStep ==
  ASSUME Types, Keys, Screens, [Next \/ Restart]_vars
  PROVE  Screens'
<1>1. ASSUME Tick \/ UNCHANGED vars \/ \E c \in Client : Polling(c) \/ Hear(c)
      PROVE  Screens'
  <2>1. /\ UNCHANGED <<last, screen, lastFrame, relay>>
        /\ history'.synced = history.synced /\ history'.drawnFor = history.drawnFor
    BY <1>1 DEF Types, History, Polling, Register, ReadNews, ReadNothing, Park, Wake, Deadline,
                PollTimesOut, Answer, Hear, Tick, Publish, vars, relayVars, feedVars
  <2> QED BY <2>1, AloneScreen DEF Screens
<1>2. ASSUME Restart
      PROVE  Screens'
  <2>1. /\ UNCHANGED <<screen, lastFrame>>
        /\ history'.synced = history.synced /\ history'.drawnFor = None
        /\ \A c \in Client : \/ relay'[c] = relay[c] /\ relay[c].at # "answered"
                             \/ relay'[c].at = "gone"
    BY <1>2 DEF Types, History, Restart, RelayRest
  <2> QED BY <2>1, AttachedAssumption DEF Screens, ScreenInv, Asking
<1>3. ASSUME NEW c \in Client, Turn(c) \/ Relay(c) \/ TimesOut(c) \/ GiveUp(c) \/ Quit(c) \/ Resize(c)
      PROVE  Screens'
  BY <1>3, ReceiveScreens, RelayScreens, ResizeScreens DEF Relay
<1> QED
  BY <1>1, <1>2, <1>3, ServeScreens DEF Next, Poller, Polling

LEMMA ScreensStart == Types /\ Init => Screens
<1> SUFFICES ASSUME Init, NEW c \in Client PROVE ScreenInv(c)
  BY DEF Screens
<1>1. relay[c].at = "loop" /\ ~history.synced[c]
  BY DEF Init
<1> QED BY <1>1 DEF ScreenInv, Asking

LEMMA FeedStart == Types /\ Init => Feed
<1> SUFFICES ASSUME Types, Init, NEW c \in Client PROVE sequence = history.total /\ FeedInv(c)
  BY DEF Feed, Init
<1>1. /\ relay[c].at = "loop" /\ poll[c].at = "ask" /\ after[c] = 0 /\ sequence = 0
      /\ history.seen[c] = 0 /\ history.shown[c] = 0 /\ history.total = 0
  BY DEF Init
<1> QED BY <1>1 DEF FeedInv

-----------------------------------------------------------------------------
(* The theorems *)

LEMMA StaysStep == StaysInv /\ [Next \/ Restart]_vars => StaysInv'
  BY TypesStep, KeysStep, ScreensStep DEF StaysInv

\* This much holds whether the daemon restarts or not.
LEMMA AlwaysStays == RestartSpec => []StaysInv
<1>1. Init => StaysInv
  BY StartTypes, KeysStart, ScreensStart DEF StaysInv
<1> QED BY <1>1, StaysStep, PTL DEF RestartSpec

LEMMA AlwaysInv == Spec => []Inv
<1>1. Init => Inv
  BY StartTypes, KeysStart, ScreensStart, FeedStart DEF Inv
<1>2. Inv /\ [Next]_vars => Inv'
  BY TypesStep, FeedStep, KeysStep, ScreensStep DEF Inv
<1> QED BY <1>1, <1>2, PTL DEF Spec

\* A poll that waits, and has not been woken, has missed no event
\* (handlers.rs, tui_events_handler): the handler registers before it reads.
THEOREM NoPollSleepsOverNews == Spec => []NoSleepOverNews
<1>1. Inv => NoSleepOverNews
  BY DEF Inv, Feed, FeedInv, NoSleepOverNews
<1> QED BY <1>1, AlwaysInv, PTL

\* The variables have their types, and the keys of every terminal reach the
\* interface in order, all of them, one of them again only for an answer that
\* came too late; also when the daemon restarts (remote.rs, the relay's
\* retries, and handlers.rs, tui_frame_handler's queue).
THEOREM KeysComeInOrder == RestartSpec => []KeysInOrder
<1>1. StaysInv => TypeOK
  <2> SUFFICES ASSUME Types PROVE TypeOK
    BY DEF StaysInv
  <2>1. \A i \in DOMAIN queue : queue[i].client \in Client /\ queue[i].heard \in BOOLEAN
    <3>1. \A i \in DOMAIN queue : queue[i] \in Item
      BY LenProperties, ElementOfSeq DEF Types
    <3> QED BY <3>1 DEF Item
  <2>2. ASSUME NEW c \in Client
        PROVE  /\ poll[c].at \in {"ask", "read", "await", "parked", "answered"}
               /\ relay[c].at \in {"loop", "send", "wait", "retry", "answered", "gone"}
               /\ screen[c] \in [Cell -> Colour \cup {Unknown}]
               /\ DOMAIN lastFrame[c] \subseteq Cell
    BY DEF Types, PollType, RelayType, Asking
  <2> QED BY <2>1, <2>2 DEF TypeOK, Types
<1>2. ASSUME StaysInv, NEW c \in Client
      PROVE  LET keys == history.applied[c] IN
             /\ \A i \in DOMAIN keys :
                  keys[i] - (IF i = 1 THEN 0 ELSE keys[i - 1]) \in {0, 1}
             /\ keys # <<>> => Len(keys) <= keys[Len(keys)] + history.late
             /\ relay[c].at = "loop" => typed[c] = IF keys = <<>> THEN 0 ELSE keys[Len(keys)]
  BY <1>2 DEF StaysInv, Keys, KeyInv, InOrder, Latest, Applied
<1>3. StaysInv => KeysInOrder
  BY <1>1, <1>2 DEF KeysInOrder
<1> QED BY <1>3, AlwaysStays, PTL

\* What a terminal writes and what it leaves out adds up to the picture drawn for
\* it, also when the daemon restarts (remote.rs, write_frame; mod.rs,
\* last_remote_buffer).
THEOREM ScreensAddUp == RestartSpec => ScreenAddsUp
<1>1. ASSUME StaysInv, [Next \/ Restart]_vars, NEW c \in Client,
             Received(c), history'.synced[c]
      PROVE  screen'[c] = relay[c].buffer.cells
  <2>1. relay[c].at = "answered" /\ relay'[c].at = "loop"
    BY <1>1 DEF Received
  <2>2. Receive(c)
    <3>1. ASSUME NEW d \in Client, Turn(d) \/ TimesOut(d) \/ GiveUp(d) \/ Quit(d) \/ Enqueue(d)
                                   \/ Busy(d) \/ Retry(d)
          PROVE  FALSE
      <4> Types
        BY <1>1 DEF StaysInv
      <4>1. CASE Turn(d)
        <5>1. PICK key : TurnWith(d, key)
          BY <4>1, TurnParts
        <5>2. relay'[d].at = "send" /\ \A e \in Client \ {d} : relay'[e] = relay[e]
          BY <5>1 DEF TurnWith, Types
        <5> QED BY <2>1, <5>2
      <4>2. CASE ~Turn(d)
        <5>1. relay'[d].at # "loop" /\ \A e \in Client \ {d} : relay'[e] = relay[e]
          BY <3>1, <4>2 DEF TimesOut, GiveUp, Quit, Leave, Enqueue, Busy, Retry, Step,
                            Types, RelayType, Asking
        <5> QED BY <2>1, <5>1
      <4> QED BY <4>1, <4>2
    <3>2. ASSUME NEW d \in Client, Polling(d) \/ Hear(d) \/ Resize(d) \/ Tick \/ UNCHANGED vars
          PROVE  FALSE
      BY <2>1, <3>2 DEF Polling, Register, ReadNews, ReadNothing, Park, Wake, Deadline, PollTimesOut,
                        Answer, Hear, Resize, Tick, relayVars, vars
    <3>3. ASSUME NEW d \in Client, Receive(d)
          PROVE  d = c
      BY <2>1, <3>3 DEF Receive, Types, StaysInv
    <3>4. ~Restart
      BY <2>1 DEF Restart, Types, StaysInv
    <3>5. ~Serve
      <4> SUFFICES ASSUME Serve PROVE FALSE
        OBVIOUS
      <4>1. PICK e \in Client, d \in Picture, forced \in BOOLEAN : Served(e, d, forced)
        BY <1>1, ServeParts DEF Item, StaysInv
      <4> QED BY <1>1, <2>1, <4>1 DEF Served, Reply, Types, StaysInv
    <3> QED BY <1>1, <3>1, <3>2, <3>3, <3>4, <3>5 DEF Next, Poller, Relay, Polling
  <2> QED BY <1>1, <2>2, ReceivedAddsUp DEF StaysInv
<1>2. StaysInv /\ [Next \/ Restart]_vars =>
        [\A c \in Client :
           Received(c) /\ history'.synced[c] => screen'[c] = relay[c].buffer.cells]_vars
  BY <1>1
<1> QED BY <1>2, AlwaysStays, PTL DEF RestartSpec, ScreenAddsUp

\* The feed, the poller and the relay implement EventLog: every step of theirs is
\* one of its steps or none (handlers.rs, TuiEventBroker; remote.rs, the
\* poller's position and the repaints).
THEOREM FeedKeepsPromise == Spec => FeedIsKept
<1>1. Init => Log!Init
  <2> SUFFICES ASSUME Init PROVE Log!Init
    OBVIOUS
  <2>1. Due = [c \in Client |-> TRUE]
    BY DEF Init, Due
  <2>2. history.total = 0 /\ history.seen = [c \in Client |-> 0] /\ history.shown = [c \in Client |-> 0]
    BY DEF Init
  <2> QED BY <2>1, <2>2 DEF Log!Init, Due
<1>2. Inv /\ [Next]_vars => [Log!Next]_logVars
  BY LogStep DEF Inv
<1> QED BY <1>1, <1>2, AlwaysInv, PTL DEF Spec, FeedIsKept, Log!Spec, logVars, Due

-----------------------------------------------------------------------------
(* THE MANAGER'S OWN INTERFACE *)

(***************************************************************************)
(* The inductive invariant: types, one group for every session, and        *)
(* pointers that name a session or nothing.                                *)
(***************************************************************************)
Opened == [id : Nat \ {0}, ws : Workspaces, exited : BOOLEAN]
Group == [workspace_idx : Nat, terminal : Nat]
Activity == [id : Requests, session : Nat, over : BOOLEAN, aged : BOOLEAN]

AppType ==
  [sessions : Seq(Opened), session_groups : Seq(Group), activities : Seq(Activity),
   pending_exec : Seq(Requests), pending_net : Seq(Requests), launched : Nat]

UiType ==
  [focus : Focuses, sidebar_idx : Nat \ {0}, active_session : Nat, active_network_session : Nat,
   network_cursor : Nat, active_activity : Requests \cup {Nobody},
   active_settings_workspace : Nat, workspace_action_workspace : Nat,
   container_picker : {"none", "workspace", "template"} \X Nat, new_workspace : BOOLEAN,
   remove_workspace_confirm : Workspaces \cup {Nobody}, log_fullscreen : BOOLEAN,
   terminal_fullscreen : BOOLEAN]

AskedType ==
  [Requests -> [by : Nat, ws : Workspaces \cup {Nobody}, arrived : BOOLEAN, started : BOOLEAN]]

\* Every session is the terminal of exactly one group.
Grouping(a) ==
  /\ \A g \in DOMAIN a.session_groups :
       a.session_groups[g].terminal \in {NoIndex} \cup DOMAIN a.sessions
  /\ \A si \in DOMAIN a.sessions : \E g \in DOMAIN a.session_groups : a.session_groups[g].terminal = si
  /\ \A g, h \in DOMAIN a.session_groups :
       /\ a.session_groups[g].terminal # NoIndex
       /\ a.session_groups[g].terminal = a.session_groups[h].terminal
       => g = h

GoodApp(a) == a \in AppType /\ Grouping(a)
GoodUi(a, u) ==
  /\ u \in UiType
  /\ {u.active_session, u.active_network_session} \subseteq {NoIndex} \cup DOMAIN a.sessions
  /\ u.log_fullscreen => u.remove_workspace_confirm = Nobody

BuildType ==
  [task : {Nobody} \cup (Nat \X Workspaces),
   done : {Nobody} \cup ({"failed", "cancelled"} \X Workspaces),
   ws : Nat, ctr : BOOLEAN, cli : Nat, stop : BOOLEAN]

State == [a : AppType, u : UiType, b : BuildType]
Good(st) == st \in State /\ GoodApp(st.a) /\ GoodUi(st.a, st.u)

\* The pointers of y name what those of x name, a session launched since, or
\* nothing.
SessionIn(a, p) == IF p \in DOMAIN a.sessions THEN a.sessions[p].id ELSE NoIndex
Follows(x, y) ==
  /\ y.u.active_session # NoIndex => SessionIn(y.a, y.u.active_session) \in
       {SessionIn(x.a, x.u.active_session)} \cup (x.a.launched + 1 .. y.a.launched)
  /\ y.u.active_network_session # NoIndex =>
       SessionIn(y.a, y.u.active_network_session) = SessionIn(x.a, x.u.active_network_session)

-----------------------------------------------------------------------------
(* Rows *)

RowKind ==
  ({"NewSession", "NewWorkspace", "WorkspacesHeader", "Session", "NetworkGroup", "Settings", "Build",
    "Launch"} \X Nat) \cup ({"Activity"} \X ExecRequests)

LEMMA ConfigIs ==
  ASSUME NEW c \in Configs
  PROVE  c \in Seq(Workspaces) /\ IsInjective(c) /\ Len(c) \in Nat /\ DOMAIN c = 1 .. Len(c)
BY InterfaceAssumption, LenProperties DEF InterfaceAssumption

LEMMA AppIs ==
  ASSUME NEW a \in AppType
  PROVE  /\ Len(a.sessions) \in Nat /\ DOMAIN a.sessions = 1 .. Len(a.sessions)
         /\ \A si \in DOMAIN a.sessions : a.sessions[si] \in Opened
         /\ Len(a.session_groups) \in Nat /\ DOMAIN a.session_groups = 1 .. Len(a.session_groups)
         /\ \A g \in DOMAIN a.session_groups : a.session_groups[g] \in Group
         /\ Len(a.activities) \in Nat /\ DOMAIN a.activities = 1 .. Len(a.activities)
         /\ \A k \in DOMAIN a.activities : a.activities[k] \in Activity
<1>1. /\ a.sessions \in Seq(Opened) /\ a.session_groups \in Seq(Group)
      /\ a.activities \in Seq(Activity)
  BY DEF AppType
<1> QED BY <1>1, LenProperties, ElementOfSeq

LEMMA ActivitiesAre ==
  ASSUME NEW a \in AppType, NEW si, NEW requests
  PROVE  /\ ActivitiesFor(a, si, requests) \in Seq(Activity)
         /\ Range(ActivitiesFor(a, si, requests)) =
              {x \in Range(a.activities) : x.session = a.sessions[si].id /\ x.id \in requests}
<1> DEFINE set == {x \in Range(a.activities) : x.session = a.sessions[si].id /\ x.id \in requests}
<1>1. a.activities \in Seq(Activity)
  BY DEF AppType
<1>2. ActivitiesFor(a, si, requests) = Keeping(a.activities, set)
  BY DEF ActivitiesFor
<1>3. Range(a.activities) \cap set = set
  OBVIOUS
<1> HIDE DEF set
<1>4. /\ Keeping(a.activities, set) \in Seq(Activity)
      /\ Range(Keeping(a.activities, set)) = Range(a.activities) \cap set
  BY <1>1, KeepingIs
<1> QED BY <1>2, <1>3, <1>4 DEF set

LEMMA CommandRowsAre ==
  ASSUME NEW a \in AppType, NEW si
  PROVE  /\ CommandRows(a, si) \in Seq(RowKind)
         /\ Range(CommandRows(a, si)) =
              {<<"Activity", x.id>> : x \in {x \in Range(a.activities) :
                                       x.session = a.sessions[si].id /\ x.id \in ExecRequests}}
<1> DEFINE commands == ActivitiesFor(a, si, ExecRequests)
           rows == CommandRows(a, si)
           n == Len(commands)
<1>1. /\ commands \in Seq(Activity)
      /\ Range(commands) = {x \in Range(a.activities) :
                              x.session = a.sessions[si].id /\ x.id \in ExecRequests}
  BY ActivitiesAre
<1>2. rows = [k \in DOMAIN commands |-> <<"Activity", commands[k].id>>]
  BY DEF CommandRows
<1> HIDE DEF commands, rows
<1>3. n \in Nat /\ DOMAIN commands = 1 .. n /\ \A k \in 1 .. n : commands[k] \in Range(commands)
  BY <1>1, LenProperties DEF Range
<1> HIDE DEF n
<1>4. \A k \in 1 .. n : <<"Activity", commands[k].id>> \in RowKind
  BY <1>1, <1>3 DEF RowKind
<1>5. rows \in [1 .. n -> RowKind]
  BY <1>2, <1>3, <1>4
<1>6. rows \in Seq(RowKind)
  BY <1>3, <1>5, ListOf
<1>7. Range(rows) = {<<"Activity", x.id>> : x \in Range(commands)}
  BY <1>2 DEF Range
<1> QED BY <1>1, <1>6, <1>7 DEF rows

\* The rows of a group: its own, those of its session, and the settings.
GroupShows(a, g) ==
  {<<"Session", g>>, <<"Settings", a.session_groups[g].workspace_idx>>} \cup
  (IF a.session_groups[g].terminal = NoIndex THEN {}
   ELSE {<<"NetworkGroup", a.session_groups[g].terminal>>} \cup
        Range(CommandRows(a, a.session_groups[g].terminal)))

LEMMA GroupRowsAre ==
  ASSUME NEW a \in AppType, NEW g \in DOMAIN a.session_groups
  PROVE  GroupRows(a, g) \in Seq(RowKind) /\ Range(GroupRows(a, g)) = GroupShows(a, g)
<1> DEFINE group == a.session_groups[g]
           net == <<<<"NetworkGroup", group.terminal>>>>
           commands == CommandRows(a, group.terminal)
           below == IF group.terminal = NoIndex THEN <<>> ELSE net \o commands
           own == <<<<"Session", g>>>>
           settings == <<<<"Settings", group.workspace_idx>>>>
<1>1. g \in Nat /\ group \in Group
  BY AppIs
<1>2. commands \in Seq(RowKind)
  BY CommandRowsAre
<1>3. GroupRows(a, g) = own \o below \o settings
  BY DEF GroupRows
<1> DEFINE x == <<"Session", g>>
           y == <<"Settings", group.workspace_idx>>
           z == <<"NetworkGroup", group.terminal>>
<1>4. {x, y, z} \subseteq RowKind
  BY <1>1 DEF Group, RowKind
<1> HIDE DEF x, y, z, commands
<1>5. /\ own \in Seq(RowKind) /\ Range(own) = {x}
      /\ settings \in Seq(RowKind) /\ Range(settings) = {y}
      /\ net \in Seq(RowKind) /\ Range(net) = {z}
  BY <1>4, One DEF x, y, z
<1>6. below \in Seq(RowKind) /\ Range(below) = IF group.terminal = NoIndex THEN {} ELSE {z} \cup Range(commands)
  <2>1. CASE group.terminal = NoIndex
    BY <2>1, EmptySeq DEF Range
  <2>2. CASE group.terminal # NoIndex
    <3> HIDE DEF net
    <3>1. net \o commands \in Seq(RowKind) /\ Range(net \o commands) = Range(net) \cup Range(commands)
      BY <1>2, <1>5, Joined
    <3> QED BY <1>5, <2>2, <3>1
  <2> QED BY <2>1, <2>2
<1> HIDE DEF own, settings, net, below
<1> DEFINE most == own \o below
<1>7. most \in Seq(RowKind) /\ Range(most) = Range(own) \cup Range(below)
  BY <1>5, <1>6, Joined
<1> HIDE DEF most
<1>8. /\ most \o settings \in Seq(RowKind)
      /\ Range(most \o settings) = Range(most) \cup Range(settings)
  BY <1>5, <1>7, Joined
<1> QED BY <1>3, <1>5, <1>6, <1>7, <1>8 DEF most, GroupShows, x, y, z, commands

LEMMA LaunchRowsAre ==
  ASSUME NEW c \in Configs
  PROVE  /\ LaunchRows(c) \in Seq(RowKind)
         /\ Range(LaunchRows(c)) =
              IF c = <<>> THEN {}
              ELSE {<<"WorkspacesHeader", NoIndex>>} \cup {<<"Launch", pi>> : pi \in DOMAIN c}
<1> DEFINE n == Len(c)
           header == <<"WorkspacesHeader", NoIndex>>
           rows == [pi \in DOMAIN c |-> <<"Launch", pi>>]
<1>1. n \in Nat /\ DOMAIN c = 1 .. n
  BY ConfigIs
<1> HIDE DEF n
<1>2. header \in RowKind /\ \A pi \in 1 .. n : <<"Launch", pi>> \in RowKind
  BY <1>1 DEF RowKind, NoIndex
<1>3. rows \in [1 .. n -> RowKind] /\ Range(rows) = {<<"Launch", pi>> : pi \in DOMAIN c}
  BY <1>1, <1>2 DEF Range
<1>4. LaunchRows(c) = IF c = <<>> THEN <<>> ELSE <<header>> \o rows
  BY DEF LaunchRows
<1> HIDE DEF header, rows
<1>5. rows \in Seq(RowKind)
  BY <1>1, <1>3, ListOf
<1> DEFINE one == <<header>>
<1>6. one \in Seq(RowKind) /\ Range(one) = {header}
  BY <1>2, One
<1> HIDE DEF one
<1>7. one \o rows \in Seq(RowKind) /\ Range(one \o rows) = Range(one) \cup Range(rows)
  BY <1>5, <1>6, Joined
<1>8. <<>> \in Seq(RowKind) /\ Range(<<>>) = {}
  BY EmptySeq DEF Range
<1> QED BY <1>3, <1>4, <1>6, <1>7, <1>8 DEF header, one

\* The rows of the sidebar.
RowsShown(a, c, b) ==
  {<<"NewSession", NoIndex>>, <<"NewWorkspace", NoIndex>>}
    \cup (UNION {GroupShows(a, g) : g \in DOMAIN a.session_groups})
    \cup (IF b.ws \in DOMAIN c THEN {<<"Build", b.ws>>} ELSE {})
    \cup Range(LaunchRows(c))

LEMMA ItemsAre ==
  ASSUME NEW a \in AppType, NEW c \in Configs, NEW b
  PROVE  /\ SidebarItems(a, c, b) \in Seq(RowKind)
         /\ Range(SidebarItems(a, c, b)) = RowsShown(a, c, b)
         /\ Len(SidebarItems(a, c, b)) \in Nat \ {0}
         /\ DOMAIN SidebarItems(a, c, b) = 1 .. Len(SidebarItems(a, c, b))
<1> DEFINE new == <<"NewSession", NoIndex>>
           final == <<"NewWorkspace", NoIndex>>
           built == <<"Build", b.ws>>
           groups == [g \in DOMAIN a.session_groups |-> GroupRows(a, g)]
           x1 == <<new>>
           x2 == FlattenSeq(groups)
           x3 == IF b.ws \in DOMAIN c THEN <<built>> ELSE <<>>
           x4 == LaunchRows(c)
           x5 == <<final>>
<1>1. /\ new \in RowKind /\ final \in RowKind /\ (b.ws \in DOMAIN c => built \in RowKind)
  BY ConfigIs DEF RowKind, NoIndex
<1> HIDE DEF new, final, built
<1>2. x1 \in Seq(RowKind) /\ Range(x1) = {new} /\ x5 \in Seq(RowKind) /\ Range(x5) = {final}
  BY <1>1, One
<1>3. x3 \in Seq(RowKind) /\ Range(x3) = IF b.ws \in DOMAIN c THEN {built} ELSE {}
  BY <1>1, One, EmptySeq DEF Range
<1>4. x4 \in Seq(RowKind) /\ Range(x4) = Range(LaunchRows(c))
  BY LaunchRowsAre
<1>5. x2 \in Seq(RowKind) /\ Range(x2) = UNION {GroupShows(a, g) : g \in DOMAIN a.session_groups}
  <2> DEFINE n == Len(a.session_groups)
             R == Seq(RowKind)
  <2>1. n \in Nat /\ DOMAIN a.session_groups = 1 .. n
    BY AppIs
  <2> HIDE DEF n
  <2>2. groups \in [1 .. n -> R]
    BY <2>1, GroupRowsAre
  <2>3. \A g \in DOMAIN a.session_groups : Range(groups[g]) = GroupShows(a, g)
    BY GroupRowsAre
  <2>4. DOMAIN groups = DOMAIN a.session_groups
    OBVIOUS
  <2> HIDE DEF groups, R
  <2>5. groups \in Seq(R)
    BY <2>1, <2>2, ListOf
  <2>6. x2 \in Seq(RowKind) /\ Range(x2) = UNION {Range(groups[g]) : g \in DOMAIN groups}
    BY <2>5, Flattened DEF R
  <2> QED BY <2>3, <2>4, <2>6
<1>6. SidebarItems(a, c, b) = x1 \o x2 \o x3 \o x4 \o x5
  BY DEF SidebarItems, new, final, built
<1> HIDE DEF groups, x1, x2, x3, x4, x5
<1> DEFINE y2 == x1 \o x2
           y3 == y2 \o x3
           y4 == y3 \o x4
           y5 == y4 \o x5
<1>7. y2 \in Seq(RowKind) /\ Range(y2) = Range(x1) \cup Range(x2)
  BY <1>2, <1>5, Joined
<1> HIDE DEF y2
<1>8. y3 \in Seq(RowKind) /\ Range(y3) = Range(y2) \cup Range(x3)
  BY <1>3, <1>7, Joined
<1> HIDE DEF y3
<1>9. y4 \in Seq(RowKind) /\ Range(y4) = Range(y3) \cup Range(x4)
  BY <1>4, <1>8, Joined
<1> HIDE DEF y4
<1>10. y5 \in Seq(RowKind) /\ Range(y5) = Range(y4) \cup Range(x5)
  BY <1>2, <1>9, Joined
<1>11. SidebarItems(a, c, b) = y5
  BY <1>6 DEF y2, y3, y4
<1> HIDE DEF y5
<1> DEFINE U == UNION {GroupShows(a, g) : g \in DOMAIN a.session_groups}
           B == IF b.ws \in DOMAIN c THEN {built} ELSE {}
           L == Range(LaunchRows(c))
<1>11a. RowsShown(a, c, b) = {new, final} \cup U \cup B \cup L
  BY DEF RowsShown, new, final, built
<1>12. Range(y5) = RowsShown(a, c, b) /\ new \in Range(y5)
  <2>1. Range(x2) = U /\ Range(x3) = B /\ Range(x4) = L
    BY <1>3, <1>4, <1>5
  <2> HIDE DEF U, B, L
  <2> QED BY <1>2, <1>7, <1>8, <1>9, <1>10, <1>11a, <2>1
<1>13. Len(y5) \in Nat /\ DOMAIN y5 = 1 .. Len(y5)
  BY <1>10, LenProperties
<1>14. Len(y5) # 0
  BY <1>12, <1>13 DEF Range
<1> QED BY <1>10, <1>11, <1>12, <1>13, <1>14

\* What a row of the sidebar is about is there.
LEMMA RowIs ==
  ASSUME NEW a, GoodApp(a), NEW c \in Configs, NEW b, NEW row \in Range(SidebarItems(a, c, b))
  PROVE  /\ row \in RowKind
         /\ row[1] = "Session" => row[2] \in DOMAIN a.session_groups
         /\ row[1] = "NetworkGroup" => row[2] \in DOMAIN a.sessions
         /\ row[1] \in {"Launch", "Build"} => row[2] \in DOMAIN c
<1>1. row \in RowsShown(a, c, b) /\ row \in RowKind
  <2>1. /\ SidebarItems(a, c, b) \in Seq(RowKind)
        /\ Range(SidebarItems(a, c, b)) = RowsShown(a, c, b)
    BY ItemsAre DEF GoodApp
  <2> HIDE DEF SidebarItems
  <2> QED BY <2>1, OwnRange
<1>2. CASE row \in {<<"NewSession", NoIndex>>, <<"NewWorkspace", NoIndex>>}
  BY <1>1, <1>2
<1>3. CASE b.ws \in DOMAIN c /\ row = <<"Build", b.ws>>
  BY <1>1, <1>3
<1>4. CASE row \in Range(LaunchRows(c))
  BY <1>1, <1>4, LaunchRowsAre
<1>5. ASSUME NEW g \in DOMAIN a.session_groups, row \in GroupShows(a, g)
      PROVE  /\ row[1] = "Session" => row[2] \in DOMAIN a.session_groups
             /\ row[1] = "NetworkGroup" => row[2] \in DOMAIN a.sessions
             /\ row[1] \notin {"Launch", "Build"}
  <2>1. CASE row = <<"Session", g>> \/ row = <<"Settings", a.session_groups[g].workspace_idx>>
    BY <2>1
  <2>2. CASE a.session_groups[g].terminal # NoIndex /\ row = <<"NetworkGroup", a.session_groups[g].terminal>>
    BY <2>2 DEF GoodApp, Grouping
  <2>3. CASE row \in Range(CommandRows(a, a.session_groups[g].terminal))
    BY <2>3, CommandRowsAre DEF GoodApp
  <2> QED BY <1>5, <2>1, <2>2, <2>3 DEF GroupShows
<1>6. CASE row \in UNION {GroupShows(a, g) : g \in DOMAIN a.session_groups}
  <2>1. PICK g \in DOMAIN a.session_groups : row \in GroupShows(a, g)
    BY <1>6
  <2> QED BY <1>1, <1>5, <2>1
<1>7. \/ row \in {<<"NewSession", NoIndex>>, <<"NewWorkspace", NoIndex>>}
      \/ b.ws \in DOMAIN c /\ row = <<"Build", b.ws>>
      \/ row \in Range(LaunchRows(c))
      \/ row \in UNION {GroupShows(a, g) : g \in DOMAIN a.session_groups}
  BY <1>1 DEF RowsShown
<1> QED BY <1>2, <1>3, <1>4, <1>6, <1>7

-----------------------------------------------------------------------------
(* The cursor *)

LEMMA RestoreIs ==
  ASSUME NEW u \in UiType, NEW items \in Seq(RowKind), Len(items) # 0, NEW selected
  PROVE  \E i \in DOMAIN items :
           /\ RestoreSelection(u, selected, items) = [u EXCEPT !.sidebar_idx = i]
           /\ selected \in Range(items) => items[i] = selected
<1> DEFINE n == Len(items)
           idx == FirstIn(items, {selected})
<1>1. n \in Nat \ {0} /\ DOMAIN items = 1 .. n
  BY LenProperties
<1>2. /\ idx # 0 => idx \in DOMAIN items /\ items[idx] \in {selected}
      /\ idx = 0 <=> Range(items) \cap {selected} = {}
  BY FirstInIs
<1>3. RestoreSelection(u, selected, items) =
        IF idx # 0 THEN [u EXCEPT !.sidebar_idx = idx] ELSE RestoreInPlace(u, selected, items)
  BY DEF RestoreSelection, Position
<1> HIDE DEF idx, n
<1>4. CASE idx # 0
  BY <1>2, <1>3, <1>4
<1>5. CASE idx = 0
  <2> DEFINE k == IF u.sidebar_idx > Len(items) THEN Len(items) ELSE u.sidebar_idx
             i == IF Selectable(items[k]) THEN k ELSE 1
  <2>1. k \in 1 .. n /\ 1 \in 1 .. n
    BY <1>1 DEF UiType, n
  <2>2. i \in DOMAIN items
    BY <1>1, <2>1
  <2>3. RestoreSelection(u, selected, items) = [u EXCEPT !.sidebar_idx = i]
    BY <1>3, <1>5 DEF RestoreInPlace
  <2>4. selected \notin Range(items)
    BY <1>2, <1>5
  <2> QED BY <2>2, <2>3, <2>4
<1> QED BY <1>4, <1>5

\* The cursor put back is on a row, and nothing else of the interface moves.
LEMMA RestoredUi ==
  ASSUME NEW a \in AppType, NEW u, GoodUi(a, u), NEW c \in Configs, NEW b, NEW selected
  PROVE  LET items == SidebarItems(a, c, b)
             v == RestoreSelection(u, selected, items)
         IN  /\ GoodUi(a, v) /\ v.sidebar_idx \in DOMAIN items
             /\ v = [u EXCEPT !.sidebar_idx = v.sidebar_idx]
             /\ selected \in Range(items) => RowAt(items, v) = selected
<1> DEFINE items == SidebarItems(a, c, b)
<1>1. items \in Seq(RowKind) /\ Len(items) # 0 /\ Len(items) \in Nat /\ DOMAIN items = 1 .. Len(items)
  BY ItemsAre
<1>2. u \in UiType
  BY DEF GoodUi
<1> HIDE DEF items
<1>3. PICK i \in DOMAIN items :
           /\ RestoreSelection(u, selected, items) = [u EXCEPT !.sidebar_idx = i]
           /\ selected \in Range(items) => items[i] = selected
  BY <1>1, <1>2, RestoreIs
<1> DEFINE v == [u EXCEPT !.sidebar_idx = i]
<1>4. i \in Nat \ {0}
  BY <1>1
<1>5. GoodUi(a, v) /\ v.sidebar_idx = i
  BY <1>2, <1>4 DEF GoodUi, UiType
<1>6. v = [u EXCEPT !.sidebar_idx = v.sidebar_idx]
  BY <1>5
<1> HIDE DEF v
<1>7. selected \in Range(items) => RowAt(items, v) = selected
  BY <1>3, <1>5 DEF RowAt
<1> QED BY <1>3, <1>5, <1>6, <1>7 DEF v, items

-----------------------------------------------------------------------------
(* A session that closes *)

LEMMA GroupsClosed ==
  ASSUME NEW a, GoodApp(a), NEW si \in DOMAIN a.sessions
  PROVE  LET groups == RemoveTerminal(a.session_groups, si)
             n == Len(a.sessions)
         IN  /\ groups \in Seq(Group)
             /\ \A g \in DOMAIN groups : groups[g].terminal \in 1 .. n - 1
             /\ \A sj \in 1 .. n - 1 : \E g \in DOMAIN groups : groups[g].terminal = sj
             /\ \A g, h \in DOMAIN groups : groups[g].terminal = groups[h].terminal => g = h
<1> DEFINE n == Len(a.sessions)
           groups == a.session_groups
           m == Len(groups)
           f(t) == IF t = si THEN NoIndex ELSE IF t > si THEN t - 1 ELSE t
           shifted == [g \in DOMAIN groups |->
                         [groups[g] EXCEPT !.terminal = IF @ = si THEN NoIndex
                                                        ELSE IF @ > si THEN @ - 1 ELSE @]]
           set == {g \in Range(shifted) : g.terminal # NoIndex}
           kept == Keeping(shifted, set)
<1>1. /\ n \in Nat /\ DOMAIN a.sessions = 1 .. n /\ si \in 1 .. n
      /\ m \in Nat /\ DOMAIN groups = 1 .. m
      /\ \A g \in 1 .. m : groups[g] \in Group
      /\ \A g \in 1 .. m : groups[g].terminal \in 0 .. n
      /\ \A sj \in 1 .. n : \E g \in 1 .. m : groups[g].terminal = sj
      /\ \A g, h \in 1 .. m : groups[g].terminal # 0 /\ groups[g].terminal = groups[h].terminal => g = h
  <2>1. /\ n \in Nat /\ DOMAIN a.sessions = 1 .. n /\ m \in Nat /\ DOMAIN groups = 1 .. m
        /\ \A g \in DOMAIN groups : groups[g] \in Group
    BY AppIs DEF GoodApp
  <2>2. Grouping(a)
    BY DEF GoodApp
  <2> HIDE DEF n, m
  <2>3. \A g \in 1 .. m : groups[g].terminal \in {0} \cup 1 .. n
    BY <2>1, <2>2 DEF Grouping, NoIndex
  <2>4. \A t \in {0} \cup 1 .. n : t \in 0 .. n
    BY <2>1
  <2>5. \A sj \in 1 .. n : \E g \in 1 .. m : groups[g].terminal = sj
    BY <2>1, <2>2 DEF Grouping
  <2>6. \A g, h \in 1 .. m : groups[g].terminal # 0 /\ groups[g].terminal = groups[h].terminal => g = h
    BY <2>1, <2>2 DEF Grouping, NoIndex
  <2> QED BY <2>1, <2>3, <2>4, <2>5, <2>6
<1>2. RemoveTerminal(groups, si) = kept
  BY DEF RemoveTerminal
<1> HIDE DEF n, m, groups
<1>3. \A g \in 1 .. m : shifted[g] \in Group /\ shifted[g].terminal = f(groups[g].terminal)
  <2> TAKE g \in 1 .. m
  <2> DEFINE t == groups[g].terminal
             x == groups[g]
  <2>1. x \in Group /\ t \in 0 .. n /\ shifted[g] = [x EXCEPT !.terminal = f(t)]
    BY <1>1
  <2>2. f(t) \in Nat
    BY <1>1, <2>1 DEF NoIndex
  <2> HIDE DEF shifted, f, x
  <2>3. shifted[g].terminal = f(t) /\ shifted[g] \in Group
    BY <2>1, <2>2 DEF Group
  <2> QED BY <2>3 DEF x
<1>4. shifted \in [1 .. m -> Group]
  BY <1>1, <1>3
<1> HIDE DEF shifted, set
<1>5. shifted \in Seq(Group) /\ Len(shifted) = m /\ DOMAIN shifted = 1 .. m
  BY <1>1, <1>4, ListOf
<1>6a. PICK h \in [1 .. Len(kept) -> DOMAIN shifted] : AtPlaces(h, kept, shifted, set, kept, shifted)
  BY <1>5, KeepingAlike
<1>6. /\ \A i \in 1 .. Len(kept) : kept[i] = shifted[h[i]] /\ shifted[h[i]] \in set
      /\ \A i, j \in 1 .. Len(kept) : i < j => h[i] < h[j]
      /\ \A k \in DOMAIN shifted :
           shifted[k] \in set => \E i \in 1 .. Len(kept) : h[i] = k
  <2> HIDE DEF kept
  <2> QED BY <1>6a DEF AtPlaces
<1>7. kept \in Seq(Group) /\ Len(kept) \in Nat /\ DOMAIN kept = 1 .. Len(kept)
  BY <1>5, KeepingIs, LenProperties
<1> HIDE DEF kept
<1>8. \A g \in 1 .. m : shifted[g] \in set <=> shifted[g].terminal # NoIndex
  BY <1>5 DEF set, Range
<1>9. \A i \in 1 .. Len(kept) : /\ h[i] \in 1 .. m /\ kept[i].terminal = f(groups[h[i]].terminal)
                                /\ f(groups[h[i]].terminal) # 0
  BY <1>3, <1>5, <1>6, <1>8 DEF NoIndex
<1>10. ASSUME NEW g \in DOMAIN kept
       PROVE  kept[g].terminal \in 1 .. n - 1
  <2> DEFINE t == groups[h[g]].terminal
  <2>1. t \in 0 .. n /\ kept[g].terminal = f(t) /\ f(t) # 0
    BY <1>1, <1>7, <1>9
  <2> HIDE DEF t
  <2>2. f(t) \in 1 .. n - 1
    BY <1>1, <2>1 DEF NoIndex
  <2> QED BY <2>1, <2>2
<1>11. ASSUME NEW sj \in 1 .. n - 1
       PROVE  \E g \in DOMAIN kept : kept[g].terminal = sj
  <2> DEFINE t == IF sj < si THEN sj ELSE sj + 1
  <2>1. t \in 1 .. n /\ f(t) = sj /\ sj # 0
    BY <1>1
  <2> HIDE DEF t, f
  <2>2. PICK g \in 1 .. m : groups[g].terminal = t
    BY <1>1, <2>1
  <2>3. shifted[g] \in set
    BY <1>3, <1>8, <2>1, <2>2 DEF NoIndex
  <2>4. PICK i \in 1 .. Len(kept) : h[i] = g
    BY <1>5, <1>6, <2>3
  <2> QED BY <1>7, <1>9, <2>1, <2>2, <2>4
<1>12. ASSUME NEW g \in DOMAIN kept, NEW k \in DOMAIN kept, kept[g].terminal = kept[k].terminal
       PROVE  g = k
  <2>1. /\ groups[h[g]].terminal \in 0 .. n /\ groups[h[k]].terminal \in 0 .. n
        /\ h[g] \in 1 .. m /\ h[k] \in 1 .. m
    BY <1>1, <1>7, <1>9
  <2>2. f(groups[h[g]].terminal) = f(groups[h[k]].terminal) /\ f(groups[h[g]].terminal) # 0
    BY <1>7, <1>9, <1>12
  <2>3. groups[h[g]].terminal = groups[h[k]].terminal /\ groups[h[g]].terminal # 0
    <3> DEFINE t == groups[h[g]].terminal
               v == groups[h[k]].terminal
    <3>1. t \in 0 .. n /\ v \in 0 .. n /\ f(t) = f(v) /\ f(t) # 0
      BY <2>1, <2>2
    <3> HIDE DEF t, v
    <3>2. t = v /\ t # 0
      BY <1>1, <3>1 DEF NoIndex
    <3> QED BY <3>2 DEF t, v
  <2>4. h[g] = h[k]
    BY <1>1, <2>1, <2>3
  <2>5. ~(g < k) /\ ~(k < g) /\ g \in Nat /\ k \in Nat
    BY <1>6, <1>7, <2>1, <2>4
  <2> QED BY <2>5
<1> QED BY <1>2, <1>7, <1>10, <1>11, <1>12 DEF n, groups

LEMMA OverIs ==
  ASSUME NEW acts \in Seq(Activity), NEW set
  PROVE  [k \in DOMAIN acts |-> IF acts[k].id \in set
                                THEN [acts[k] EXCEPT !.over = TRUE, !.aged = FALSE]
                                ELSE acts[k]] \in Seq(Activity)
<1> DEFINE n == Len(acts)
           f == [k \in DOMAIN acts |-> IF acts[k].id \in set
                                THEN [acts[k] EXCEPT !.over = TRUE, !.aged = FALSE]
                                ELSE acts[k]]
<1>1. n \in Nat /\ DOMAIN acts = 1 .. n /\ \A k \in 1 .. n : acts[k] \in Activity
  BY LenProperties, ElementOfSeq
<1> HIDE DEF n
<1>2. f \in [1 .. n -> Activity]
  BY <1>1 DEF Activity
<1> HIDE DEF f
<1>3. f \in Seq(Activity)
  BY <1>1, <1>2, ListOf
<1> QED BY <1>3 DEF f

\* The lists after a session closed.
Bereft(a, si, mine, denied) ==
  [a EXCEPT !.pending_exec = Dropping(@, mine),
            !.pending_net = Dropping(@, mine),
            !.activities = [k \in DOMAIN @ |->
                IF @[k].id \in mine \cap denied
                THEN [@[k] EXCEPT !.over = TRUE, !.aged = FALSE] ELSE @[k]],
            !.session_groups = RemoveTerminal(@, si),
            !.sessions = RemoveAt(@, si)]

LEMMA ClosedApp ==
  ASSUME NEW a, GoodApp(a), NEW si \in DOMAIN a.sessions, NEW mine, NEW denied,
         NEW x, x = Bereft(a, si, mine, denied)
  PROVE  /\ GoodApp(x) /\ x.launched = a.launched
         /\ DOMAIN x.sessions = 1 .. Len(a.sessions) - 1
         /\ \A i \in DOMAIN x.sessions :
              x.sessions[i] = IF i < si THEN a.sessions[i] ELSE a.sessions[i + 1]
<1> DEFINE n == Len(a.sessions)
           pe == Dropping(a.pending_exec, mine)
           pn == Dropping(a.pending_net, mine)
           acts == [k \in DOMAIN a.activities |->
                      IF a.activities[k].id \in mine \cap denied
                      THEN [a.activities[k] EXCEPT !.over = TRUE, !.aged = FALSE]
                      ELSE a.activities[k]]
           groups == RemoveTerminal(a.session_groups, si)
           sessions == RemoveAt(a.sessions, si)
<1>1. /\ a \in AppType /\ a.sessions \in Seq(Opened) /\ a.activities \in Seq(Activity)
      /\ a.pending_exec \in Seq(Requests) /\ a.pending_net \in Seq(Requests) /\ a.launched \in Nat
  BY DEF GoodApp, AppType
<1>2. pe \in Seq(Requests) /\ pn \in Seq(Requests)
  BY <1>1, KeepingIs DEF Dropping
<1>3. acts \in Seq(Activity)
  BY <1>1, OverIs
<1>4. /\ groups \in Seq(Group)
      /\ \A g \in DOMAIN groups : groups[g].terminal \in 1 .. n - 1
      /\ \A sj \in 1 .. n - 1 : \E g \in DOMAIN groups : groups[g].terminal = sj
      /\ \A g, h \in DOMAIN groups : groups[g].terminal = groups[h].terminal => g = h
  BY GroupsClosed
<1>5. /\ sessions \in Seq(Opened) /\ Len(sessions) = n - 1
      /\ \A i \in 1 .. n - 1 : sessions[i] = IF i < si THEN a.sessions[i] ELSE a.sessions[i + 1]
  BY <1>1, RemoveAtIs
<1>6. x = [a EXCEPT !.pending_exec = pe, !.pending_net = pn, !.activities = acts,
                    !.session_groups = groups, !.sessions = sessions]
  BY DEF Bereft
<1> HIDE DEF n, pe, pn, acts, groups, sessions
<1>7. x \in AppType
  BY <1>1, <1>2, <1>3, <1>4, <1>5, <1>6 DEF AppType
<1>8. x.session_groups = groups /\ x.sessions = sessions /\ x.launched = a.launched
  BY <1>1, <1>6 DEF AppType
<1>9. DOMAIN sessions = 1 .. n - 1
  BY <1>5, LenProperties
<1>10. Grouping(x)
  <2>1. \A t \in 1 .. n - 1 : t \in DOMAIN sessions
    BY <1>9
  <2>2. /\ \A g \in DOMAIN groups : groups[g].terminal \in {NoIndex} \cup DOMAIN sessions
        /\ \A sj \in DOMAIN sessions : \E g \in DOMAIN groups : groups[g].terminal = sj
    BY <1>4, <1>9, <2>1
  <2> QED BY <1>4, <1>8, <2>2 DEF Grouping
<1> QED BY <1>5, <1>7, <1>8, <1>9, <1>10 DEF GoodApp, n

LEMMA ClosedUi ==
  ASSUME NEW a, GoodApp(a), NEW u, GoodUi(a, u), NEW si \in DOMAIN a.sessions,
         NEW x, GoodApp(x), x.launched = a.launched,
         DOMAIN x.sessions = 1 .. Len(a.sessions) - 1,
         \A i \in DOMAIN x.sessions :
              x.sessions[i] = IF i < si THEN a.sessions[i] ELSE a.sessions[i + 1]
  PROVE  /\ GoodUi(x, Remap(u, si))
         /\ Remap(u, si).active_session # NoIndex =>
              SessionIn(x, Remap(u, si).active_session) = SessionIn(a, u.active_session)
         /\ Remap(u, si).active_network_session # NoIndex =>
              SessionIn(x, Remap(u, si).active_network_session)
                = SessionIn(a, u.active_network_session)
<1> DEFINE n == Len(a.sessions)
           f(p) == IF p = si THEN NoIndex ELSE IF p > si THEN p - 1 ELSE p
           v == Remap(u, si)
<1>1. n \in Nat /\ DOMAIN a.sessions = 1 .. n /\ si \in 1 .. n
  BY AppIs DEF GoodApp
<1> HIDE DEF n
<1>2. /\ u \in UiType /\ u.active_session \in {0} \cup 1 .. n
      /\ u.active_network_session \in {0} \cup 1 .. n
      /\ u.log_fullscreen => u.remove_workspace_confirm = Nobody
  BY <1>1 DEF GoodUi, NoIndex
<1>3. ASSUME NEW p \in {0} \cup 1 .. n
      PROVE  /\ f(p) \in Nat /\ f(p) \in {NoIndex} \cup DOMAIN x.sessions
             /\ f(p) # NoIndex => SessionIn(x, f(p)) = SessionIn(a, p)
  <2>1. CASE p = 0 \/ p = si
    BY <1>1, <2>1 DEF NoIndex
  <2>2. CASE p \in 1 .. n /\ p < si
    <3>1. f(p) = p /\ p \in 1 .. n - 1
      BY <1>1, <2>2
    <3> QED BY <1>1, <2>2, <3>1 DEF SessionIn, n
  <2>3. CASE p \in 1 .. n /\ p > si
    <3>1. f(p) = p - 1 /\ p - 1 \in 1 .. n - 1 /\ ~(p - 1 < si) /\ p - 1 + 1 = p
      BY <1>1, <2>3
    <3>2. x.sessions[p - 1] = a.sessions[p - 1 + 1] /\ p - 1 \in DOMAIN x.sessions
      BY <3>1 DEF n
    <3>3. SessionIn(x, p - 1) = a.sessions[p].id /\ SessionIn(a, p) = a.sessions[p].id
      BY <1>1, <2>3, <3>1, <3>2 DEF SessionIn
    <3> HIDE DEF f
    <3> QED BY <1>1, <3>1, <3>2, <3>3
  <2> QED BY <1>1, <2>1, <2>2, <2>3
<1>4. /\ v = [u EXCEPT !.active_session = f(u.active_session),
                  !.active_network_session = f(u.active_network_session),
                  !.network_cursor = IF u.active_network_session = si THEN 0 ELSE @,
                  !.terminal_fullscreen = @ /\ u.active_session # si,
                  !.focus = IF u.active_session = si
                               \/ (@ = "Network" /\ u.active_network_session = si)
                            THEN "Sidebar" ELSE @]
  BY DEF Remap
<1> HIDE DEF v, f
<1>5. /\ v.active_session = f(u.active_session)
      /\ v.active_network_session = f(u.active_network_session)
      /\ v.log_fullscreen = u.log_fullscreen
      /\ v.remove_workspace_confirm = u.remove_workspace_confirm
  BY <1>2, <1>4 DEF UiType
<1>6. v \in UiType
  <2>1. f(u.active_session) \in Nat /\ f(u.active_network_session) \in Nat
    BY <1>2, <1>3
  <2>2. "Sidebar" \in Focuses /\ 0 \in Nat
    BY DEF Focuses
  <2> QED BY <1>2, <1>4, <2>1, <2>2 DEF UiType
<1>7. GoodUi(x, v)
  BY <1>2, <1>3, <1>5, <1>6 DEF GoodUi
<1> QED BY <1>2, <1>3, <1>5, <1>7 DEF v

\* A session that closes takes what is about it along; what names another
\* session goes on naming it.
LEMMA CloseIs ==
  ASSUME NEW st, Good(st), config \in Configs, NEW si \in DOMAIN st.a.sessions
  PROVE  LET y == CloseSession(st, si)
         IN  /\ Good(y) /\ Follows(st, y)
             /\ y.u.sidebar_idx \in DOMAIN SidebarItems(y.a, config, y.b)
<1> DEFINE mine == {r \in Requests : asked[r].by = st.a.sessions[si].id}
           denied == Range(st.a.pending_exec \o st.a.pending_net)
           x == Bereft(st.a, si, mine, denied)
           selected == RowAt(SidebarItems(st.a, config, st.b), st.u)
           moved == Remap(st.u, si)
           v == RestoreSelection(moved, selected, SidebarItems(x, config, st.b))
           y == CloseSession(st, si)
<1>1. y = [st EXCEPT !.a = x, !.u = v]
  BY DEF CloseSession, Bereft
<1>2. st \in State /\ GoodApp(st.a) /\ GoodUi(st.a, st.u)
  BY DEF Good
<1>2a. x = Bereft(st.a, si, mine, denied)
  OBVIOUS
<1> HIDE DEF mine, denied, x, selected
<1>3. /\ GoodApp(x) /\ x.launched = st.a.launched
      /\ DOMAIN x.sessions = 1 .. Len(st.a.sessions) - 1
      /\ \A i \in DOMAIN x.sessions :
           x.sessions[i] = IF i < si THEN st.a.sessions[i] ELSE st.a.sessions[i + 1]
  BY <1>2, <1>2a, ClosedApp
<1>4. /\ GoodUi(x, moved)
      /\ moved.active_session # NoIndex =>
           SessionIn(x, moved.active_session) = SessionIn(st.a, st.u.active_session)
      /\ moved.active_network_session # NoIndex =>
           SessionIn(x, moved.active_network_session) = SessionIn(st.a, st.u.active_network_session)
  BY <1>2, <1>3, ClosedUi
<1> HIDE DEF moved
<1>5. /\ GoodUi(x, v) /\ v.sidebar_idx \in DOMAIN SidebarItems(x, config, st.b)
      /\ v = [moved EXCEPT !.sidebar_idx = v.sidebar_idx]
  <2>1. x \in AppType
    BY <1>3 DEF GoodApp
  <2> QED BY <1>4, <2>1, RestoredUi
<1> HIDE DEF v
<1>6. /\ v.active_session = moved.active_session
      /\ v.active_network_session = moved.active_network_session
  BY <1>4, <1>5 DEF GoodUi, UiType
<1>7. y \in State /\ y.a = x /\ y.u = v /\ y.b = st.b
  BY <1>1, <1>2, <1>3, <1>5 DEF State, GoodApp, GoodUi
<1> HIDE DEF y
<1>8. Good(y)
  BY <1>3, <1>5, <1>7 DEF Good
<1>9. Follows(st, y)
  BY <1>4, <1>6, <1>7 DEF Follows
<1> QED BY <1>5, <1>7, <1>8, <1>9 DEF y

-----------------------------------------------------------------------------
(* Launches and builds *)

LEMMA PositionIs ==
  ASSUME NEW items \in Seq(RowKind), NEW row
  PROVE  /\ Position(items, row) \in Nat
         /\ Position(items, row) # 0 =>
              Position(items, row) \in DOMAIN items /\ items[Position(items, row)] = row
         /\ row \in Range(items) => Position(items, row) # 0
<1>1. Len(items) \in Nat
  BY LenProperties
<1> QED BY <1>1, FirstInIs DEF Position

\* Nothing is lost where the sessions stay and no pointer is set.
LEMMA Stays ==
  ASSUME NEW x, NEW y, \A p : SessionIn(y.a, p) = SessionIn(x.a, p),
         y.u.active_session \in {x.u.active_session, NoIndex},
         y.u.active_network_session \in {x.u.active_network_session, NoIndex}
  PROVE  Follows(x, y)
BY DEF Follows

LEMMA PromptedIs ==
  ASSUME NEW st, Good(st), NEW pi \in Nat
  PROVE  Good(Prompted(st, pi)) /\ Follows(st, Prompted(st, pi))
<1> DEFINE y == Prompted(st, pi)
           v == [st.u EXCEPT !.active_session = NoIndex, !.active_settings_workspace = NoIndex,
                             !.container_picker = <<"none", NoIndex>>, !.focus = "ImageBuild"]
           d == [st.b EXCEPT !.ws = pi, !.ctr = TRUE, !.done = Nobody]
<1>1. st \in State /\ GoodApp(st.a) /\ GoodUi(st.a, st.u) /\ st.u \in UiType /\ st.b \in BuildType
  BY DEF Good, GoodUi, State
<1>2. y = [st EXCEPT !.b = d, !.u = v]
  BY DEF Prompted
<1>3. d \in BuildType
  BY <1>1 DEF BuildType
<1>4. /\ v \in UiType /\ v.active_session = NoIndex
      /\ v.active_network_session = st.u.active_network_session
      /\ v.log_fullscreen = st.u.log_fullscreen
      /\ v.remove_workspace_confirm = st.u.remove_workspace_confirm
  BY <1>1 DEF UiType, NoIndex, Focuses
<1> HIDE DEF y, v, d
<1>5. y \in State /\ y.a = st.a /\ y.u = v
  BY <1>1, <1>2, <1>3, <1>4 DEF State
<1>6. GoodUi(st.a, v)
  BY <1>1, <1>4 DEF GoodUi
<1>7. Follows(st, y)
  BY <1>4, <1>5, Stays
<1> QED BY <1>1, <1>5, <1>6, <1>7 DEF Good, y

\* A container that did not start leaves its group.
LEMMA FailedIs ==
  ASSUME NEW st, Good(st), NEW pi \in Nat
  PROVE  Good(Failed(st, pi)) /\ Follows(st, Failed(st, pi))
<1> DEFINE y == Failed(st, pi)
           new == [workspace_idx |-> pi, terminal |-> NoIndex]
           groups == Append(st.a.session_groups, new)
           m == Len(st.a.session_groups)
           x == [st.a EXCEPT !.session_groups = groups, !.launched = @ + 1]
<1>1. /\ st \in State /\ GoodApp(st.a) /\ GoodUi(st.a, st.u)
      /\ st.a \in AppType /\ Grouping(st.a)
  BY DEF Good, GoodApp
<1>2. y = [st EXCEPT !.a = x]
  BY <1>1 DEF Failed, Grouped, State, AppType
<1>3. new \in Group
  BY DEF Group, NoIndex
<1>4. st.a.session_groups \in Seq(Group)
  BY <1>1 DEF AppType
<1>5. new.terminal = NoIndex
  OBVIOUS
<1> HIDE DEF new
<1>6. /\ groups \in Seq(Group) /\ m \in Nat /\ DOMAIN groups = 1 .. m + 1
      /\ DOMAIN st.a.session_groups = 1 .. m
      /\ \A g \in 1 .. m : groups[g] = st.a.session_groups[g]
      /\ groups[m + 1] = new
  <2>1. /\ groups \in Seq(Group) /\ Len(groups) = m + 1
        /\ \A g \in 1 .. m : groups[g] = st.a.session_groups[g]
        /\ groups[m + 1] = new
    BY <1>3, <1>4, AppendProperties
  <2>2. DOMAIN groups = 1 .. Len(groups) /\ m \in Nat /\ DOMAIN st.a.session_groups = 1 .. m
    BY <1>4, <2>1, LenProperties
  <2> HIDE DEF groups, m
  <2> QED BY <2>1, <2>2
<1> HIDE DEF groups, m
<1>7. /\ x \in AppType /\ x.sessions = st.a.sessions /\ x.session_groups = groups
  <2> DEFINE l == st.a.launched + 1
  <2>1. l \in Nat
    BY <1>1 DEF AppType
  <2>2. x = [st.a EXCEPT !.session_groups = groups, !.launched = l]
    OBVIOUS
  <2> HIDE DEF l, x
  <2> QED BY <1>1, <1>6, <2>1, <2>2 DEF AppType
<1> HIDE DEF x, y
<1>8. \A g \in 1 .. m + 1 : g \in 1 .. m \/ groups[g].terminal = NoIndex
  BY <1>5, <1>6
<1>9. Grouping(x)
  <2>1. \A g \in DOMAIN groups : groups[g].terminal \in {NoIndex} \cup DOMAIN x.sessions
    BY <1>1, <1>6, <1>7, <1>8 DEF Grouping
  <2>2. \A si \in DOMAIN x.sessions : \E g \in DOMAIN groups : groups[g].terminal = si
    <3>1. \A g \in 1 .. m : g \in 1 .. m + 1
      BY <1>6
    <3> QED BY <1>1, <1>6, <1>7, <3>1 DEF Grouping
  <2>3. \A g, h \in DOMAIN groups :
          groups[g].terminal # NoIndex /\ groups[g].terminal = groups[h].terminal => g = h
    BY <1>1, <1>6, <1>8 DEF Grouping
  <2> QED BY <1>7, <2>1, <2>2, <2>3 DEF Grouping
<1>10. y \in State /\ y.a = x /\ y.u = st.u
  BY <1>1, <1>2, <1>7 DEF State
<1>11. GoodUi(x, st.u)
  BY <1>1, <1>7 DEF GoodUi
<1>12. Follows(st, y)
  BY <1>7, <1>10, Stays DEF SessionIn
<1> QED BY <1>7, <1>9, <1>10, <1>11, <1>12 DEF Good, GoodApp, y

\* A session that starts has the focus, and the cursor.
LEMMA StartedIs ==
  ASSUME NEW st, Good(st), NEW c \in Configs, NEW pi \in DOMAIN c
  PROVE  Good(Started(st, c, pi)) /\ Follows(st, Started(st, c, pi))
<1> DEFINE y == Started(st, c, pi)
           n == Len(st.a.sessions)
           m == Len(st.a.session_groups)
           id == st.a.launched + 1
           new == [workspace_idx |-> pi, terminal |-> n + 1]
           opened == [id |-> id, ws |-> c[pi], exited |-> FALSE]
           groups == Append(st.a.session_groups, new)
           sessions == Append(st.a.sessions, opened)
           x == [st.a EXCEPT !.session_groups = groups, !.sessions = sessions, !.launched = id]
           at == Position(SidebarItems(x, c, st.b), <<"Session", m + 1>>)
           v == [st.u EXCEPT !.active_session = n + 1, !.focus = "Terminal", !.sidebar_idx = at]
<1>1. /\ st \in State /\ GoodApp(st.a) /\ GoodUi(st.a, st.u)
      /\ st.a \in AppType /\ Grouping(st.a) /\ st.u \in UiType
      /\ st.a.session_groups \in Seq(Group) /\ st.a.sessions \in Seq(Opened) /\ st.a.launched \in Nat
  BY DEF Good, GoodApp, GoodUi, AppType
<1>2. y = [st EXCEPT !.a = x, !.u = v]
  BY <1>1 DEF Started, Grouped, State, AppType
<1>3. n \in Nat /\ m \in Nat /\ DOMAIN st.a.sessions = 1 .. n /\ DOMAIN st.a.session_groups = 1 .. m
  BY <1>1, LenProperties
<1> HIDE DEF n, m
<1>4. new \in Group /\ new.terminal = n + 1 /\ opened \in Opened /\ opened.id = id
  <2>1. pi \in Nat /\ c[pi] \in Workspaces
    BY ConfigIs, ElementOfSeq
  <2> QED BY <1>1, <1>3, <2>1 DEF Group, Opened
<1> HIDE DEF new, opened
<1>6. /\ groups \in Seq(Group) /\ DOMAIN groups = 1 .. m + 1
      /\ \A g \in 1 .. m : groups[g] = st.a.session_groups[g]
      /\ groups[m + 1] = new
  <2>1. /\ groups \in Seq(Group) /\ Len(groups) = m + 1
        /\ \A g \in 1 .. m : groups[g] = st.a.session_groups[g]
        /\ groups[m + 1] = new
    BY <1>1, <1>4, AppendProperties DEF m
  <2>2. DOMAIN groups = 1 .. Len(groups)
    BY <2>1, LenProperties
  <2> HIDE DEF groups
  <2> QED BY <2>1, <2>2
<1>7. /\ sessions \in Seq(Opened) /\ DOMAIN sessions = 1 .. n + 1
      /\ \A i \in 1 .. n : sessions[i] = st.a.sessions[i]
      /\ sessions[n + 1] = opened
  <2>1. /\ sessions \in Seq(Opened) /\ Len(sessions) = n + 1
        /\ \A i \in 1 .. n : sessions[i] = st.a.sessions[i]
        /\ sessions[n + 1] = opened
    BY <1>1, <1>4, AppendProperties DEF n
  <2>2. DOMAIN sessions = 1 .. Len(sessions)
    BY <2>1, LenProperties
  <2> HIDE DEF sessions
  <2> QED BY <2>1, <2>2
<1> HIDE DEF groups, sessions
<1>8. /\ x \in AppType /\ x.sessions = sessions /\ x.session_groups = groups /\ x.launched = id
  <2>1. id \in Nat
    BY <1>1
  <2> HIDE DEF id
  <2> QED BY <1>1, <1>6, <1>7, <2>1 DEF AppType
<1> HIDE DEF x
<1>9. Grouping(x)
  <2>1. \A g \in 1 .. m + 1 : g \in 1 .. m \/ g = m + 1
    BY <1>3
  <2>2. \A i \in 1 .. n + 1 : i \in 1 .. n \/ i = n + 1
    BY <1>3
  <2>3. /\ \A g \in 1 .. m : g \in 1 .. m + 1
        /\ \A i \in {NoIndex} \cup 1 .. n : i \in {NoIndex} \cup 1 .. n + 1 /\ i # n + 1
        /\ m + 1 \in 1 .. m + 1 /\ n + 1 \in 1 .. n + 1
    BY <1>3 DEF NoIndex
  <2>4. \A g \in 1 .. m : groups[g].terminal \in {NoIndex} \cup 1 .. n
    BY <1>1, <1>3, <1>6 DEF Grouping
  <2>5. groups[m + 1].terminal = n + 1
    BY <1>4, <1>6
  <2>6. \A g \in 1 .. m + 1 : groups[g].terminal \in {NoIndex} \cup 1 .. n + 1
    BY <2>1, <2>3, <2>4, <2>5
  <2>7. \A i \in 1 .. n + 1 : \E g \in 1 .. m + 1 : groups[g].terminal = i
    <3> TAKE i \in 1 .. n + 1
    <3>1. CASE i \in 1 .. n
      BY <1>1, <1>3, <1>6, <2>3, <3>1 DEF Grouping
    <3>2. CASE i = n + 1
      BY <2>3, <2>5, <3>2
    <3> QED BY <2>2, <3>1, <3>2
  <2>8. \A g, h \in 1 .. m + 1 :
          groups[g].terminal # NoIndex /\ groups[g].terminal = groups[h].terminal => g = h
    <3> TAKE g, h \in 1 .. m + 1
    <3>1. CASE g \in 1 .. m /\ h \in 1 .. m
      BY <1>1, <1>3, <1>6, <3>1 DEF Grouping
    <3>2. CASE g \in 1 .. m /\ h = m + 1
      BY <2>3, <2>4, <2>5, <3>2
    <3>3. CASE g = m + 1 /\ h \in 1 .. m
      BY <2>3, <2>4, <2>5, <3>3
    <3> QED BY <2>1, <3>1, <3>2, <3>3
  <2> QED BY <1>6, <1>7, <1>8, <2>6, <2>7, <2>8 DEF Grouping
<1>10. at \in Nat \ {0}
  <2> DEFINE items == SidebarItems(x, c, st.b)
             row == <<"Session", m + 1>>
  <2>1. items \in Seq(RowKind) /\ Range(items) = RowsShown(x, c, st.b)
    BY <1>8, ItemsAre
  <2>2. m + 1 \in DOMAIN x.session_groups
    BY <1>3, <1>6, <1>8
  <2>3. row \in GroupShows(x, m + 1)
    BY DEF GroupShows
  <2>4. row \in RowsShown(x, c, st.b)
    BY <2>2, <2>3 DEF RowsShown
  <2> HIDE DEF items, row
  <2>5. Position(items, row) # 0 /\ Position(items, row) \in Nat
    BY <2>1, <2>4, PositionIs
  <2> QED BY <2>5 DEF items, row
<1> HIDE DEF at
<1>11. /\ v \in UiType /\ v.active_session = n + 1
       /\ v.active_network_session = st.u.active_network_session
       /\ v.log_fullscreen = st.u.log_fullscreen
       /\ v.remove_workspace_confirm = st.u.remove_workspace_confirm
  <2> DEFINE s == n + 1
  <2>1. s \in Nat /\ "Terminal" \in Focuses
    BY <1>3 DEF Focuses
  <2>2. v = [st.u EXCEPT !.active_session = s, !.focus = "Terminal", !.sidebar_idx = at]
    OBVIOUS
  <2> HIDE DEF s, v
  <2>3. /\ v \in UiType /\ v.active_session = s
        /\ v.active_network_session = st.u.active_network_session
        /\ v.log_fullscreen = st.u.log_fullscreen
        /\ v.remove_workspace_confirm = st.u.remove_workspace_confirm
    BY <1>1, <1>10, <2>1, <2>2 DEF UiType
  <2> QED BY <2>3 DEF s
<1> HIDE DEF v, y
<1>12. y \in State /\ y.a = x /\ y.u = v
  BY <1>1, <1>2, <1>8, <1>11 DEF State
<1>13. \A i \in 1 .. n : i \in 1 .. n + 1
  BY <1>3
<1>14. st.u.active_network_session \in {NoIndex} \cup 1 .. n /\ n + 1 \in 1 .. n + 1
  BY <1>1, <1>3 DEF GoodUi
<1>15. GoodUi(x, v)
  BY <1>1, <1>7, <1>8, <1>11, <1>13, <1>14 DEF GoodUi
<1>16. Follows(st, y)
  <2>1. SessionIn(x, n + 1) = id
    BY <1>4, <1>7, <1>8, <1>14 DEF SessionIn
  <2>2. id \in st.a.launched + 1 .. id
    BY <1>1
  <2>3. \A p \in 1 .. n : SessionIn(x, p) = SessionIn(st.a, p)
    BY <1>3, <1>7, <1>8, <1>13 DEF SessionIn
  <2> HIDE DEF id
  <2> QED BY <1>8, <1>11, <1>12, <1>14, <2>1, <2>2, <2>3 DEF Follows
<1> QED BY <1>8, <1>9, <1>12, <1>15, <1>16 DEF Good, GoodApp, y

LEMMA LaunchIs ==
  ASSUME NEW st, Good(st), NEW c \in Configs, NEW pi, NEW y \in LaunchOutcomes(st, c, pi)
  PROVE  Good(y) /\ Follows(st, y)
<1>1. CASE y = st
  BY <1>1, Stays
<1>2. CASE pi \in DOMAIN c /\ y = Prompted(st, pi)
  BY <1>2, ConfigIs, PromptedIs
<1>3. CASE pi \in DOMAIN c /\ y = Failed(st, pi)
  BY <1>3, ConfigIs, FailedIs
<1>4. CASE pi \in DOMAIN c /\ y = Started(st, c, pi)
  BY <1>4, StartedIs
<1> QED BY <1>1, <1>2, <1>3, <1>4 DEF LaunchOutcomes

LEMMA StartBuildIs ==
  ASSUME NEW st, Good(st), NEW c \in Configs, NEW pi \in DOMAIN c
  PROVE  Good(StartBuild(st, c, pi)) /\ Follows(st, StartBuild(st, c, pi))
<1> DEFINE y == StartBuild(st, c, pi)
           d == [st.b EXCEPT !.task = <<pi, c[pi]>>, !.done = Nobody, !.stop = FALSE,
                             !.ws = IF @ = NoIndex THEN pi ELSE @]
           idx == Position(SidebarItems(st.a, c, d), <<"Build", d.ws>>)
           v == [st.u EXCEPT !.active_session = NoIndex, !.focus = "ImageBuild",
                             !.sidebar_idx = IF idx # 0 THEN idx ELSE @]
<1>1. /\ st \in State /\ GoodApp(st.a) /\ GoodUi(st.a, st.u) /\ st.a \in AppType
      /\ st.u \in UiType /\ st.b \in BuildType
  BY DEF Good, GoodApp, GoodUi, State
<1>2. y = [st EXCEPT !.b = d, !.u = v]
  BY DEF StartBuild
<1>3. d \in BuildType
  <2>1. pi \in Nat /\ c[pi] \in Workspaces
    BY ConfigIs, ElementOfSeq
  <2> QED BY <1>1, <2>1 DEF BuildType, NoIndex
<1> HIDE DEF d
<1>4. idx \in Nat
  BY <1>1, ItemsAre, PositionIs
<1> HIDE DEF idx
<1>5. /\ v \in UiType /\ v.active_session = NoIndex
      /\ v.active_network_session = st.u.active_network_session
      /\ v.log_fullscreen = st.u.log_fullscreen
      /\ v.remove_workspace_confirm = st.u.remove_workspace_confirm
  BY <1>1, <1>4 DEF UiType, NoIndex, Focuses
<1> HIDE DEF y, v
<1>6. y \in State /\ y.a = st.a /\ y.u = v
  BY <1>1, <1>2, <1>3, <1>5 DEF State
<1>7. GoodUi(st.a, v)
  BY <1>1, <1>5 DEF GoodUi
<1>8. Follows(st, y)
  BY <1>5, <1>6, Stays
<1> QED BY <1>1, <1>6, <1>7, <1>8 DEF Good, y

LEMMA FocusedIs ==
  ASSUME NEW st, Good(st), NEW focus \in Focuses
  PROVE  LET y == [st EXCEPT !.u.focus = focus] IN Good(y) /\ Follows(st, y)
<1> DEFINE y == [st EXCEPT !.u.focus = focus]
           v == [st.u EXCEPT !.focus = focus]
<1>1. st \in State /\ GoodApp(st.a) /\ GoodUi(st.a, st.u) /\ st.u \in UiType
  BY DEF Good, GoodUi
<1>2. y = [st EXCEPT !.u = v]
  BY <1>1 DEF State
<1>3. /\ v \in UiType /\ v.active_session = st.u.active_session
      /\ v.active_network_session = st.u.active_network_session
      /\ v.log_fullscreen = st.u.log_fullscreen
      /\ v.remove_workspace_confirm = st.u.remove_workspace_confirm
  BY <1>1 DEF UiType
<1> HIDE DEF y, v
<1>4. y \in State /\ y.a = st.a /\ y.u = v
  BY <1>1, <1>2, <1>3 DEF State
<1>5. GoodUi(st.a, v) /\ Follows(st, y)
  BY <1>1, <1>3, <1>4, Stays DEF GoodUi
<1> QED BY <1>1, <1>4, <1>5 DEF Good, y

LEMMA RunBuildIs ==
  ASSUME NEW st, Good(st), NEW c \in Configs, NEW selected, NEW y \in RunBuild(st, c, selected)
  PROVE  Good(y) /\ Follows(st, y)
<1> DEFINE target == IF st.b.ws # NoIndex THEN st.b.ws ELSE selected
<1>1. CASE y = st
  BY <1>1, Stays
<1>2. CASE y = [st EXCEPT !.u.focus = "ImageBuild"]
  BY <1>2, FocusedIs DEF Focuses
<1>3. CASE target \in DOMAIN c /\ y = StartBuild(st, c, target)
  <2> HIDE DEF target
  <2> QED BY <1>3, StartBuildIs
<1> QED BY <1>1, <1>2, <1>3 DEF RunBuild

-----------------------------------------------------------------------------
(* The invariant *)

\* What a row means to a reader.
Meanings ==
  RowKind \cup {Nobody} \cup ({"group", "session", "network"} \X Nat)
    \cup ({"Settings", "Launch", "Build"} \X (Workspaces \cup {Nobody}))

TurnType ==
  [at : 0 .. KeyStage, selected : RowKind \cup {Nobody}, meant : Meanings, events : Nat,
   keys : Nat, calm : BOOLEAN, changed : BOOLEAN]

Lasting == config \in Configs /\ Good(Whole) /\ asked \in AskedType /\ cut \subseteq Requests
Sound ==
  /\ Lasting /\ turn \in TurnType
  /\ turn.at = KeyStage => ui.sidebar_idx \in DOMAIN Items

LEMMA WholeIs ==
  ASSUME Lasting
  PROVE  /\ Whole.a = app /\ Whole.u = ui /\ Whole.b = build /\ Whole \in State
         /\ app \in AppType /\ GoodApp(app) /\ ui \in UiType /\ GoodUi(app, ui)
         /\ build \in BuildType
<1>1. Whole.a = app /\ Whole.u = ui /\ Whole.b = build
  BY DEF Whole
<1>2. Good(Whole)
  BY DEF Lasting
<1> QED BY <1>1, <1>2 DEF Good, State, GoodApp, GoodUi

LEMMA BecomesIs ==
  ASSUME NEW y, Good(y), Becomes(y)
  PROVE  Whole' = y /\ Good(Whole')
BY DEF Good, Becomes, Whole, State

\* A state of the interface from its three parts.
LEMMA WholeMade ==
  ASSUME NEW x, GoodApp(x), NEW v, GoodUi(x, v), NEW d \in BuildType,
         NEW y, y = [a |-> x, u |-> v, b |-> d]
  PROVE  Good(y) /\ y.a = x /\ y.u = v /\ y.b = d
BY DEF Good, State, GoodApp, GoodUi

\* The lists change, the sessions keep their places and numbers.
LEMMA ListsChange ==
  ASSUME NEW a, GoodApp(a), NEW u, GoodUi(a, u), NEW x \in AppType,
         x.session_groups = a.session_groups, DOMAIN x.sessions = DOMAIN a.sessions,
         \A si \in DOMAIN a.sessions : x.sessions[si].id = a.sessions[si].id
  PROVE  GoodApp(x) /\ GoodUi(x, u) /\ \A p : SessionIn(x, p) = SessionIn(a, p)
<1>1. Grouping(x)
  BY DEF GoodApp, Grouping
<1>2. GoodUi(x, u)
  BY DEF GoodUi
<1> QED BY <1>1, <1>2 DEF GoodApp, SessionIn

\* Only the lists change.
LEMMA AppMoves ==
  ASSUME Lasting, app' \in AppType, ui' = ui, build' = build,
         app'.session_groups = app.session_groups, DOMAIN app'.sessions = DOMAIN app.sessions,
         \A si \in DOMAIN app.sessions : app'.sessions[si].id = app.sessions[si].id
  PROVE  Good(Whole') /\ Follows(Whole, Whole')
<1>1. Whole.a = app /\ Whole.u = ui /\ GoodApp(app) /\ GoodUi(app, ui) /\ build \in BuildType
  BY WholeIs
<1>2. GoodApp(app') /\ GoodUi(app', ui) /\ \A p : SessionIn(app', p) = SessionIn(app, p)
  BY <1>1, ListsChange
<1>3. Whole' = [a |-> app', u |-> ui, b |-> build]
  BY DEF Whole
<1>4. Good(Whole') /\ Whole'.a = app' /\ Whole'.u = ui
  BY <1>1, <1>2, <1>3, WholeMade
<1>5. Follows(Whole, Whole')
  BY <1>1, <1>2, <1>4, Stays
<1> QED BY <1>4, <1>5

\* Only the pointers change.
LEMMA UiMoves ==
  ASSUME Lasting, app' = app, GoodUi(app, ui'), build' \in BuildType
  PROVE  Good(Whole') /\ Whole'.a = app /\ Whole'.u = ui'
<1>1. GoodApp(app)
  BY WholeIs
<1>2. Whole' = [a |-> app, u |-> ui', b |-> build']
  BY DEF Whole
<1> QED BY <1>1, <1>2, WholeMade

-----------------------------------------------------------------------------
(* The channels *)

LEMMA StageIs ==
  ASSUME turn \in TurnType, NEW stage \in 0 .. KeyStage
  PROVE  Going(stage) \in TurnType /\ Redrawing(stage) \in TurnType /\ Drained(stage) \in TurnType
<1>1. Going(stage) \in TurnType
  BY DEF Going, TurnType
<1>2. Redrawing(stage) \in TurnType
  BY <1>1 DEF Redrawing, TurnType
<1>3. Redrawing(stage).events + 1 \in Nat
  BY <1>2 DEF TurnType
<1>4. Drained(stage) \in TurnType
  BY <1>2, <1>3 DEF Drained, TurnType
<1> QED BY <1>1, <1>2, <1>4

\* What each step of the drain keeps, and what it does to the frame.
Persists == Lasting' /\ Follows(Whole, Whole') /\ turn' \in TurnType
Unseen == turn'.at # KeyStage /\ turn'.changed

LEMMA StageUnseen ==
  ASSUME turn \in TurnType, NEW stage \in 0 .. StopStage
  PROVE  /\ Drained(stage) \in TurnType /\ Drained(stage).changed /\ Drained(stage).at = stage
         /\ Redrawing(stage) \in TurnType /\ Redrawing(stage).changed /\ Redrawing(stage).at = stage
         /\ stage # KeyStage
         /\ Drained(stage).selected = turn.selected /\ Drained(stage).meant = turn.meant
         /\ Drained(stage).calm = turn.calm
         /\ Redrawing(stage).selected = turn.selected /\ Redrawing(stage).meant = turn.meant
         /\ Redrawing(stage).calm = turn.calm
<1>1. stage \in 0 .. KeyStage /\ stage # KeyStage
  BY DEF StopStage, KeyStage
<1>2. Redrawing(stage) \in TurnType /\ Drained(stage) \in TurnType
  BY <1>1, StageIs
<1>3. /\ Redrawing(stage).changed /\ Redrawing(stage).at = stage
      /\ Redrawing(stage).selected = turn.selected /\ Redrawing(stage).meant = turn.meant
      /\ Redrawing(stage).calm = turn.calm
  BY DEF TurnType, Redrawing, Going
<1>4. /\ Drained(stage).changed /\ Drained(stage).at = stage
      /\ Drained(stage).selected = turn.selected /\ Drained(stage).meant = turn.meant
      /\ Drained(stage).calm = turn.calm
  BY <1>2, <1>3 DEF TurnType, Drained
<1> QED BY <1>1, <1>2, <1>3, <1>4

LEMMA QueueMoves ==
  ASSUME NEW a \in AppType, NEW pe \in Seq(Requests), NEW pn \in Seq(Requests)
  PROVE  LET x == [a EXCEPT !.pending_exec = pe, !.pending_net = pn]
         IN  /\ x \in AppType /\ x.session_groups = a.session_groups /\ x.sessions = a.sessions
             /\ x.activities = a.activities /\ x.launched = a.launched
BY DEF AppType

LEMMA ArrivesKeeps ==
  ASSUME Sound, NEW r \in Requests, NEW pending \in {"pending_exec", "pending_net"},
         Arrives(r, pending), UNCHANGED <<config, ui, build, cut>>
  PROVE  Lasting' /\ Follows(Whole, Whole')
<1>1. Lasting /\ app \in AppType
  BY WholeIs DEF Sound
<1> DEFINE list == Append(app[pending], r)
<1>2. list \in Seq(Requests)
  <2>1. app[pending] \in Seq(Requests)
    BY <1>1 DEF AppType
  <2> QED BY <2>1, AppendProperties
<1>3. app' = [app EXCEPT ![pending] = list]
  BY DEF Arrives
<1> HIDE DEF list
<1>4. app' \in AppType /\ app'.session_groups = app.session_groups /\ app'.sessions = app.sessions
  BY <1>1, <1>2, <1>3 DEF AppType
<1>5. Good(Whole') /\ Follows(Whole, Whole')
  BY <1>1, <1>4, AppMoves
<1>6. asked' \in AskedType
  BY <1>1 DEF Lasting, AskedType, Arrives
<1> QED BY <1>1, <1>5, <1>6 DEF Lasting

LEMMA ArriveKeeps ==
  ASSUME Sound, NEW r \in Requests, ArriveExec(r) \/ ArriveNet(r)
  PROVE  Persists /\ Unseen
<1>1. turn \in TurnType
  BY DEF Sound
<1>2. CASE ArriveExec(r)
  <2>1. Lasting' /\ Follows(Whole, Whole') /\ turn' = Drained(ExecStage)
    BY <1>2, ArrivesKeeps DEF ArriveExec
  <2> QED BY <1>1, <2>1, StageUnseen DEF Persists, Unseen, ExecStage, StopStage, KeyStage
<1>3. CASE ArriveNet(r)
  <2>1. Lasting' /\ Follows(Whole, Whole') /\ turn' = Drained(NetStage)
    BY <1>3, ArrivesKeeps DEF ArriveNet
  <2> QED BY <1>1, <2>1, StageUnseen DEF Persists, Unseen, NetStage, StopStage, KeyStage
<1> QED BY <1>2, <1>3

\* A build's own fields change.
LEMMA BuildMoves ==
  ASSUME NEW st, Good(st), NEW d \in BuildType
  PROVE  LET y == [st EXCEPT !.b = d] IN Good(y) /\ y.a = st.a /\ y.u = st.u
<1>1. [st EXCEPT !.b = d] = [a |-> st.a, u |-> st.u, b |-> d]
  BY DEF Good, State
<1> QED BY <1>1 DEF Good, State

LEMMA RequestLaunchKeeps ==
  ASSUME Sound, NEW c \in Configs, NEW w \in Workspaces, RequestLaunch(c, w)
  PROVE  Persists /\ Unseen
<1> DEFINE pi == Named(c, w)
           d == [build EXCEPT !.ws = pi, !.ctr = TRUE]
           opened == [Whole EXCEPT !.b.ws = pi, !.b.ctr = TRUE]
           final(st) == [st EXCEPT !.b.cli = IF st.b.task = Nobody THEN NoIndex ELSE pi]
<1>1. /\ Lasting /\ Good(Whole) /\ turn \in TurnType /\ Whole \in State
      /\ Whole.b = build /\ build \in BuildType
  BY WholeIs DEF Sound, Lasting
<1>2. pi \in Nat
  <2>1. c \in Seq(Workspaces) /\ Len(c) \in Nat
    BY ConfigIs
  <2>2. pi \in 0 .. Len(c)
    BY <2>1, FirstInIs DEF Named, Position
  <2> QED BY <2>1, <2>2
<1> HIDE DEF pi
<1>3. Good(opened) /\ opened.a = app /\ opened.u = ui
  <2>1. d \in BuildType
    BY <1>1, <1>2 DEF BuildType
  <2>2. opened = [Whole EXCEPT !.b = d]
    BY <1>1 DEF State, BuildType
  <2> HIDE DEF d, opened
  <2>3. Whole.a = app /\ Whole.u = ui
    BY DEF Whole
  <2> QED BY <1>1, <2>1, <2>2, <2>3, BuildMoves
<1>4. /\ config' = c
      /\ \/ Becomes(Whole)
         \/ \E st \in LaunchOutcomes(Whole, c, pi) : Becomes(st)
         \/ \E st \in RunBuild(opened, c, NoIndex) : Becomes(final(st))
      /\ turn' = [Drained(LaunchStage) EXCEPT !.calm = @ /\ c = config]
      /\ UNCHANGED <<asked, cut>>
  BY DEF RequestLaunch, pi
<1> HIDE DEF opened
<1>5. Good(Whole') /\ Follows(Whole, Whole')
  <2>1. CASE Becomes(Whole)
    BY <1>1, <2>1, BecomesIs, Stays
  <2>2. CASE \E st \in LaunchOutcomes(Whole, c, pi) : Becomes(st)
    BY <1>1, <2>2, LaunchIs, BecomesIs
  <2>3. CASE \E st \in RunBuild(opened, c, NoIndex) : Becomes(final(st))
    <3>1. PICK st \in RunBuild(opened, c, NoIndex) : Becomes(final(st))
      BY <2>3
    <3>2. Good(st) /\ Follows(opened, st)
      BY <1>3, RunBuildIs
    <3> DEFINE e == [st.b EXCEPT !.cli = IF st.b.task = Nobody THEN NoIndex ELSE pi]
               y == final(st)
    <3>3. e \in BuildType /\ y = [st EXCEPT !.b = e]
      BY <1>2, <3>2 DEF Good, State, BuildType, NoIndex
    <3> HIDE DEF e, y
    <3>4. Good(y) /\ y.a = st.a /\ y.u = st.u
      BY <3>2, <3>3, BuildMoves
    <3>5. Whole' = y
      BY <3>1, <3>4, BecomesIs DEF y
    <3>6. Whole.a = app /\ Whole.u = ui
      BY DEF Whole
    <3> QED BY <1>3, <3>2, <3>4, <3>5, <3>6 DEF Follows
  <2> QED BY <1>4, <2>1, <2>2, <2>3
<1>6. /\ turn' \in TurnType /\ turn'.changed /\ turn'.at # KeyStage
  <2>1. /\ Drained(LaunchStage) \in TurnType /\ Drained(LaunchStage).changed
        /\ Drained(LaunchStage).at = LaunchStage /\ LaunchStage # KeyStage
    BY <1>1, StageUnseen DEF LaunchStage, StopStage, KeyStage
  <2> QED BY <1>4, <2>1 DEF TurnType
<1> QED BY <1>1, <1>4, <1>5, <1>6 DEF Persists, Unseen, Lasting

\* The cursor moves.
LEMMA CursorMoves ==
  ASSUME NEW x, NEW y, \A p : SessionIn(y.a, p) = SessionIn(x.a, p), NEW i,
         y.u = [x.u EXCEPT !.sidebar_idx = i], x.u \in UiType
  PROVE  Follows(x, y)
<1>1. /\ y.u.active_session = x.u.active_session
      /\ y.u.active_network_session = x.u.active_network_session
  BY DEF UiType
<1> QED BY <1>1, Stays

LEMMA RefreshKeeps ==
  ASSUME Sound, NEW c \in Configs, Refresh(c)
  PROVE  Persists /\ Unseen
<1>1. /\ Lasting /\ turn \in TurnType /\ GoodUi(app, ui) /\ app \in AppType /\ ui \in UiType
      /\ build \in BuildType /\ Whole.a = app /\ Whole.u = ui
  BY WholeIs DEF Sound
<1>2. /\ ui' = RestoreSelection(ui, Row, SidebarItems(app, c, build))
      /\ app' = app /\ build' = build /\ config' = c
      /\ turn' = [Drained(RefreshStage) EXCEPT !.calm = @ /\ c = config]
      /\ UNCHANGED <<asked, cut>>
  BY DEF Refresh
<1>3. GoodUi(app, ui') /\ ui' = [ui EXCEPT !.sidebar_idx = ui'.sidebar_idx]
  BY <1>1, <1>2, RestoredUi
<1>4. Good(Whole') /\ Whole'.a = app /\ Whole'.u = ui'
  BY <1>1, <1>2, <1>3, UiMoves
<1>5. Follows(Whole, Whole')
  BY <1>1, <1>3, <1>4, CursorMoves
<1>6. /\ turn' \in TurnType /\ turn'.changed /\ turn'.at # KeyStage
  <2>1. /\ Drained(RefreshStage) \in TurnType /\ Drained(RefreshStage).changed
        /\ Drained(RefreshStage).at = RefreshStage /\ RefreshStage # KeyStage
    BY <1>1, StageUnseen DEF RefreshStage, StopStage, KeyStage
  <2> QED BY <1>2, <2>1 DEF TurnType
<1> QED BY <1>1, <1>2, <1>4, <1>5, <1>6 DEF Persists, Unseen, Lasting

LEMMA PruneCutKeeps ==
  ASSUME Sound, PruneCut
  PROVE  Persists /\ Unseen
<1>1. Lasting /\ turn \in TurnType /\ app \in AppType
  BY WholeIs DEF Sound
<1>2. Uncut(app.pending_net) \in Seq(Requests) /\ app.pending_exec \in Seq(Requests)
  BY <1>1, KeepingIs DEF AppType, Uncut, Dropping
<1>3. app' = [app EXCEPT !.pending_exec = app.pending_exec, !.pending_net = Uncut(app.pending_net)]
  BY <1>1 DEF PruneCut, AppType
<1>4. app' \in AppType /\ app'.session_groups = app.session_groups /\ app'.sessions = app.sessions
  BY <1>1, <1>2, <1>3, QueueMoves
<1>5. Good(Whole') /\ Follows(Whole, Whole')
  BY <1>1, <1>4, AppMoves DEF PruneCut
<1>6. turn' = Redrawing(CutStage)
  BY DEF PruneCut
<1>7. turn' \in TurnType /\ turn'.changed /\ turn'.at # KeyStage
  BY <1>1, <1>6, StageUnseen DEF CutStage, StopStage, KeyStage
<1> QED BY <1>1, <1>5, <1>7 DEF Persists, Unseen, Lasting, PruneCut

LEMMA DecideElsewhereKeeps ==
  ASSUME Sound, NEW r, DecideElsewhere(r)
  PROVE  Persists /\ Unseen
<1>1. Lasting /\ turn \in TurnType /\ app \in AppType
  BY WholeIs DEF Sound
<1> DEFINE pe == Dropping(app.pending_exec, {r})
           pn == Dropping(app.pending_net, {r})
<1>2. pe \in Seq(Requests) /\ pn \in Seq(Requests)
  BY <1>1, KeepingIs DEF AppType, Dropping
<1>3. app' = [app EXCEPT !.pending_exec = pe, !.pending_net = pn]
  BY DEF DecideElsewhere
<1> HIDE DEF pe, pn
<1>4. app' \in AppType /\ app'.session_groups = app.session_groups /\ app'.sessions = app.sessions
  BY <1>1, <1>2, <1>3, QueueMoves
<1>5. Good(Whole') /\ Follows(Whole, Whole')
  BY <1>1, <1>4, AppMoves DEF DecideElsewhere
<1>6. turn' = Drained(ElsewhereStage)
  BY DEF DecideElsewhere
<1>7. turn' \in TurnType /\ turn'.changed /\ turn'.at # KeyStage
  BY <1>1, <1>6, StageUnseen DEF ElsewhereStage, StopStage, KeyStage
<1> QED BY <1>1, <1>5, <1>7 DEF Persists, Unseen, Lasting, DecideElsewhere

\* The activities change, one for one or by one more.
LEMMA ActivitiesMove ==
  ASSUME NEW a \in AppType, NEW acts \in Seq(Activity)
  PROVE  LET x == [a EXCEPT !.activities = acts]
         IN  /\ x \in AppType /\ x.session_groups = a.session_groups /\ x.sessions = a.sessions
             /\ x.activities = acts /\ x.launched = a.launched
BY DEF AppType

LEMMA MarkedOver ==
  ASSUME NEW acts \in Seq(Activity), NEW set
  PROVE  [k \in DOMAIN acts |-> IF acts[k].id \in set THEN [acts[k] EXCEPT !.over = TRUE]
                                ELSE acts[k]] \in Seq(Activity)
<1> DEFINE n == Len(acts)
           f == [k \in DOMAIN acts |-> IF acts[k].id \in set THEN [acts[k] EXCEPT !.over = TRUE]
                                ELSE acts[k]]
<1>1. n \in Nat /\ DOMAIN acts = 1 .. n /\ \A k \in 1 .. n : acts[k] \in Activity
  BY LenProperties, ElementOfSeq
<1> HIDE DEF n
<1>2. f \in [1 .. n -> Activity]
  BY <1>1 DEF Activity
<1> HIDE DEF f
<1>3. f \in Seq(Activity)
  BY <1>1, <1>2, ListOf
<1> QED BY <1>3 DEF f

LEMMA EndedIs ==
  ASSUME NEW acts \in Seq(Activity), NEW r
  PROVE  [k \in DOMAIN acts |-> IF acts[k].id = r THEN [acts[k] EXCEPT !.over = TRUE]
                                ELSE acts[k]] \in Seq(Activity)
<1> DEFINE n == Len(acts)
           f == [k \in DOMAIN acts |-> IF acts[k].id = r THEN [acts[k] EXCEPT !.over = TRUE]
                                ELSE acts[k]]
<1>1. n \in Nat /\ DOMAIN acts = 1 .. n /\ \A k \in 1 .. n : acts[k] \in Activity
  BY LenProperties, ElementOfSeq
<1> HIDE DEF n
<1>2. f \in [1 .. n -> Activity]
  BY <1>1 DEF Activity
<1> HIDE DEF f
<1>3. f \in Seq(Activity)
  BY <1>1, <1>2, ListOf
<1> QED BY <1>3 DEF f

LEMMA ActivityEventKeeps ==
  ASSUME Sound, NEW r \in Requests, ActivityEvent(r)
  PROVE  Persists /\ Unseen
<1>1. Lasting /\ turn \in TurnType /\ app \in AppType /\ asked \in AskedType
  BY WholeIs DEF Sound, Lasting
<1>2. app.activities \in Seq(Activity)
  BY <1>1 DEF AppType
<1>3. asked' \in AskedType /\ \E acts \in Seq(Activity) : app' = [app EXCEPT !.activities = acts]
  <2>1. CASE ActivityStarts(r)
    <3> DEFINE new == [id |-> r, session |-> asked[r].by, over |-> FALSE, aged |-> FALSE]
    <3>1. new \in Activity
      BY <1>1 DEF AskedType, Activity
    <3>2. Append(app.activities, new) \in Seq(Activity)
      BY <1>2, <3>1, AppendProperties
    <3>3. app' = [app EXCEPT !.activities = Append(app.activities, new)]
      BY <2>1 DEF ActivityStarts
    <3>4. asked' \in AskedType
      BY <1>1, <2>1 DEF ActivityStarts, AskedType
    <3> QED BY <3>2, <3>3, <3>4
  <2>2. CASE ActivityEnds(r)
    <3> DEFINE acts == [k \in DOMAIN app.activities |->
                          IF app.activities[k].id = r THEN [app.activities[k] EXCEPT !.over = TRUE]
                          ELSE app.activities[k]]
    <3>1. acts \in Seq(Activity)
      BY <1>2, EndedIs
    <3>2. app' = [app EXCEPT !.activities = acts] /\ asked' = asked
      BY <2>2 DEF ActivityEnds
    <3> HIDE DEF acts
    <3> QED BY <1>1, <3>1, <3>2
  <2> QED BY <2>1, <2>2 DEF ActivityEvent
<1>4. app' \in AppType /\ app'.session_groups = app.session_groups /\ app'.sessions = app.sessions
  BY <1>1, <1>3, ActivitiesMove
<1>5. Good(Whole') /\ Follows(Whole, Whole')
  BY <1>1, <1>4, AppMoves DEF ActivityEvent
<1>6. turn' = Drained(ActivityStage)
  BY DEF ActivityEvent
<1>7. turn' \in TurnType /\ turn'.changed /\ turn'.at # KeyStage
  BY <1>1, <1>6, StageUnseen DEF ActivityStage, StopStage, KeyStage
<1> QED BY <1>1, <1>3, <1>5, <1>7 DEF Persists, Unseen, Lasting, ActivityEvent

LEMMA RestoreKeeps ==
  ASSUME Sound, Restore
  PROVE  /\ Persists /\ turn'.at = RestoreStage /\ RestoreStage # KeyStage
         /\ turn'.changed = (turn.changed \/ app' # app)
         /\ turn'.selected = turn.selected /\ turn'.meant = turn.meant /\ turn'.calm = turn.calm
         /\ app' = [app EXCEPT !.activities = EndCut(app.activities)]
         /\ EndCut(app.activities) \in Seq(Activity)
         /\ ui' = RestoreSelection(ui, turn.selected, Items')
         /\ ui'.sidebar_idx \in DOMAIN Items' /\ ui' = [ui EXCEPT !.sidebar_idx = ui'.sidebar_idx]
         /\ turn.selected \in Range(Items') => RowAt(Items', ui') = turn.selected
<1>1. /\ Lasting /\ turn \in TurnType /\ app \in AppType /\ GoodApp(app) /\ GoodUi(app, ui)
      /\ Whole.a = app /\ Whole.u = ui /\ build \in BuildType /\ ui \in UiType /\ config \in Configs
  BY WholeIs DEF Sound, Lasting
<1>2. EndCut(app.activities) \in Seq(Activity)
  BY <1>1, MarkedOver DEF AppType, EndCut
<1>3. /\ app' = [app EXCEPT !.activities = EndCut(app.activities)]
      /\ UNCHANGED <<config, build, asked, cut>>
  BY DEF Restore
<1>3a. ui' = RestoreSelection(ui, turn.selected, SidebarItems(app', config, build))
  BY DEF Restore
<1>4. /\ app' \in AppType /\ app'.session_groups = app.session_groups
      /\ app'.sessions = app.sessions
  BY <1>1, <1>2, <1>3, ActivitiesMove
<1>5. GoodApp(app') /\ GoodUi(app', ui) /\ \A p : SessionIn(app', p) = SessionIn(app, p)
  BY <1>1, <1>4, ListsChange
<1>6. Items' = SidebarItems(app', config, build)
  BY <1>3 DEF Items
<1>7. /\ GoodUi(app', ui') /\ ui'.sidebar_idx \in DOMAIN Items'
      /\ ui' = [ui EXCEPT !.sidebar_idx = ui'.sidebar_idx]
      /\ turn.selected \in Range(Items') => RowAt(Items', ui') = turn.selected
  BY <1>1, <1>3a, <1>4, <1>5, <1>6, RestoredUi
<1>8. Good(Whole') /\ Whole'.a = app' /\ Whole'.u = ui'
  <2>1. Whole' = [a |-> app', u |-> ui', b |-> build]
    BY <1>3 DEF Whole
  <2> QED BY <1>1, <1>5, <1>7, <2>1, WholeMade
<1>9. Follows(Whole, Whole')
  BY <1>1, <1>5, <1>7, <1>8, CursorMoves
<1>10. turn' = IF app' # app THEN Redrawing(RestoreStage) ELSE Going(RestoreStage)
  BY DEF Restore
<1>11. /\ turn' \in TurnType /\ turn'.at = RestoreStage /\ RestoreStage # KeyStage
       /\ turn'.changed = (turn.changed \/ app' # app)
       /\ turn'.selected = turn.selected /\ turn'.meant = turn.meant /\ turn'.calm = turn.calm
  <2>1. RestoreStage \in 0 .. StopStage
    BY DEF RestoreStage, StopStage
  <2>2. CASE app' # app
    BY <1>1, <1>10, <2>1, <2>2, StageUnseen
  <2>3. CASE app' = app
    <3>1. RestoreStage \in 0 .. KeyStage /\ RestoreStage # KeyStage
      BY DEF RestoreStage, KeyStage
    <3>2. turn' = [turn EXCEPT !.at = RestoreStage]
      BY <1>10, <2>3 DEF Going
    <3> QED BY <1>1, <2>3, <3>1, <3>2 DEF TurnType
  <2> QED BY <2>2, <2>3
<1> QED BY <1>1, <1>2, <1>3, <1>3a, <1>6, <1>7, <1>8, <1>9, <1>11 DEF Persists, Lasting

LEMMA BuildFinishedKeeps ==
  ASSUME Sound, NEW outcome, BuildFinished(outcome)
  PROVE  Persists /\ Unseen /\ ~turn'.calm
<1> DEFINE of == build.task[2]
           over == [build EXCEPT !.task = Nobody, !.cli = NoIndex]
           failed == [over EXCEPT !.done = <<"failed", of>>]
           cancelled == [over EXCEPT !.ws = NoIndex, !.done = <<"cancelled", of>>]
           freed == [over EXCEPT !.ws = NoIndex, !.ctr = FALSE, !.done = Nobody]
           target == IF build.cli # NoIndex THEN build.cli ELSE build.task[1]
           finished == [Whole EXCEPT !.b = freed]
           shown(d) == [Whole EXCEPT !.b = d, !.u.focus = "ImageBuild"]
<1>1. /\ Lasting /\ Good(Whole) /\ turn \in TurnType /\ build \in BuildType /\ Whole \in State
      /\ Whole.a = app /\ Whole.u = ui /\ config \in Configs
  BY WholeIs DEF Sound, Lasting
<1>2. build.task # Nobody => of \in Workspaces
  BY <1>1 DEF BuildType
<1> HIDE DEF of
<1>3. over \in BuildType
  BY <1>1 DEF BuildType, NoIndex
<1>4. /\ build.task # Nobody => failed \in BuildType /\ cancelled \in BuildType
      /\ freed \in BuildType
  <2> HIDE DEF over
  <2> QED BY <1>2, <1>3 DEF BuildType, NoIndex
<1>5. /\ build.task # Nobody
      /\ \/ Becomes(shown(failed))
         \/ Becomes(shown(cancelled))
         \/ \E st \in LaunchOutcomes(finished, config, target) : Becomes(st)
      /\ turn' = [Drained(BuildStage) EXCEPT !.calm = FALSE]
      /\ UNCHANGED <<config, asked, cut>>
  BY DEF BuildFinished, of
<1> HIDE DEF over, failed, cancelled, freed, target
<1>6. ASSUME NEW d \in BuildType, Becomes(shown(d))
      PROVE  Good(Whole') /\ Follows(Whole, Whole')
  <2> DEFINE z == [Whole EXCEPT !.b = d]
             y == [z EXCEPT !.u.focus = "ImageBuild"]
  <2>1. Good(z) /\ z.a = app /\ z.u = ui
    BY <1>1, BuildMoves
  <2>2. y = shown(d)
    BY <1>1 DEF State
  <2> HIDE DEF z, shown
  <2>3. Good(y) /\ Follows(z, y)
    BY <2>1, FocusedIs DEF Focuses
  <2>4. Whole' = y /\ Good(y)
    BY <1>6, <2>2, <2>3, BecomesIs
  <2> QED BY <1>1, <2>1, <2>3, <2>4 DEF Follows
<1>7. ASSUME NEW st \in LaunchOutcomes(finished, config, target), Becomes(st)
      PROVE  Good(Whole') /\ Follows(Whole, Whole')
  <2>1. Good(finished) /\ finished.a = app /\ finished.u = ui
    BY <1>1, <1>4, BuildMoves
  <2> HIDE DEF finished
  <2>2. Good(st) /\ Follows(finished, st)
    BY <1>1, <1>7, <2>1, LaunchIs
  <2>3. Whole' = st /\ Good(st)
    BY <1>7, <2>2, BecomesIs
  <2> QED BY <1>1, <2>1, <2>2, <2>3 DEF Follows
<1>8. Good(Whole') /\ Follows(Whole, Whole')
  <2> HIDE DEF shown, finished
  <2> QED BY <1>4, <1>5, <1>6, <1>7
<1>9. turn' \in TurnType /\ turn'.changed /\ turn'.at # KeyStage /\ ~turn'.calm
  <2>1. /\ Drained(BuildStage) \in TurnType /\ Drained(BuildStage).changed
        /\ Drained(BuildStage).at = BuildStage /\ BuildStage # KeyStage
    BY <1>1, StageUnseen DEF BuildStage, StopStage, KeyStage
  <2> QED BY <1>5, <2>1 DEF TurnType
<1> QED BY <1>1, <1>5, <1>8, <1>9 DEF Persists, Unseen, Lasting

LEMMA MarkIs ==
  ASSUME NEW a \in AppType, NEW si \in DOMAIN a.sessions
  PROVE  /\ Mark(a, si) \in AppType /\ Mark(a, si).session_groups = a.session_groups
         /\ DOMAIN Mark(a, si).sessions = DOMAIN a.sessions
         /\ \A sj \in DOMAIN a.sessions : Mark(a, si).sessions[sj].id = a.sessions[sj].id
         /\ Mark(a, si).activities = a.activities
<1> DEFINE n == Len(a.sessions)
           f == [a.sessions EXCEPT ![si].exited = TRUE]
<1>1. n \in Nat /\ DOMAIN a.sessions = 1 .. n /\ \A sj \in 1 .. n : a.sessions[sj] \in Opened
  BY AppIs
<1>2. a.sessions \in [1 .. n -> Opened]
  <2>1. a.sessions \in Seq(Opened)
    BY DEF AppType
  <2> QED BY <2>1, LenProperties
<1> HIDE DEF n
<1>3. /\ f \in [1 .. n -> Opened]
      /\ \A sj \in 1 .. n : f[sj].id = a.sessions[sj].id
  BY <1>1, <1>2 DEF Opened
<1>4. Mark(a, si) = [a EXCEPT !.sessions = f]
  BY DEF Mark
<1> HIDE DEF f
<1>5. f \in Seq(Opened) /\ DOMAIN f = 1 .. n
  BY <1>1, <1>3, ListOf
<1> QED BY <1>1, <1>3, <1>4, <1>5 DEF AppType

LEMMA SessionExitsKeeps ==
  ASSUME Sound, NEW si \in DOMAIN app.sessions, SessionExits(si)
  PROVE  Persists /\ Unseen
<1>1. Lasting /\ turn \in TurnType /\ app \in AppType
  BY WholeIs DEF Sound
<1>2. app' = Mark(app, si) /\ turn' = Drained(ExitStage) /\ UNCHANGED <<config, ui, build, asked, cut>>
  BY DEF SessionExits
<1>3. Good(Whole') /\ Follows(Whole, Whole')
  <2> HIDE DEF Mark
  <2>1. /\ app' \in AppType /\ app'.session_groups = app.session_groups
        /\ DOMAIN app'.sessions = DOMAIN app.sessions
        /\ \A sj \in DOMAIN app.sessions : app'.sessions[sj].id = app.sessions[sj].id
    BY <1>1, <1>2, MarkIs
  <2> QED BY <1>1, <1>2, <2>1, AppMoves
<1>4. turn' \in TurnType /\ turn'.changed /\ turn'.at # KeyStage
  BY <1>1, <1>2, StageUnseen DEF ExitStage, StopStage, KeyStage
<1> QED BY <1>1, <1>2, <1>3, <1>4 DEF Persists, Unseen, Lasting

LEMMA SessionClosesKeeps ==
  ASSUME Sound, NEW si \in DOMAIN app.sessions, SessionCloses(si)
  PROVE  Persists /\ Unseen /\ ~turn'.calm
<1> DEFINE st == CloseSession(Whole, si)
           focus == IF st.u.active_session = NoIndex /\ st.u.focus # "ImageBuild" THEN "Sidebar"
                    ELSE st.u.focus
           y == [st EXCEPT !.u.focus = focus]
<1>1. /\ Lasting /\ Good(Whole) /\ turn \in TurnType /\ Whole.a = app /\ Whole.u = ui
      /\ config \in Configs
  BY WholeIs DEF Sound, Lasting
<1>2. Good(st) /\ Follows(Whole, st)
  BY <1>1, CloseIs
<1>3. Becomes([st EXCEPT !.u.focus = IF st.u.active_session = NoIndex /\ @ # "ImageBuild"
                                     THEN "Sidebar" ELSE @])
  BY DEF SessionCloses
<1>4. /\ turn' = [Drained(ExitStage) EXCEPT !.calm = FALSE]
      /\ UNCHANGED <<config, asked, cut>>
  BY DEF SessionCloses
<1> HIDE DEF st
<1>5. Becomes(y)
  BY <1>3
<1>6. focus \in Focuses
  BY <1>2 DEF Good, GoodUi, UiType, Focuses
<1> HIDE DEF focus
<1>7. Good(y) /\ Follows(st, y) /\ y.a = st.a
      /\ y.u.active_session = st.u.active_session
      /\ y.u.active_network_session = st.u.active_network_session
  <2>1. Good(y) /\ Follows(st, y)
    BY <1>2, <1>6, FocusedIs
  <2>2. /\ y.a = st.a /\ y.u.active_session = st.u.active_session
        /\ y.u.active_network_session = st.u.active_network_session
    BY <1>2 DEF Good, State, UiType
  <2> QED BY <2>1, <2>2
<1> HIDE DEF y
<1>8. Whole' = y
  BY <1>5, <1>7, BecomesIs
<1>9. Follows(Whole, y)
  BY <1>2, <1>7 DEF Follows
<1>10. turn' \in TurnType /\ turn'.changed /\ turn'.at # KeyStage /\ ~turn'.calm
  <2>1. /\ Drained(ExitStage) \in TurnType /\ Drained(ExitStage).changed
        /\ Drained(ExitStage).at = ExitStage /\ ExitStage # KeyStage
    BY <1>1, StageUnseen DEF ExitStage, StopStage, KeyStage
  <2> QED BY <1>4, <2>1 DEF TurnType
<1> QED BY <1>1, <1>4, <1>7, <1>8, <1>9, <1>10 DEF Persists, Unseen, Lasting

LEMMA StopRequestedKeeps ==
  ASSUME Sound, NEW si \in DOMAIN app.sessions, StopRequested(si)
  PROVE  Persists /\ Unseen
<1>1. /\ Lasting /\ turn \in TurnType /\ app \in AppType /\ GoodApp(app) /\ GoodUi(app, ui)
      /\ ui \in UiType /\ build \in BuildType /\ Whole.a = app /\ Whole.u = ui
  BY WholeIs DEF Sound
<1> DEFINE v == [ui EXCEPT !.active_session = IF @ = si THEN NoIndex ELSE @,
                           !.focus = IF ui.active_session = si THEN "Sidebar" ELSE @,
                           !.active_network_session = IF @ = si THEN NoIndex ELSE @,
                           !.network_cursor = IF ui.active_network_session = si THEN 0 ELSE @]
<1>2. app' = Mark(app, si) /\ turn' = Drained(StopStage) /\ UNCHANGED <<config, build, asked, cut>>
  BY DEF StopRequested
<1>2a. ui' = v
  BY DEF StopRequested
<1>3. /\ app' \in AppType /\ app'.session_groups = app.session_groups
      /\ DOMAIN app'.sessions = DOMAIN app.sessions
      /\ \A sj \in DOMAIN app.sessions : app'.sessions[sj].id = app.sessions[sj].id
  BY <1>1, <1>2, MarkIs
<1>4. GoodApp(app') /\ GoodUi(app', ui) /\ \A p : SessionIn(app', p) = SessionIn(app, p)
  BY <1>1, <1>3, ListsChange
<1>5. /\ v \in UiType
      /\ v.active_session \in {ui.active_session, NoIndex}
      /\ v.active_network_session \in {ui.active_network_session, NoIndex}
      /\ v.log_fullscreen = ui.log_fullscreen
      /\ v.remove_workspace_confirm = ui.remove_workspace_confirm
  BY <1>1 DEF UiType, NoIndex, Focuses
<1> HIDE DEF v
<1>6. GoodUi(app', v)
  BY <1>4, <1>5 DEF GoodUi
<1>7. Whole' = [a |-> app', u |-> v, b |-> build]
  BY <1>2, <1>2a DEF Whole
<1>8. Good(Whole') /\ Whole'.a = app' /\ Whole'.u = v
  BY <1>1, <1>4, <1>6, <1>7, WholeMade
<1>9. Follows(Whole, Whole')
  BY <1>1, <1>4, <1>5, <1>8, Stays
<1>10. turn' \in TurnType /\ turn'.changed /\ turn'.at # KeyStage
  BY <1>1, <1>2, StageUnseen DEF StopStage, KeyStage
<1> QED BY <1>1, <1>2, <1>8, <1>9, <1>10 DEF Persists, Unseen, Lasting

-----------------------------------------------------------------------------
(* The end of a turn *)

LEMMA AgedIs ==
  ASSUME app \in AppType, NEW u, NEW items
  PROVE  /\ Aged(u, items) \in Seq(Activity) /\ Len(Aged(u, items)) = Len(app.activities)
         /\ DOMAIN Aged(u, items) = DOMAIN app.activities
         /\ \A k \in DOMAIN app.activities :
              /\ Aged(u, items)[k].id = app.activities[k].id
              /\ Aged(u, items)[k].session = app.activities[k].session
<1> DEFINE n == Len(app.activities)
           acts == app.activities
           f == Aged(u, items)
<1>1. n \in Nat /\ DOMAIN acts = 1 .. n /\ \A k \in 1 .. n : acts[k] \in Activity
  BY AppIs
<1> HIDE DEF n
<1>2. f = [k \in 1 .. n |-> [acts[k] EXCEPT !.aged = acts[k].over /\ ~Watched(u, items, acts[k])]]
  BY <1>1 DEF Aged
<1> HIDE DEF acts, f
<1>3. \A k \in 1 .. n : (acts[k].over /\ ~Watched(u, items, acts[k])) \in BOOLEAN
  OBVIOUS
<1>4. \A k \in 1 .. n : /\ f[k] \in Activity /\ f[k].id = acts[k].id
                        /\ f[k].session = acts[k].session
  <2> TAKE k \in 1 .. n
  <2> DEFINE x == acts[k]
             b == x.over /\ ~Watched(u, items, x)
  <2>1. x \in Activity /\ b \in BOOLEAN /\ f[k] = [x EXCEPT !.aged = b]
    BY <1>1, <1>2, <1>3
  <2> HIDE DEF x, b
  <2>2. f[k] \in Activity /\ f[k].id = x.id /\ f[k].session = x.session
    BY <2>1 DEF Activity
  <2> QED BY <2>2 DEF x
<1>5. f \in [1 .. n -> Activity]
  BY <1>2, <1>4
<1>6. f \in Seq(Activity) /\ Len(f) = n /\ DOMAIN f = 1 .. n
  BY <1>1, <1>5, ListOf
<1> QED BY <1>1, <1>4, <1>6 DEF n, acts, f

Spared(gone, aged) == {x \in Range(aged) : x.id \notin gone}

LEMMA PrunedIs ==
  ASSUME app \in AppType, NEW gone, NEW aged \in Seq(Activity)
  PROVE  LET a == Pruned(gone, aged)
         IN  /\ a \in AppType /\ a.session_groups = app.session_groups /\ a.sessions = app.sessions
             /\ a.activities = Keeping(aged, Spared(gone, aged))
             /\ a.pending_exec = app.pending_exec /\ a.pending_net = app.pending_net
             /\ Range(a.activities) = Spared(gone, aged)
<1> DEFINE set == Spared(gone, aged)
           kept == Keeping(aged, set)
<1>1. Range(aged) \cap set = set
  BY DEF Spared
<1>2. Pruned(gone, aged) = [app EXCEPT !.activities = kept]
  BY DEF Pruned, Spared
<1> HIDE DEF set
<1>3. kept \in Seq(Activity) /\ Range(kept) = set
  BY <1>1, KeepingIs
<1> HIDE DEF kept
<1>4. /\ [app EXCEPT !.activities = kept] \in AppType
      /\ [app EXCEPT !.activities = kept].session_groups = app.session_groups
      /\ [app EXCEPT !.activities = kept].sessions = app.sessions
      /\ [app EXCEPT !.activities = kept].activities = kept
      /\ [app EXCEPT !.activities = kept].pending_exec = app.pending_exec
      /\ [app EXCEPT !.activities = kept].pending_net = app.pending_net
  BY <1>3 DEF AppType
<1> QED BY <1>2, <1>3, <1>4 DEF kept, set

\* The network pane's cursor, kept within its list.
LEMMA ClampedIs ==
  ASSUME NEW a \in AppType, NEW u, GoodUi(a, u)
  PROVE  /\ GoodUi(a, Clamped(u, a))
         /\ Clamped(u, a) = [u EXCEPT !.network_cursor = Clamped(u, a).network_cursor]
         /\ u.active_network_session \in DOMAIN a.sessions =>
              LET len == Len(NetActivities(a, u.active_network_session))
              IN  Clamped(u, a).network_cursor =
                    IF len = 0 THEN 0
                    ELSE IF u.network_cursor + 1 > len THEN len - 1 ELSE u.network_cursor
<1> DEFINE si == u.active_network_session
           len == IF si \in DOMAIN a.sessions THEN Len(NetActivities(a, si)) ELSE 0
           k == IF len = 0 THEN 0 ELSE IF u.network_cursor + 1 > len THEN len - 1 ELSE u.network_cursor
           v == [u EXCEPT !.network_cursor = k]
<1>1. Clamped(u, a) = IF si = NoIndex THEN u ELSE v
  BY DEF Clamped
<1>2. u \in UiType /\ u.network_cursor \in Nat
  BY DEF GoodUi, UiType
<1>3. len \in Nat
  <2>1. NetActivities(a, si) \in Seq(Activity)
    BY ActivitiesAre DEF NetActivities
  <2> QED BY <2>1, LenProperties
<1>4. si \in DOMAIN a.sessions => len = Len(NetActivities(a, si)) /\ si # NoIndex
  BY AppIs DEF NoIndex
<1> HIDE DEF len
<1>5. k \in Nat
  BY <1>2, <1>3
<1> HIDE DEF k
<1>6. GoodUi(a, v) /\ v.network_cursor = k
  BY <1>2, <1>5 DEF GoodUi, UiType
<1>7. /\ GoodUi(a, Clamped(u, a))
      /\ Clamped(u, a) = [u EXCEPT !.network_cursor = Clamped(u, a).network_cursor]
  <2>1. CASE si = NoIndex
    <3>1. u = [u EXCEPT !.network_cursor = u.network_cursor]
      BY <1>2 DEF UiType
    <3> QED BY <1>1, <2>1, <3>1
  <2>2. CASE si # NoIndex
    BY <1>1, <1>6, <2>2
  <2> QED BY <2>1, <2>2
<1>8. si \in DOMAIN a.sessions => Clamped(u, a).network_cursor = k
  BY <1>1, <1>4, <1>6
<1> QED BY <1>4, <1>7, <1>8 DEF k

LEMMA EndTurnKeeps ==
  ASSUME Sound, NEW gone, EndTurn(gone)
  PROVE  /\ Persists /\ turn'.at = KeyStage /\ ui'.sidebar_idx \in DOMAIN Items'
         /\ Row \in Range(Items') => Row' = Row
<1> DEFINE aged == Aged(ui, Items)
           a == Pruned(gone, aged)
           items == SidebarItems(a, config, build)
           v == Clamped(ui, a)
<1>1. /\ Lasting /\ turn \in TurnType /\ app \in AppType /\ GoodApp(app) /\ GoodUi(app, ui)
      /\ Whole.a = app /\ Whole.u = ui /\ build \in BuildType /\ ui \in UiType /\ config \in Configs
  BY WholeIs DEF Sound, Lasting
<1>2. /\ app' = a
      /\ turn' = [turn EXCEPT !.at = KeyStage, !.changed = FALSE, !.calm = FALSE,
                              !.selected = Nobody, !.meant = Nobody]
      /\ UNCHANGED <<config, build, asked, cut>>
  BY DEF EndTurn
<1>2a. ui' = RestoreSelection(v, Row, items)
  BY DEF EndTurn
<1>3. aged \in Seq(Activity)
  BY <1>1, AgedIs
<1> HIDE DEF aged
<1>4. a \in AppType /\ a.session_groups = app.session_groups /\ a.sessions = app.sessions
  BY <1>1, <1>3, PrunedIs
<1> HIDE DEF a
<1>5. GoodApp(a) /\ GoodUi(a, ui) /\ \A p : SessionIn(a, p) = SessionIn(app, p)
  BY <1>1, <1>4, ListsChange
<1>6. GoodUi(a, v) /\ v = [ui EXCEPT !.network_cursor = v.network_cursor]
  BY <1>4, <1>5, ClampedIs
<1> HIDE DEF v
<1>7. Items' = items
  BY <1>2 DEF Items
<1>8. /\ GoodUi(a, ui') /\ ui'.sidebar_idx \in DOMAIN items
      /\ ui' = [v EXCEPT !.sidebar_idx = ui'.sidebar_idx]
      /\ Row \in Range(items) => RowAt(items, ui') = Row
  BY <1>1, <1>2a, <1>4, <1>6, RestoredUi
<1>9. Good(Whole') /\ Whole'.a = a /\ Whole'.u = ui'
  <2>1. Whole' = [a |-> a, u |-> ui', b |-> build]
    BY <1>2 DEF Whole
  <2> QED BY <1>1, <1>5, <1>8, <2>1, WholeMade
<1>10. /\ ui'.active_session = ui.active_session
       /\ ui'.active_network_session = ui.active_network_session
  BY <1>1, <1>6, <1>8 DEF UiType
<1>11. Follows(Whole, Whole')
  BY <1>1, <1>5, <1>9, <1>10, Stays
<1>12. turn' \in TurnType /\ turn'.at = KeyStage
  <2>1. KeyStage \in 0 .. KeyStage /\ Nobody \in RowKind \cup {Nobody} /\ Nobody \in Meanings
    BY DEF KeyStage, Meanings
  <2> QED BY <1>1, <1>2, <2>1 DEF TurnType
<1>13. Row \in Range(Items') => Row' = Row
  <2>1. Row' = RowAt(Items', ui')
    BY DEF Row
  <2> QED BY <1>7, <1>8, <2>1
<1> QED BY <1>1, <1>2, <1>7, <1>8, <1>9, <1>11, <1>12, <1>13 DEF Persists, Lasting

-----------------------------------------------------------------------------
(* Keys *)

LEMMA RowTarget ==
  ASSUME NEW row \in RowKind
  PROVE  /\ row[1] # "Activity" => row[2] \in Nat
         /\ row[1] = "Activity" => row[2] \in ExecRequests
BY DEF RowKind

\* The row a key acts on.
LEMMA KeyRow ==
  ASSUME Sound, turn.at = KeyStage
  PROVE  /\ Row \in RowKind /\ Row \in Range(Items) /\ Row = Items[ui.sidebar_idx]
         /\ Row[1] = "Session" => Row[2] \in DOMAIN app.session_groups
         /\ Row[1] = "NetworkGroup" => Row[2] \in DOMAIN app.sessions
         /\ Row[1] \in {"Launch", "Build"} => Row[2] \in DOMAIN config
         /\ Row[1] # "Activity" => Row[2] \in Nat
         /\ Row[1] = "Activity" => Row[2] \in ExecRequests
<1>1. GoodApp(app) /\ config \in Configs /\ ui.sidebar_idx \in DOMAIN Items
  BY WholeIs DEF Sound, Lasting
<1>2. Row = Items[ui.sidebar_idx] /\ Row \in Range(Items)
  BY <1>1 DEF Row, RowAt, Range
<1>3. Row \in Range(SidebarItems(app, config, build))
  BY <1>2 DEF Items
<1> QED BY <1>1, <1>2, <1>3, RowIs, RowTarget

\* Only pointers change.
LEMMA UiKeeps ==
  ASSUME Lasting, GoodUi(app, ui'), build' \in BuildType, UNCHANGED <<config, app, asked, cut>>
  PROVE  Lasting'
<1>1. Good(Whole')
  BY UiMoves
<1> QED BY <1>1 DEF Lasting

LEMMA LeftIs ==
  ASSUME NEW a, NEW u, GoodUi(a, u)
  PROVE  GoodUi(a, Left(u)) /\ Left(u).sidebar_idx = u.sidebar_idx
<1> DEFINE v == Left(u)
<1>1. u \in UiType
  BY DEF GoodUi
<1>2. /\ v \in UiType /\ v.active_session = u.active_session
      /\ v.active_network_session \in {u.active_network_session, NoIndex}
      /\ v.log_fullscreen = FALSE /\ v.sidebar_idx = u.sidebar_idx
  <2> DEFINE q1 == IF u.focus = "Activity" THEN Nobody ELSE u.active_activity
             q2 == IF u.focus = "Network" THEN NoIndex ELSE u.active_network_session
             q3 == IF u.focus = "Network" THEN 0 ELSE u.network_cursor
             q4 == IF u.focus = "Settings" THEN NoIndex ELSE u.active_settings_workspace
             q5 == IF u.focus = "ContainerPicker" THEN <<"none", NoIndex>> ELSE u.container_picker
             q6 == IF u.focus = "WorkspaceActions" THEN NoIndex ELSE u.workspace_action_workspace
  <2>1. v = [u EXCEPT !.focus = "Sidebar", !.log_fullscreen = FALSE, !.terminal_fullscreen = FALSE,
                      !.active_activity = q1, !.active_network_session = q2,
                      !.network_cursor = q3, !.active_settings_workspace = q4,
                      !.container_picker = q5, !.workspace_action_workspace = q6]
    BY DEF Left
  <2>2. /\ q1 \in Requests \cup {Nobody} /\ q2 \in Nat /\ q3 \in Nat /\ q4 \in Nat
        /\ q6 \in Nat /\ q2 \in {u.active_network_session, NoIndex}
    BY <1>1 DEF UiType, NoIndex
  <2>3. q5 \in {"none", "workspace", "template"} \X Nat
    BY <1>1 DEF UiType, NoIndex
  <2>4. "Sidebar" \in Focuses
    BY DEF Focuses
  <2> HIDE DEF v, q1, q2, q3, q4, q5, q6
  <2> QED BY <1>1, <2>1, <2>2, <2>3, <2>4 DEF UiType
<1> HIDE DEF v
<1>3. GoodUi(a, v)
  BY <1>2 DEF GoodUi
<1> QED BY <1>2, <1>3 DEF v

LEMMA UnopenedIs ==
  ASSUME NEW b \in BuildType
  PROVE  Unopened(b) \in BuildType
BY DEF Unopened, BuildType, NoIndex

LEMMA KeyBackKeeps ==
  ASSUME Sound, KeyBack, asked' = asked
  PROVE  Lasting'
<1>1. Lasting /\ GoodUi(app, ui) /\ build \in BuildType
  BY WholeIs DEF Sound
<1>2. GoodUi(app, ui') /\ build' \in BuildType
  BY <1>1, LeftIs, UnopenedIs DEF KeyBack
<1> QED BY <1>1, <1>2, UiKeeps DEF KeyBack

LEMMA CancelKeeps ==
  ASSUME Sound, NEW r \in Requests, CancelActivity(r), asked' = asked
  PROVE  Lasting'
<1>1. Lasting /\ app \in AppType /\ cut \subseteq Requests
  BY WholeIs DEF Sound, Lasting
<1>2. cut' \subseteq Requests /\ UNCHANGED <<config, ui, build>>
  BY <1>1 DEF CancelActivity
<1>3. app' \in AppType /\ app'.session_groups = app.session_groups /\ app'.sessions = app.sessions
  <2>1. CASE r \in Range(app.pending_exec)
    <3> DEFINE pe == Dropping(app.pending_exec, {r})
    <3>1. pe \in Seq(Requests) /\ app.pending_net \in Seq(Requests)
      BY <1>1, KeepingIs DEF AppType, Dropping
    <3>2. app' = [app EXCEPT !.pending_exec = pe]
      BY <2>1 DEF CancelActivity
    <3> HIDE DEF pe
    <3>3. app' = [app EXCEPT !.pending_exec = pe, !.pending_net = app.pending_net]
      BY <1>1, <3>2 DEF AppType
    <3> QED BY <1>1, <3>1, <3>3, QueueMoves
  <2>2. CASE r \notin Range(app.pending_exec)
    <3> DEFINE acts == [k \in DOMAIN app.activities |->
                          IF app.activities[k].id = r THEN [app.activities[k] EXCEPT !.over = TRUE]
                          ELSE app.activities[k]]
    <3>1. acts \in Seq(Activity)
      BY <1>1, EndedIs DEF AppType
    <3>2. app' = [app EXCEPT !.activities = acts]
      BY <2>2 DEF CancelActivity
    <3> HIDE DEF acts
    <3> QED BY <1>1, <3>1, <3>2, ActivitiesMove
  <2> QED BY <2>1, <2>2
<1>4. Good(Whole')
  BY <1>1, <1>2, <1>3, AppMoves
<1> QED BY <1>1, <1>2, <1>4 DEF Lasting

LEMMA PointIs ==
  ASSUME NEW a \in AppType, NEW u \in UiType, NEW si, NetworkPoint(a, u, si) # Nobody
  PROVE  NetworkPoint(a, u, si)[2] \in Requests
<1> DEFINE rows == NetActivities(a, si)
           k == IF u.network_cursor + 1 > Len(rows) THEN Len(rows) ELSE u.network_cursor + 1
<1>1. rows \in Seq(Activity)
  BY ActivitiesAre DEF NetActivities
<1>2. NetworkPoint(a, u, si) = IF rows = <<>> THEN Nobody ELSE <<"request", rows[k].id>>
  BY DEF NetworkPoint
<1> HIDE DEF rows
<1>3. rows # <<>> /\ Len(rows) \in Nat /\ Len(rows) # 0 /\ DOMAIN rows = 1 .. Len(rows)
  BY <1>1, <1>2, LenProperties, EmptySeq
<1>4. u.network_cursor \in Nat
  BY DEF UiType
<1>5. k \in DOMAIN rows
  BY <1>3, <1>4
<1> HIDE DEF k
<1>6. rows[k] \in Activity
  BY <1>1, <1>3, <1>5, ElementOfSeq
<1> QED BY <1>2, <1>3, <1>6 DEF Activity

LEMMA KeyCancelKeeps ==
  ASSUME Sound, KeyCancelActivity \/ KeyCancelConnection, asked' = asked
  PROVE  Lasting'
<1>1. ui \in UiType /\ app \in AppType
  BY WholeIs DEF Sound
<1>2. CASE KeyCancelActivity
  <2>1. ui.active_activity \in Requests /\ CancelActivity(ui.active_activity)
    BY <1>1, <1>2 DEF KeyCancelActivity, UiType
  <2> QED BY <2>1, CancelKeeps
<1>3. CASE KeyCancelConnection
  <2> DEFINE point == NetworkPoint(app, ui, ui.active_network_session)
  <2>1. point # Nobody /\ CancelActivity(point[2])
    BY <1>3 DEF KeyCancelConnection
  <2>2. point[2] \in Requests
    BY <1>1, <2>1, PointIs
  <2> HIDE DEF point
  <2> QED BY <2>1, <2>2, CancelKeeps
<1> QED BY <1>2, <1>3

LEMMA KeyCancelBuildKeeps ==
  ASSUME Sound, KeyCancelBuild, asked' = asked
  PROVE  Lasting'
<1>1. Lasting /\ GoodUi(app, ui) /\ build \in BuildType
  BY WholeIs DEF Sound
<1>2. build' \in BuildType /\ ui' = ui /\ UNCHANGED <<config, app, cut>>
  BY <1>1 DEF KeyCancelBuild, BuildType
<1> QED BY <1>1, <1>2, UiKeeps

\* The sessions of a workspace close one by one, the last first: those before
\* are still where they were.
LEMMA CloseAllIs ==
  ASSUME Lasting, NEW w
  PROVE  Good(CloseAll(w))
<1> DEFINE n == Len(app.sessions)
           Mine(k) == app.sessions[n + 1 - k].ws = w
           Defined(f) == f = [k \in 0 .. n |->
                                IF k = 0 THEN Whole
                                ELSE IF app.sessions[n + 1 - k].ws = w
                                     THEN CloseSession(f[k - 1], n + 1 - k)
                                ELSE f[k - 1]]
           S == {x \in State : Good(x)}
           step == [k \in 1 .. n |-> [x \in S |->
                      IF Mine(k) /\ n + 1 - k \in DOMAIN x.a.sessions
                      THEN CloseSession(x, n + 1 - k) ELSE x]]
           Enough(x, k) == x \in S /\ Len(x.a.sessions) \in Nat /\ n - k <= Len(x.a.sessions)
           After(x, k) == IF Mine(k) THEN CloseSession(x, n + 1 - k) ELSE x
<1>1. /\ n \in Nat /\ Whole \in S /\ Whole.a = app /\ config \in Configs
  BY WholeIs, AppIs DEF Lasting
<1>2. CloseAll(w) = (CHOOSE f : Defined(f))[n]
  BY DEF CloseAll
<1> HIDE DEF n
<1>3. step \in [1 .. n -> [S -> S]] /\
      \A k \in 1 .. n, x \in S :
         step[k][x] = IF Mine(k) /\ n + 1 - k \in DOMAIN x.a.sessions
                      THEN CloseSession(x, n + 1 - k) ELSE x
  <2>1. ASSUME NEW k \in 1 .. n, NEW x \in S, n + 1 - k \in DOMAIN x.a.sessions
        PROVE  CloseSession(x, n + 1 - k) \in S
    <3> DEFINE y == CloseSession(x, n + 1 - k)
    <3>1. Good(y)
      BY <1>1, <2>1, CloseIs
    <3> HIDE DEF y
    <3>2. y \in S
      BY <3>1 DEF Good
    <3> QED BY <3>2 DEF y
  <2> HIDE DEF S
  <2> QED BY <2>1
\* While a session is left at its place, closing it leaves those before.
<1>4. ASSUME NEW k \in 1 .. n, NEW x, Enough(x, k - 1)
      PROVE  Enough(After(x, k), k) /\ n + 1 - k \in DOMAIN x.a.sessions
  <2> DEFINE si == n + 1 - k
             y == CloseSession(x, si)
             m == Len(x.a.sessions)
  <2>1. Good(x) /\ x.a \in AppType /\ m \in Nat /\ n - (k - 1) <= m
    BY <1>4 DEF Good, GoodApp
  <2>2. DOMAIN x.a.sessions = 1 .. m
    BY <2>1, AppIs
  <2> HIDE DEF m
  <2>3. si \in DOMAIN x.a.sessions
    BY <1>1, <2>1, <2>2
  <2>4. Good(y) /\ Len(y.a.sessions) = m - 1
    <3>1. Good(y)
      BY <1>1, <2>1, <2>3, CloseIs
    <3>2. y.a.sessions = RemoveAt(x.a.sessions, si)
      BY <2>1 DEF CloseSession, Good, State, AppType
    <3>3. Len(RemoveAt(x.a.sessions, si)) = m - 1
      <4>1. x.a.sessions \in Seq(Opened)
        BY <2>1 DEF AppType
      <4> QED BY <2>3, <4>1, RemoveAtIs DEF m
    <3> QED BY <3>1, <3>2, <3>3
  <2> HIDE DEF y
  <2>5. Enough(y, k)
    <3>1. m - 1 \in Nat /\ n - k <= m - 1
      BY <1>1, <2>1, <2>2, <2>3
    <3> QED BY <2>4, <3>1 DEF Good
  <2>6. Enough(x, k)
    <3>1. n - k <= m
      BY <1>1, <2>1
    <3> QED BY <1>4, <2>1, <3>1 DEF m
  <2> HIDE DEF Enough
  <2> QED BY <2>3, <2>5, <2>6 DEF y
<1>5. \E f : Defined(f)
  <2>1. PICK g \in [0 .. n -> S] : g[0] = Whole /\ \A k \in 1 .. n : g[k] = step[k][g[k - 1]]
    <3>1. Whole \in S /\ n \in Nat /\ step \in [1 .. n -> [S -> S]]
      BY <1>1, <1>3
    <3> HIDE DEF S, step
    <3> QED BY <3>1, Recursion
  <2> DEFINE Bad == {k \in 0 .. n : ~Enough(g[k], k)}
  <2>2. Enough(g[0], 0)
    <3>1. n - 0 <= Len(Whole.a.sessions)
      BY <1>1 DEF n
    <3> QED BY <1>1, <2>1, <3>1 DEF n
  <2>3. \A k \in 1 .. n : k - 1 \in 0 .. n /\ k \in 0 .. n /\ g[k - 1] \in S
    <3>1. \A k \in 1 .. n : k - 1 \in 0 .. n /\ k \in 0 .. n
      BY <1>1
    <3> HIDE DEF S
    <3> QED BY <2>1, <3>1
  <2>4. \A k \in 1 .. n : Enough(g[k - 1], k - 1) => g[k] = After(g[k - 1], k)
    <3> TAKE k \in 1 .. n
    <3> HAVE Enough(g[k - 1], k - 1)
    <3> DEFINE x == g[k - 1]
    <3>1. x \in S /\ n + 1 - k \in DOMAIN x.a.sessions
      <4> HIDE DEF S, After, Enough
      <4> QED BY <1>4, <2>3
    <3>2. g[k] = step[k][x]
      BY <2>1
    <3> HIDE DEF x, S, step
    <3> QED BY <1>3, <3>1, <3>2 DEF x
  <2>5. Bad = {}
    <3>1. Bad \in SUBSET (0 .. n) /\ 0 \notin Bad
      BY <2>2
    <3>2. \A k \in 1 .. n : k - 1 \notin Bad => k \notin Bad
      <4> TAKE k \in 1 .. n
      <4> HAVE k - 1 \notin Bad
      <4>1. Enough(g[k - 1], k - 1)
        BY <2>3
      <4> HIDE DEF Enough, After
      <4>2. Enough(g[k], k)
        BY <1>4, <2>4, <4>1
      <4> QED BY <4>2
    <3> HIDE DEF Bad
    <3> QED BY <1>1, <3>1, <3>2, NoCounterexample
  <2>6. \A k \in 1 .. n : g[k] = After(g[k - 1], k)
    <3> HIDE DEF After, Enough
    <3> QED BY <2>3, <2>4, <2>5
  <2>7. Defined(g)
    <3>1. g = [k \in 0 .. n |-> g[k]]
      BY <2>1
    <3>2. \A k \in 0 .. n : k = 0 \/ k \in 1 .. n
      BY <1>1
    <3>3. \A k \in 0 .. n : g[k] = IF k = 0 THEN Whole
                                   ELSE IF app.sessions[n + 1 - k].ws = w
                                        THEN CloseSession(g[k - 1], n + 1 - k)
                                   ELSE g[k - 1]
      BY <2>1, <2>6, <3>2
    <3> QED BY <3>1, <3>3
  <2> HIDE DEF Defined
  <2> QED BY <2>7
<1> DEFINE f == CHOOSE f : Defined(f)
<1>6. Defined(f)
  <2> HIDE DEF Defined
  <2> QED BY <1>5
<1> HIDE DEF f
<1>7. f[0] = Whole /\ \A k \in 1 .. n : f[k] = After(f[k - 1], k)
  <2>1. 0 \in 0 .. n /\ \A k \in 1 .. n : k \in 0 .. n /\ k # 0
    BY <1>1
  <2> QED BY <1>6, <2>1
<1> DEFINE Bad == {k \in 0 .. n : ~Enough(f[k], k)}
<1>8. Bad = {}
  <2>1. Enough(f[0], 0)
    <3>1. n - 0 <= Len(Whole.a.sessions)
      BY <1>1 DEF n
    <3> QED BY <1>1, <1>7, <3>1 DEF n
  <2>2. Bad \in SUBSET (0 .. n) /\ 0 \notin Bad
    BY <2>1
  <2>3. \A k \in 1 .. n : k - 1 \notin Bad => k \notin Bad
    <3> TAKE k \in 1 .. n
    <3> HAVE k - 1 \notin Bad
    <3>1. k - 1 \in 0 .. n
      BY <1>1
    <3>2. Enough(f[k - 1], k - 1)
      BY <3>1
    <3> HIDE DEF Enough, After
    <3>3. Enough(f[k], k)
      BY <1>4, <1>7, <3>2
    <3> QED BY <3>3
  <2> HIDE DEF Bad
  <2> QED BY <1>1, <2>2, <2>3, NoCounterexample
<1>9. Enough(f[n], n)
  <2>1. n \in 0 .. n
    BY <1>1
  <2> HIDE DEF Enough
  <2> QED BY <1>8, <2>1
<1> QED BY <1>2, <1>9 DEF f

LEMMA KeyConfirmKeeps ==
  ASSUME Sound, NEW yes, KeyConfirm(yes), asked' = asked
  PROVE  Lasting'
<1> DEFINE w == ui.remove_workspace_confirm
           closed == IF yes THEN CloseAll(w) ELSE Whole
           v == [closed.u EXCEPT !.remove_workspace_confirm = Nobody]
           answered == [closed EXCEPT !.u.remove_workspace_confirm = Nobody]
           pn == Dropping(closed.a.pending_net, {r \in NetRequests : asked[r].ws = w})
           x == [closed.a EXCEPT !.pending_net = pn]
           z == [v EXCEPT !.active_settings_workspace = NoIndex, !.focus = "Sidebar",
                          !.sidebar_idx = 1]
           removed == [answered EXCEPT
                      !.a.pending_net = Dropping(@, {r \in NetRequests : asked[r].ws = w}),
                      !.u = [@ EXCEPT !.active_settings_workspace = NoIndex, !.focus = "Sidebar",
                                      !.sidebar_idx = 1]]
<1>1. Lasting
  BY DEF Sound
<1>2. Good(closed)
  <2>1. CASE yes
    BY <1>1, <2>1, CloseAllIs
  <2>2. CASE ~yes
    BY <1>1, <2>2 DEF Lasting
  <2> QED BY <2>1, <2>2
<1>3. /\ \/ Becomes(answered) /\ config' = config
         \/ Becomes(removed) /\ config' \in Configs
      /\ cut' = cut
  BY DEF KeyConfirm
<1> HIDE DEF w, closed
<1>4. /\ closed \in State /\ GoodApp(closed.a) /\ GoodUi(closed.a, closed.u) /\ closed.a \in AppType
      /\ closed.u \in UiType
  BY <1>2 DEF Good, GoodApp, GoodUi
<1>5. answered = [closed EXCEPT !.u = v] /\ removed = [closed EXCEPT !.a = x, !.u = z]
  BY <1>4 DEF State, AppType
<1>6. GoodUi(closed.a, v) /\ v.log_fullscreen = closed.u.log_fullscreen
  BY <1>4 DEF GoodUi, UiType
<1> HIDE DEF v, answered, removed
<1>7. Good(answered)
  BY <1>4, <1>5, <1>6 DEF Good, State, GoodUi
<1>8. GoodUi(closed.a, z)
  <2>1. v \in UiType
    BY <1>6 DEF GoodUi
  <2>2. /\ z \in UiType /\ z.active_session = v.active_session
        /\ z.active_network_session = v.active_network_session
        /\ z.log_fullscreen = v.log_fullscreen
        /\ z.remove_workspace_confirm = v.remove_workspace_confirm
    <3>1. NoIndex \in Nat /\ "Sidebar" \in Focuses /\ 1 \in Nat \ {0}
      BY DEF NoIndex, Focuses
    <3>2. z = [v EXCEPT !.active_settings_workspace = NoIndex, !.focus = "Sidebar",
                        !.sidebar_idx = 1]
      OBVIOUS
    <3> HIDE DEF z
    <3> QED BY <2>1, <3>1, <3>2 DEF UiType
  <2> HIDE DEF z
  <2> QED BY <1>6, <2>2 DEF GoodUi
<1>9. pn \in Seq(Requests) /\ closed.a.pending_exec \in Seq(Requests)
  BY <1>4, KeepingIs DEF AppType, Dropping
<1> HIDE DEF pn, z
<1>10. x = [closed.a EXCEPT !.pending_exec = closed.a.pending_exec, !.pending_net = pn]
  BY <1>4 DEF AppType
<1> HIDE DEF x
<1>11. x \in AppType /\ x.session_groups = closed.a.session_groups /\ x.sessions = closed.a.sessions
  BY <1>4, <1>9, <1>10, QueueMoves
<1>12. GoodApp(x) /\ GoodUi(x, z)
  BY <1>4, <1>8, <1>11, ListsChange
<1>13. Good(removed)
  BY <1>4, <1>5, <1>12 DEF Good, State, GoodUi, GoodApp
<1>14. Good(Whole')
  BY <1>3, <1>7, <1>13, BecomesIs
<1> QED BY <1>1, <1>3, <1>14 DEF Lasting

LEMMA KeyDecideKeeps ==
  ASSUME Sound, NEW r, KeyDecide(r), asked' = asked
  PROVE  Lasting'
<1>1. Lasting /\ app \in AppType
  BY WholeIs DEF Sound
<1> DEFINE pe == Dropping(app.pending_exec, {r})
           pn == Dropping(app.pending_net, {r})
<1>2. pe \in Seq(Requests) /\ pn \in Seq(Requests)
  BY <1>1, KeepingIs DEF AppType, Dropping
<1>3. app' = [app EXCEPT !.pending_exec = pe, !.pending_net = pn] /\ UNCHANGED <<config, ui, build, cut>>
  BY DEF KeyDecide
<1> HIDE DEF pe, pn
<1>4. app' \in AppType /\ app'.session_groups = app.session_groups /\ app'.sessions = app.sessions
  BY <1>1, <1>2, <1>3, QueueMoves
<1>5. Good(Whole')
  BY <1>1, <1>3, <1>4, AppMoves
<1> QED BY <1>1, <1>3, <1>5 DEF Lasting

\* Connections are cut.
LEMMA CutKeeps ==
  ASSUME Sound, NEW id, CutSession(id), asked' = asked
  PROVE  Lasting'
<1>1. Whole' = Whole
  BY DEF CutSession, Whole
<1>2. cut' \subseteq Requests /\ config' = config
  BY DEF CutSession, Sound, Lasting, Requests
<1> QED BY <1>1, <1>2 DEF Sound, Lasting

LEMMA KeyCutKeeps ==
  ASSUME Sound, KeyCut \/ KeyNetworkCut \/ KeyCutAsked, asked' = asked
  PROVE  Lasting'
BY CutKeeps DEF KeyCut, KeyNetworkCut, KeyCutAsked

LEMMA KeyScreenKeeps ==
  ASSUME Sound, KeyFullscreen \/ KeyLog, asked' = asked
  PROVE  Lasting'
<1>1. Lasting /\ GoodUi(app, ui) /\ ui \in UiType /\ build \in BuildType
  BY WholeIs DEF Sound
<1>2. Unasked
  BY DEF KeyFullscreen, KeyLog, Unmodal
<1>3. /\ UNCHANGED <<config, app, build, cut>>
      /\ \/ ui' = [ui EXCEPT !.terminal_fullscreen = FALSE]
         \/ ui' = [ui EXCEPT !.terminal_fullscreen = TRUE, !.log_fullscreen = FALSE]
         \/ ui' = [ui EXCEPT !.log_fullscreen = FALSE]
         \/ ui' = [ui EXCEPT !.log_fullscreen = TRUE, !.terminal_fullscreen = FALSE]
  BY DEF KeyFullscreen, KeyLog
<1>4. GoodUi(app, ui')
  <2>1. /\ ui' \in UiType /\ ui'.active_session = ui.active_session
        /\ ui'.active_network_session = ui.active_network_session
        /\ ui'.remove_workspace_confirm = ui.remove_workspace_confirm
    BY <1>1, <1>3 DEF UiType
  <2> QED BY <1>1, <1>2, <2>1 DEF GoodUi, Unasked
<1> QED BY <1>1, <1>3, <1>4, UiKeeps

\* The cursor is set.
LEMMA CursorKeeps ==
  ASSUME Sound, NEW i \in Nat \ {0}, ui' = [ui EXCEPT !.sidebar_idx = i],
         UNCHANGED <<config, app, build, cut, asked>>
  PROVE  Lasting'
<1>1. Lasting /\ GoodUi(app, ui) /\ ui \in UiType /\ build \in BuildType
  BY WholeIs DEF Sound
<1>2. GoodUi(app, ui')
  BY <1>1 DEF GoodUi, UiType
<1> QED BY <1>1, <1>2, UiKeeps

LEMMA ItemsNow ==
  ASSUME Lasting
  PROVE  /\ Items \in Seq(RowKind) /\ Len(Items) \in Nat \ {0} /\ DOMAIN Items = 1 .. Len(Items)
         /\ Range(Items) = RowsShown(app, config, build)
BY WholeIs, ItemsAre DEF Items, Lasting

LEMMA KeyMoveKeeps ==
  ASSUME Sound, NEW down, KeyMove(down), asked' = asked
  PROVE  Lasting'
<1> DEFINE n == Len(Items)
           from == IF ui.sidebar_idx > n THEN n ELSE ui.sidebar_idx
           one == Neighbour(Items, from, down)
           i == IF Selectable(Items[one]) THEN one ELSE Neighbour(Items, one, down)
<1>1. ui \in UiType /\ n \in Nat \ {0}
  BY WholeIs, ItemsNow DEF Sound
<1>2. ui' = [ui EXCEPT !.sidebar_idx = i] /\ UNCHANGED <<config, app, build, cut>>
  BY DEF KeyMove
<1>3. from \in Nat \ {0}
  BY <1>1 DEF UiType
<1> HIDE DEF from
<1>4. ASSUME NEW k \in Nat \ {0} PROVE Neighbour(Items, k, down) \in Nat \ {0}
  BY <1>1, <1>4 DEF Neighbour
<1>5. i \in Nat \ {0}
  BY <1>3, <1>4
<1> HIDE DEF i
<1> QED BY <1>2, <1>5, CursorKeeps

LEMMA KeyHotkeyKeeps ==
  ASSUME Sound, NEW w \in Workspaces, KeyHotkey(w), asked' = asked
  PROVE  Lasting'
<1> DEFINE pi == Named(config, w)
           groups == {g \in DOMAIN app.session_groups : app.session_groups[g].workspace_idx = pi}
           group == FirstIn(Items, {<<"Session", g>> : g \in groups})
           row == <<"Launch", pi>>
           i == IF group # 0 THEN group ELSE Position(Items, row)
<1>1. /\ Lasting /\ app \in AppType /\ config \in Configs
      /\ Items \in Seq(RowKind) /\ Len(Items) \in Nat
      /\ Range(Items) = RowsShown(app, config, build)
  BY WholeIs, ItemsNow DEF Sound, Lasting
<1>2. pi # NoIndex /\ ui' = [ui EXCEPT !.sidebar_idx = i] /\ UNCHANGED <<config, app, build, cut>>
  BY DEF KeyHotkey
<1>3. pi \in DOMAIN config
  BY <1>1, <1>2, ConfigIs, FirstInIs DEF Named, Position, NoIndex
<1> HIDE DEF pi
<1>4. group \in Nat
  BY <1>1, FirstInIs
<1>5. row \in Range(Items)
  <2>1. row \in Range(LaunchRows(config))
    BY <1>1, <1>3, LaunchRowsAre, ConfigIs
  <2> QED BY <1>1, <2>1 DEF RowsShown
<1> HIDE DEF group, row
<1>6. Position(Items, row) \in Nat \ {0}
  BY <1>1, <1>5, PositionIs
<1>7. i \in Nat \ {0}
  BY <1>4, <1>6
<1> HIDE DEF i
<1> QED BY <1>2, <1>7, CursorKeeps

\* The pointers are set to sessions there are.
LEMMA Pointed ==
  ASSUME NEW a, NEW u, GoodUi(a, u), NEW v \in UiType,
         v.active_session \in {u.active_session, NoIndex} \cup DOMAIN a.sessions,
         v.active_network_session \in {u.active_network_session, NoIndex} \cup DOMAIN a.sessions,
         v.log_fullscreen = u.log_fullscreen,
         v.remove_workspace_confirm = u.remove_workspace_confirm
  PROVE  GoodUi(a, v)
BY DEF GoodUi

LEMMA OwnerIs ==
  ASSUME app \in AppType, NEW r
  PROVE  OwnerOf(r) \in {NoIndex} \cup DOMAIN app.sessions
<1>1. app.sessions \in Seq(Opened) /\ Len(app.sessions) \in Nat
  BY AppIs DEF AppType
<1> QED BY <1>1, FirstInIs DEF OwnerOf, NoIndex

LEMMA EnteredIs ==
  ASSUME Sound, turn.at = KeyStage
  PROVE  GoodUi(app, Entered(ui, Row))
<1> DEFINE v == Entered(ui, Row)
<1>1. /\ GoodUi(app, ui) /\ ui \in UiType /\ app \in AppType /\ GoodApp(app) /\ config \in Configs
  BY WholeIs DEF Sound, Lasting
<1>2. /\ Row[1] = "Session" => Row[2] \in DOMAIN app.session_groups
      /\ Row[1] = "NetworkGroup" => Row[2] \in DOMAIN app.sessions
      /\ Row[1] # "Activity" => Row[2] \in Nat
      /\ Row[1] = "Activity" => Row[2] \in ExecRequests
  BY KeyRow
<1>3. DOMAIN app.sessions \subseteq Nat /\ NoIndex \in Nat
  BY <1>1, AppIs DEF NoIndex
<1>4. /\ ui.active_session \in Nat /\ ui.active_network_session \in Nat /\ ui.network_cursor \in Nat
      /\ ui.active_activity \in Requests \cup {Nobody} /\ ui.active_settings_workspace \in Nat
      /\ ui.focus \in Focuses /\ ui.new_workspace \in BOOLEAN
  BY <1>1 DEF UiType
<1>5. CASE Row[1] = "NewSession"
  <2>1. v = ui \/ v = [ui EXCEPT !.container_picker = <<"workspace", NoIndex>>,
                                 !.focus = "ContainerPicker"]
    BY <1>5 DEF Entered
  <2>2. [ui EXCEPT !.container_picker = <<"workspace", NoIndex>>, !.focus = "ContainerPicker"]
          \in UiType
    BY <1>1, <1>3 DEF UiType, Focuses
  <2> HIDE DEF v
  <2>3. /\ v \in UiType /\ v.active_session = ui.active_session
        /\ v.active_network_session = ui.active_network_session
        /\ v.log_fullscreen = ui.log_fullscreen
        /\ v.remove_workspace_confirm = ui.remove_workspace_confirm
    BY <1>1, <2>1, <2>2 DEF UiType
  <2> QED BY <1>1, <2>3, Pointed DEF v
<1>6. CASE Row[1] = "Settings"
  <2>1. v = [ui EXCEPT !.active_settings_workspace = Row[2], !.active_activity = Nobody,
                       !.active_network_session = NoIndex, !.focus = "Settings"]
    BY <1>6 DEF Entered
  <2>2. Row[2] \in Nat
    BY <1>2, <1>6
  <2> HIDE DEF v
  <2>3. /\ v \in UiType /\ v.active_session = ui.active_session
        /\ v.active_network_session = NoIndex
        /\ v.log_fullscreen = ui.log_fullscreen
        /\ v.remove_workspace_confirm = ui.remove_workspace_confirm
    BY <1>1, <1>3, <2>1, <2>2 DEF UiType, Focuses
  <2> QED BY <1>1, <2>3, Pointed DEF v
<1>7. CASE Row[1] = "Launch"
  <2>1. v = [ui EXCEPT !.workspace_action_workspace = Row[2], !.active_activity = Nobody,
                       !.active_network_session = NoIndex, !.focus = "WorkspaceActions"]
    BY <1>7 DEF Entered
  <2>2. Row[2] \in Nat
    BY <1>2, <1>7
  <2> HIDE DEF v
  <2>3. /\ v \in UiType /\ v.active_session = ui.active_session
        /\ v.active_network_session = NoIndex
        /\ v.log_fullscreen = ui.log_fullscreen
        /\ v.remove_workspace_confirm = ui.remove_workspace_confirm
    BY <1>1, <1>3, <2>1, <2>2 DEF UiType, Focuses
  <2> QED BY <1>1, <2>3, Pointed DEF v
<1>8. CASE Row[1] = "Build"
  <2>1. v = [ui EXCEPT !.active_session = NoIndex, !.active_activity = Nobody,
                       !.active_network_session = NoIndex, !.focus = "ImageBuild",
                       !.active_settings_workspace = NoIndex]
    BY <1>8 DEF Entered
  <2> HIDE DEF v
  <2>2. "ImageBuild" \in Focuses
    BY DEF Focuses
  <2>3. /\ v \in UiType /\ v.active_session = NoIndex
        /\ v.active_network_session = NoIndex
        /\ v.log_fullscreen = ui.log_fullscreen
        /\ v.remove_workspace_confirm = ui.remove_workspace_confirm
    BY <1>1, <1>3, <2>1, <2>2 DEF UiType
  <2> QED BY <1>1, <2>3, Pointed DEF v
<1>9. CASE Row[1] = "Session"
  <2> DEFINE si == app.session_groups[Row[2]].terminal
  <2>1. v = IF si # NoIndex THEN OnSession(ui, si) ELSE ui
    BY <1>9 DEF Entered
  <2>2. si \in {NoIndex} \cup DOMAIN app.sessions
    BY <1>1, <1>2, <1>9 DEF GoodApp, Grouping
  <2> HIDE DEF v, si
  <2>3. CASE si = NoIndex
    BY <1>1, <2>1, <2>3 DEF v
  <2>4. CASE si # NoIndex
    <3>1. v = [ui EXCEPT !.active_session = si, !.focus = "Terminal", !.active_activity = Nobody,
                   !.active_network_session = NoIndex, !.active_settings_workspace = NoIndex]
      BY <2>1, <2>4 DEF OnSession
    <3>2. "Terminal" \in Focuses /\ si \in Nat
      BY <1>3, <2>2 DEF Focuses
    <3>3. /\ v \in UiType /\ v.active_session = si
          /\ v.active_network_session = NoIndex
          /\ v.log_fullscreen = ui.log_fullscreen
          /\ v.remove_workspace_confirm = ui.remove_workspace_confirm
      BY <1>1, <1>3, <3>1, <3>2 DEF UiType
    <3> QED BY <1>1, <2>2, <3>3, Pointed DEF v
  <2> QED BY <2>3, <2>4
<1>10. CASE Row[1] = "NetworkGroup"
  <2> DEFINE len == Len(NetActivities(app, Row[2]))
             end == IF len = 0 THEN 0 ELSE len - 1
             cursor == IF ui.active_network_session = Row[2] /\ ui.network_cursor < end
                       THEN ui.network_cursor ELSE end
             si == Row[2]
  <2>1. v = [ui EXCEPT !.active_session = si, !.active_activity = Nobody,
                       !.network_cursor = cursor, !.active_network_session = si,
                       !.focus = "Network", !.active_settings_workspace = NoIndex]
    BY <1>10 DEF Entered
  <2>2. cursor \in Nat
    <3>1. NetActivities(app, Row[2]) \in Seq(Activity)
      BY <1>1, ActivitiesAre DEF NetActivities
    <3>2. len \in Nat
      BY <3>1, LenProperties
    <3> HIDE DEF len
    <3> QED BY <1>4, <3>2
  <2>3. si \in DOMAIN app.sessions /\ si \in Nat /\ "Network" \in Focuses
    BY <1>2, <1>3, <1>10 DEF Focuses
  <2> HIDE DEF v, cursor, si
  <2>4. /\ v \in UiType /\ v.active_session = si
        /\ v.active_network_session = si
        /\ v.log_fullscreen = ui.log_fullscreen
        /\ v.remove_workspace_confirm = ui.remove_workspace_confirm
    BY <1>1, <1>3, <2>1, <2>2, <2>3 DEF UiType
  <2> QED BY <1>1, <2>3, <2>4, Pointed DEF v
<1>11. CASE Row[1] = "Activity"
  <2> DEFINE si == OwnerOf(Row[2])
             r == Row[2]
  <2>1. v = [ui EXCEPT !.active_session = si, !.active_activity = r,
                       !.active_network_session = NoIndex, !.focus = "Activity",
                       !.active_settings_workspace = NoIndex]
    BY <1>11 DEF Entered
  <2>2. si \in {NoIndex} \cup DOMAIN app.sessions /\ r \in Requests /\ "Activity" \in Focuses
    BY <1>1, <1>2, <1>11, OwnerIs DEF Requests, Focuses
  <2>3. si \in Nat
    BY <1>3, <2>2
  <2> HIDE DEF v, si, r
  <2>4. /\ v \in UiType /\ v.active_session = si
        /\ v.active_network_session = NoIndex
        /\ v.log_fullscreen = ui.log_fullscreen
        /\ v.remove_workspace_confirm = ui.remove_workspace_confirm
    BY <1>1, <1>3, <2>1, <2>2, <2>3 DEF UiType
  <2> QED BY <1>1, <2>2, <2>4, Pointed DEF v
<1>12. CASE Row[1] = "NewWorkspace"
  <2>1. v = [ui EXCEPT !.new_workspace = TRUE, !.focus = "NewWorkspace",
                       !.active_session = NoIndex, !.active_activity = Nobody,
                       !.active_network_session = NoIndex, !.active_settings_workspace = NoIndex,
                       !.container_picker = <<"none", NoIndex>>]
    BY <1>12 DEF Entered
  <2>2. "NewWorkspace" \in Focuses /\ <<"none", NoIndex>> \in {"none", "workspace", "template"} \X Nat
    BY <1>3 DEF Focuses
  <2> HIDE DEF v
  <2>3. /\ v \in UiType /\ v.active_session = NoIndex
        /\ v.active_network_session = NoIndex
        /\ v.log_fullscreen = ui.log_fullscreen
        /\ v.remove_workspace_confirm = ui.remove_workspace_confirm
    BY <1>1, <1>3, <2>1, <2>2 DEF UiType
  <2> QED BY <1>1, <2>3, Pointed DEF v
<1>13. CASE Row[1] \notin {"NewSession", "Settings", "Launch", "Build", "Session", "NetworkGroup",
                           "Activity", "NewWorkspace"}
  <2>1. v = ui
    BY <1>13 DEF Entered
  <2> QED BY <1>1, <2>1
<1> QED BY <1>5, <1>6, <1>7, <1>8, <1>9, <1>10, <1>11, <1>12, <1>13

LEMMA KeyEnterKeeps ==
  ASSUME Sound, turn.at = KeyStage, KeyEnter, asked' = asked
  PROVE  Lasting'
<1>1. Lasting /\ build \in BuildType
  BY WholeIs DEF Sound
<1>2. ui' = Entered(ui, Row) /\ UNCHANGED <<config, app, build, cut>>
  BY DEF KeyEnter
<1>3. GoodUi(app, ui')
  BY <1>2, EnteredIs
<1> QED BY <1>1, <1>2, <1>3, UiKeeps

LEMMA PromptIs ==
  ASSUME config \in Configs, NEW u, GoodUi(app, u), ~u.log_fullscreen, NEW pi
  PROVE  GoodUi(app, Prompt(u, pi))
<1> DEFINE v == Prompt(u, pi)
<1>1. CASE pi \in DOMAIN config
  <2>1. v = [u EXCEPT !.remove_workspace_confirm = config[pi]]
    BY <1>1 DEF Prompt
  <2>2. config[pi] \in Workspaces /\ u \in UiType
    BY <1>1, ConfigIs, ElementOfSeq DEF GoodUi
  <2> HIDE DEF v
  <2>3. /\ v \in UiType /\ v.active_session = u.active_session
        /\ v.active_network_session = u.active_network_session /\ ~v.log_fullscreen
    BY <2>1, <2>2 DEF UiType
  <2> QED BY <2>3 DEF GoodUi, v
<1>2. CASE pi \notin DOMAIN config
  BY <1>2 DEF Prompt
<1> QED BY <1>1, <1>2

LEMMA KeyDeleteKeeps ==
  ASSUME Sound, KeyDelete, asked' = asked
  PROVE  Lasting'
<1>1. Lasting /\ build \in BuildType /\ GoodUi(app, ui) /\ config \in Configs
  BY WholeIs DEF Sound, Lasting
<1>2. /\ \E pi : ui' = Prompt(ui, pi)
      /\ UNCHANGED <<config, app, build, cut>> /\ ~ui.log_fullscreen
  BY DEF KeyDelete, In
<1>3. GoodUi(app, ui')
  BY <1>1, <1>2, PromptIs
<1> QED BY <1>1, <1>2, <1>3, UiKeeps

LEMMA KeyStopKeeps ==
  ASSUME Sound, KeyStop, asked' = asked
  PROVE  Lasting'
<1>1. Lasting /\ build \in BuildType /\ GoodUi(app, ui) /\ app \in AppType
  BY WholeIs DEF Sound
<1>2. ui.active_session \in DOMAIN app.sessions
  BY <1>1 DEF GoodUi, KeyStop, OnTerminal
<1>3. app' = Mark(app, ui.active_session) /\ ui' = ui /\ UNCHANGED <<config, build, cut>>
  BY DEF KeyStop
<1>4. /\ app' \in AppType /\ app'.session_groups = app.session_groups
      /\ DOMAIN app'.sessions = DOMAIN app.sessions
      /\ \A sj \in DOMAIN app.sessions : app'.sessions[sj].id = app.sessions[sj].id
  BY <1>1, <1>2, <1>3, MarkIs
<1>5. Good(Whole')
  BY <1>1, <1>3, <1>4, AppMoves
<1> QED BY <1>1, <1>3, <1>5 DEF Lasting

LEMMA KeyNetworkMoveKeeps ==
  ASSUME Sound, NEW k \in Nat, KeyNetworkMove(k), asked' = asked
  PROVE  Lasting'
<1>1. Lasting /\ build \in BuildType /\ GoodUi(app, ui) /\ ui \in UiType
  BY WholeIs DEF Sound
<1>2. ui' = [ui EXCEPT !.network_cursor = k] /\ UNCHANGED <<config, app, build, cut>>
  BY DEF KeyNetworkMove
<1>3. GoodUi(app, ui')
  BY <1>1, <1>2 DEF GoodUi, UiType
<1> QED BY <1>1, <1>2, <1>3, UiKeeps

LEMMA LeftLog ==
  ASSUME NEW u \in UiType
  PROVE  ~Left(u).log_fullscreen
BY DEF Left, UiType

LEMMA KeySettingsKeeps ==
  ASSUME Sound, KeySettings \/ KeyWorkspaceActions, asked' = asked
  PROVE  Lasting'
<1> DEFINE out == Left(ui)
           pi == ui.workspace_action_workspace
           picked == [out EXCEPT !.container_picker = <<"template", pi>>,
                                 !.focus = "ContainerPicker"]
<1>1. /\ Lasting /\ build \in BuildType /\ GoodUi(app, ui) /\ ui \in UiType /\ config \in Configs
      /\ pi \in Nat
  BY WholeIs DEF Sound, Lasting, UiType
<1>2. GoodUi(app, out) /\ ~out.log_fullscreen
  BY <1>1, LeftIs, LeftLog
<1>3. /\ UNCHANGED <<config, app, build, cut>> /\ ~ui.log_fullscreen
      /\ \/ ui' = out \/ ui' = ui \/ ui' = picked
         \/ ui' = Prompt(ui, ui.active_settings_workspace) \/ ui' = Prompt(out, pi)
  BY DEF KeySettings, KeyWorkspaceActions, PaneGone, In
<1> HIDE DEF out, pi
<1>4. GoodUi(app, picked)
  <2>1. out \in UiType
    BY <1>2 DEF GoodUi
  <2>2. <<"template", pi>> \in {"none", "workspace", "template"} \X Nat /\ "ContainerPicker" \in Focuses
    BY <1>1 DEF Focuses
  <2>3. /\ picked \in UiType /\ picked.active_session = out.active_session
        /\ picked.active_network_session = out.active_network_session
        /\ picked.log_fullscreen = out.log_fullscreen
        /\ picked.remove_workspace_confirm = out.remove_workspace_confirm
    BY <2>1, <2>2 DEF UiType
  <2> HIDE DEF picked
  <2> QED BY <1>2, <2>3, Pointed
<1> HIDE DEF picked
<1>5. GoodUi(app, ui')
  BY <1>1, <1>2, <1>3, <1>4, PromptIs
<1> QED BY <1>1, <1>3, <1>5, UiKeeps

LEMMA KeyPickKeeps ==
  ASSUME Sound, NEW pi \in Nat, KeyPick(pi), asked' = asked
  PROVE  Lasting'
<1>1. Lasting /\ build \in BuildType /\ GoodUi(app, ui) /\ ui \in UiType
  BY WholeIs DEF Sound
<1>2. ui' = [ui EXCEPT !.container_picker = <<"template", pi>>] /\ UNCHANGED <<config, app, build, cut>>
  BY DEF KeyPick
<1>3. GoodUi(app, ui')
  <2>1. <<"template", pi>> \in {"none", "workspace", "template"} \X Nat
    OBVIOUS
  <2> QED BY <1>1, <1>2, <2>1 DEF GoodUi, UiType
<1> QED BY <1>1, <1>2, <1>3, UiKeeps

LEMMA KeyLaunchKeeps ==
  ASSUME Sound, KeyLaunch, asked' = asked
  PROVE  Lasting'
<1> DEFINE picked == [Whole EXCEPT !.u = Left(ui)]
           pi == ui.container_picker[2]
<1>1. /\ Lasting /\ build \in BuildType /\ GoodApp(app) /\ GoodUi(app, Left(ui))
      /\ config \in Configs
  BY WholeIs, LeftIs DEF Sound, Lasting
<1>2. picked = [a |-> app, u |-> Left(ui), b |-> build]
  BY DEF Whole
<1> HIDE DEF picked
<1>3. Good(picked)
  BY <1>1, <1>2, WholeMade
<1>4. /\ \E st \in LaunchOutcomes(picked, config, pi) : Becomes(st)
      /\ UNCHANGED <<config, cut>>
  BY DEF KeyLaunch, picked
<1>5. Good(Whole')
  BY <1>1, <1>3, <1>4, LaunchIs, BecomesIs
<1> QED BY <1>1, <1>4, <1>5 DEF Lasting

LEMMA KeyBuildKeeps ==
  ASSUME Sound, KeyBuild, asked' = asked
  PROVE  Lasting'
<1>1. Lasting /\ Good(Whole) /\ config \in Configs
  BY DEF Sound, Lasting
<1>2. /\ \E st \in RunBuild(Whole, config, SelectedWorkspace(Row)) : Becomes(st)
      /\ UNCHANGED <<config, cut>>
  BY DEF KeyBuild
<1>3. Good(Whole')
  BY <1>1, <1>2, RunBuildIs, BecomesIs
<1> QED BY <1>1, <1>2, <1>3 DEF Lasting

LEMMA FocusIs ==
  ASSUME NEW a, NEW u, GoodUi(a, u), NEW focus \in Focuses
  PROVE  GoodUi(a, [u EXCEPT !.focus = focus])
         /\ GoodUi(a, [u EXCEPT !.new_workspace = FALSE, !.focus = focus])
BY DEF GoodUi, UiType

LEMMA KeyBuildEndKeeps ==
  ASSUME Sound, KeyBuildStop \/ KeyBuildLeave, asked' = asked
  PROVE  Lasting'
<1>1. Lasting /\ build \in BuildType /\ GoodUi(app, ui)
  BY WholeIs DEF Sound
<1>2. ui' = [ui EXCEPT !.focus = "Sidebar"] /\ UNCHANGED <<config, app, cut>>
  BY DEF KeyBuildStop, KeyBuildLeave
<1>3. build' \in BuildType
  <2>1. \/ build' = [build EXCEPT !.stop = TRUE, !.done = Nobody]
        \/ build' = build
        \/ build' = [build EXCEPT !.done = Nobody]
        \/ build' = [build EXCEPT !.ctr = FALSE, !.ws = NoIndex]
    BY DEF KeyBuildStop, KeyBuildLeave
  <2>2. CASE build' = [build EXCEPT !.stop = TRUE, !.done = Nobody]
    BY <1>1, <2>2 DEF BuildType
  <2>3. CASE build' = build
    BY <1>1, <2>3
  <2>4. CASE build' = [build EXCEPT !.done = Nobody]
    BY <1>1, <2>4 DEF BuildType
  <2>5. CASE build' = [build EXCEPT !.ctr = FALSE, !.ws = NoIndex]
    BY <1>1, <2>5 DEF BuildType, NoIndex
  <2> QED BY <2>1, <2>2, <2>3, <2>4, <2>5
<1>4. GoodUi(app, ui')
  BY <1>1, <1>2, FocusIs DEF Focuses
<1> QED BY <1>1, <1>2, <1>3, <1>4, UiKeeps

LEMMA KeyFormLeaveKeeps ==
  ASSUME Sound, KeyFormLeave, asked' = asked
  PROVE  Lasting'
<1>1. Lasting /\ build \in BuildType /\ GoodUi(app, ui)
  BY WholeIs DEF Sound
<1>2. /\ ui' = [ui EXCEPT !.new_workspace = FALSE, !.focus = "Sidebar"]
      /\ UNCHANGED <<config, app, build, cut>>
  BY DEF KeyFormLeave
<1>3. GoodUi(app, ui')
  BY <1>1, <1>2, FocusIs DEF Focuses
<1> QED BY <1>1, <1>2, <1>3, UiKeeps

LEMMA KeySubmitKeeps ==
  ASSUME Sound, NEW c \in Configs, KeySubmit(c), asked' = asked
  PROVE  Lasting'
<1> DEFINE row == <<"Launch", Len(c)>>
           items == SidebarItems(app, c, build)
           i == Position(items, row)
           v == [ui EXCEPT !.new_workspace = FALSE, !.focus = "Sidebar"]
<1>1. Lasting /\ build \in BuildType /\ GoodUi(app, ui) /\ app \in AppType
  BY WholeIs DEF Sound
<1>2. /\ ui' = [ui EXCEPT !.new_workspace = FALSE, !.focus = "Sidebar", !.sidebar_idx = i]
      /\ config' = c /\ c # <<>> /\ UNCHANGED <<app, build, cut>>
  BY DEF KeySubmit
<1>3. i \in Nat \ {0}
  <2>1. items \in Seq(RowKind) /\ Range(items) = RowsShown(app, c, build)
    BY <1>1, ItemsAre
  <2>2. Len(c) \in DOMAIN c
    BY <1>2, ConfigIs, EmptySeq
  <2>3. row \in Range(LaunchRows(c))
    BY <1>2, <2>2, LaunchRowsAre
  <2>4. row \in Range(items)
    BY <2>1, <2>3 DEF RowsShown
  <2> HIDE DEF items, row
  <2> QED BY <2>1, <2>4, PositionIs
<1> HIDE DEF i
<1>4. GoodUi(app, v)
  BY <1>1, FocusIs DEF Focuses
<1>5. ui' = [v EXCEPT !.sidebar_idx = i]
  BY <1>2
<1> HIDE DEF v
<1>6. GoodUi(app, ui')
  BY <1>3, <1>4, <1>5 DEF GoodUi, UiType
<1>7. Good(Whole')
  BY <1>1, <1>2, <1>6, UiMoves
<1> QED BY <1>1, <1>2, <1>7 DEF Lasting

LEMMA KeyKeeps ==
  ASSUME Sound, turn.at = KeyStage, AnyKey, asked' = asked
  PROVE  Lasting'
<1>1. CASE SidebarKey
  BY <1>1, KeyMoveKeeps, KeyHotkeyKeeps, KeyEnterKeeps, KeyDeleteKeeps DEF SidebarKey
<1>2. CASE PaneKey
  <2>1. CASE KeyStop \/ KeyCut \/ KeyNetworkCut
    BY <2>1, KeyStopKeeps, KeyCutKeeps
  <2>2. CASE \E k \in 0 .. Cardinality(NetRequests) : KeyNetworkMove(k)
    BY <2>2, KeyNetworkMoveKeeps
  <2>3. CASE \E c \in Configs : \E pi \in DOMAIN c : KeyPick(pi)
    BY <2>3, KeyPickKeeps, ConfigIs
  <2>4. CASE \/ KeySettings \/ KeyWorkspaceActions \/ KeyLaunch \/ KeyBuild \/ KeyBuildStop
             \/ KeyBuildLeave \/ KeyFormLeave
    BY <2>4, KeySettingsKeeps, KeyLaunchKeeps, KeyBuildKeeps, KeyBuildEndKeeps, KeyFormLeaveKeeps
  <2>5. CASE \E c \in Configs : KeySubmit(c)
    BY <2>5, KeySubmitKeeps
  <2> QED BY <1>2, <2>1, <2>2, <2>3, <2>4, <2>5 DEF PaneKey
<1>3. CASE \/ KeyBack \/ KeyCancelActivity \/ KeyCancelConnection \/ KeyCancelBuild
           \/ KeyCutAsked \/ KeyFullscreen \/ KeyLog
  BY <1>3, KeyBackKeeps, KeyCancelKeeps, KeyCancelBuildKeeps, KeyCutKeeps, KeyScreenKeeps
<1>4. CASE \E yes \in BOOLEAN : KeyConfirm(yes)
  BY <1>4, KeyConfirmKeeps
<1>5. CASE \E r \in Requests : KeyDecide(r)
  BY <1>5, KeyDecideKeeps
<1> QED BY <1>1, <1>2, <1>3, <1>4, <1>5 DEF AnyKey

-----------------------------------------------------------------------------
(* The invariant holds *)

\* Each step of the drain keeps what lasts, and lets no key in before its frame.
LEMMA DrainKeeps ==
  ASSUME Sound, Drain
  PROVE  /\ (Persists /\ Unseen) \/ Restore \/ \E gone : EndTurn(gone)
         /\ turn'.at = KeyStage => ui'.sidebar_idx \in DOMAIN Items'
<1>1. CASE Restore
  BY <1>1, RestoreKeeps
<1>2. CASE \E gone : EndTurn(gone)
  BY <1>2, EndTurnKeeps
<1>3. CASE DrainFirst
  BY <1>3, ArriveKeeps, RequestLaunchKeeps, RefreshKeeps, PruneCutKeeps
     DEF DrainFirst, Requests, Unseen
<1>4. CASE \E r \in NetRequests : ArriveNet(r)
  BY <1>4, ArriveKeeps DEF Requests, Unseen
<1>5. CASE \E r \in Requests : DecideElsewhere(r) \/ ActivityEvent(r)
  BY <1>5, DecideElsewhereKeeps, ActivityEventKeeps DEF Unseen
<1>6. CASE \E outcome \in {"failed", "cancelled", "success"} : BuildFinished(outcome)
  BY <1>6, BuildFinishedKeeps DEF Unseen
<1>7. CASE \E si \in DOMAIN app.sessions : SessionExits(si) \/ SessionCloses(si) \/ StopRequested(si)
  BY <1>7, SessionExitsKeeps, SessionClosesKeeps, StopRequestedKeeps DEF Unseen
<1>8. \/ DrainFirst \/ Restore \/ \E gone : EndTurn(gone)
      \/ \E r \in NetRequests : ArriveNet(r)
      \/ \E r \in Requests : DecideElsewhere(r) \/ ActivityEvent(r)
      \/ \E outcome \in {"failed", "cancelled", "success"} : BuildFinished(outcome)
      \/ \E si \in DOMAIN app.sessions : SessionExits(si) \/ SessionCloses(si) \/ StopRequested(si)
  BY DEF Drain, DrainThen, DrainLast
<1> QED BY <1>1, <1>2, <1>3, <1>4, <1>5, <1>6, <1>7, <1>8

LEMMA MeaningIs ==
  ASSUME NEW a, GoodApp(a), NEW c \in Configs, NEW row \in RowKind \cup {Nobody},
         row[1] = "Session" => row[2] \in DOMAIN a.session_groups,
         row[1] = "NetworkGroup" => row[2] \in DOMAIN a.sessions
  PROVE  Meaning(row, a, c) \in Meanings
<1>0. a \in AppType
  BY DEF GoodApp
<1>1. CASE row = Nobody
  BY <1>1 DEF Meaning, Meanings, Nobody
<1>2. CASE row \in RowKind /\ row[1] = "Session"
  <2> DEFINE group == a.session_groups[row[2]]
  <2>1. group.terminal \in Nat /\ (group.terminal = NoIndex \/ group.terminal \in DOMAIN a.sessions)
    BY <1>0, <1>2, AppIs DEF GoodApp, Grouping, Group
  <2>2. row[2] \in Nat
    BY <1>2, RowTarget
  <2>3. Meaning(row, a, c) = IF group.terminal = NoIndex THEN <<"group", row[2]>>
                             ELSE <<"session", a.sessions[group.terminal].id>>
    BY <1>2 DEF Meaning
  <2>4. group.terminal # NoIndex => a.sessions[group.terminal].id \in Nat
    BY <1>0, <2>1, AppIs DEF Opened
  <2> QED BY <2>1, <2>2, <2>3, <2>4 DEF Meanings
<1>3. CASE row \in RowKind /\ row[1] = "NetworkGroup"
  <2>1. a.sessions[row[2]].id \in Nat
    BY <1>0, <1>3, AppIs DEF Opened
  <2>2. Meaning(row, a, c) = <<"network", a.sessions[row[2]].id>>
    BY <1>3 DEF Meaning
  <2> QED BY <2>1, <2>2 DEF Meanings
<1>4. CASE row \in RowKind /\ row[1] \in {"Settings", "Launch", "Build"}
  <2>1. row[2] \in DOMAIN c => c[row[2]] \in Workspaces
    BY ConfigIs
  <2>2. Meaning(row, a, c) = <<row[1], IF row[2] \in DOMAIN c THEN c[row[2]] ELSE Nobody>>
    BY <1>4 DEF Meaning
  <2> QED BY <1>4, <2>1, <2>2 DEF Meanings
<1>5. CASE row \in RowKind /\ row[1] \notin {"Session", "NetworkGroup", "Settings", "Launch", "Build"}
  BY <1>5 DEF Meaning, Meanings
<1> QED BY <1>1, <1>2, <1>3, <1>4, <1>5

\* The selected row is one of the sidebar's, or none.
LEMMA RowMeans ==
  ASSUME NEW a, GoodApp(a), NEW c \in Configs, NEW b, NEW u,
         NEW items, items = SidebarItems(a, c, b), NEW row, row = RowAt(items, u)
  PROVE  row \in Range(items) \cup {Nobody} /\ row \in RowKind \cup {Nobody}
         /\ Meaning(row, a, c) \in Meanings
<1>1. items \in Seq(RowKind) /\ row \in Range(items) \cup {Nobody}
  BY ItemsAre DEF RowAt, Range, GoodApp
<1>3. CASE row = Nobody
  BY <1>3, MeaningIs DEF Nobody
<1>4. CASE row \in Range(items)
  <2>1. /\ row \in RowKind
        /\ row[1] = "Session" => row[2] \in DOMAIN a.session_groups
        /\ row[1] = "NetworkGroup" => row[2] \in DOMAIN a.sessions
    BY <1>4, RowIs
  <2> QED BY <1>4, <2>1, MeaningIs
<1> QED BY <1>1, <1>3, <1>4

LEMMA RowNow ==
  ASSUME Lasting
  PROVE  Row \in Range(Items) \cup {Nobody} /\ Row \in RowKind \cup {Nobody}
         /\ Meaning(Row, app, config) \in Meanings
BY RowMeans, WholeIs DEF Lasting, Row, Items

LEMMA BegunIs ==
  ASSUME turn \in TurnType, Lasting', NEW pressed \in {0, 1}, turn' = Begun(pressed)
  PROVE  turn' \in TurnType /\ turn'.at = 0 /\ turn'.changed = (pressed = 1) /\ turn'.calm = TRUE
         /\ turn'.selected = Row' /\ turn'.meant = Meaning(Row, app, config)'
<1> DEFINE row == Row'
           meant == Meaning(Row, app, config)'
           n == turn.keys + pressed
           seen == pressed = 1
<1>1. row \in RowKind \cup {Nobody} /\ meant \in Meanings
  BY RowMeans DEF Lasting, Good, Whole, Row, Items
<1>2. n \in Nat /\ seen \in BOOLEAN /\ TRUE \in BOOLEAN /\ 0 \in 0 .. KeyStage
  BY DEF TurnType, KeyStage
<1>3. turn' = [turn EXCEPT !.at = 0, !.keys = n, !.changed = seen, !.calm = TRUE,
                           !.selected = row, !.meant = meant]
  BY DEF Begun
<1> HIDE DEF row, meant, n, seen
<1>4. /\ turn' \in TurnType /\ turn'.at = 0 /\ turn'.changed = seen /\ turn'.calm = TRUE
      /\ turn'.selected = row /\ turn'.meant = meant
  BY <1>1, <1>2, <1>3 DEF TurnType
<1> QED BY <1>4 DEF row, meant, seen

LEMMA AsksKeeps ==
  ASSUME Sound, NEW r \in Requests, NEW si \in DOMAIN app.sessions, Asks(r, si)
  PROVE  Sound'
<1>1. Lasting /\ app \in AppType /\ asked \in AskedType
  BY WholeIs DEF Sound, Lasting
<1>2. app.sessions[si].id \in Nat /\ app.sessions[si].ws \in Workspaces
  BY <1>1, AppIs DEF Opened
<1>3. UNCHANGED <<config, app, ui, build, cut, turn, drawn>>
  BY DEF Asks
<1>4. asked' \in AskedType
  <2> DEFINE id == app.sessions[si].id
             w == app.sessions[si].ws
  <2>1. id \in Nat /\ w \in Workspaces \cup {Nobody}
    BY <1>2
  <2>2. asked' = [asked EXCEPT ![r].by = id, ![r].ws = w]
    BY DEF Asks
  <2> HIDE DEF id, w
  <2> QED BY <1>1, <2>1, <2>2 DEF AskedType
<1>5. Good(Whole') /\ Items' = Items
  BY <1>1, <1>3 DEF Lasting, Whole, Items
<1> QED BY <1>1, <1>3, <1>4, <1>5 DEF Sound, Lasting

THEOREM SoundInit ==
  ASSUME InterfaceInit
  PROVE  Sound
<1>1. config \in Configs
  BY DEF InterfaceInit
<1>2. app \in AppType /\ Grouping(app)
  <2> DEFINE e == <<>>
  <2>1. e \in Seq(Opened) /\ e \in Seq(Group) /\ e \in Seq(Activity) /\ e \in Seq(Requests)
        /\ DOMAIN e = {}
    OBVIOUS
  <2>2. app = [sessions |-> e, session_groups |-> e, activities |-> e, pending_exec |-> e,
               pending_net |-> e, launched |-> 0]
    BY DEF InterfaceInit
  <2> HIDE DEF e
  <2> QED BY <2>1, <2>2 DEF AppType, Grouping
<1>3. GoodUi(app, ui)
  <2>1. "Sidebar" \in Focuses /\ NoIndex \in Nat /\ 1 \in Nat \ {0} /\ 0 \in Nat
        /\ <<"none", NoIndex>> \in {"none", "workspace", "template"} \X Nat
    BY DEF Focuses, NoIndex
  <2>2. ui \in UiType
    BY <2>1 DEF InterfaceInit, UiType
  <2> QED BY <2>2 DEF GoodUi, InterfaceInit
<1>4. build \in BuildType
  BY DEF InterfaceInit, BuildType, NoIndex
<1>5. Good(Whole)
  BY <1>2, <1>3, <1>4, WholeMade DEF GoodApp, Whole
<1>6. asked \in AskedType /\ cut \subseteq Requests
  BY DEF InterfaceInit, AskedType, NoIndex
<1>7. Lasting
  BY <1>1, <1>5, <1>6 DEF Lasting
<1>8. Row \in RowKind \cup {Nobody} /\ Meaning(Row, app, config) \in Meanings
  BY <1>7, RowNow
<1>9. turn \in TurnType /\ turn.at # KeyStage
  <2> DEFINE row == Row
             meant == Meaning(Row, app, config)
  <2>1. row \in RowKind \cup {Nobody} /\ meant \in Meanings /\ 0 \in Nat /\ 0 \in 0 .. KeyStage
        /\ TRUE \in BOOLEAN /\ 0 # KeyStage
    BY <1>8 DEF KeyStage
  <2>2. turn = [at |-> 0, selected |-> row, meant |-> meant, events |-> 0, keys |-> 0,
                calm |-> TRUE, changed |-> TRUE]
    BY DEF InterfaceInit
  <2> HIDE DEF row, meant
  <2> QED BY <2>1, <2>2 DEF TurnType
<1> QED BY <1>7, <1>9 DEF Sound

THEOREM SoundNext ==
  ASSUME Sound, [InterfaceNext]_interfaceVars
  PROVE  Sound'
<1>1. CASE Drain
  BY <1>1, DrainKeeps, RestoreKeeps, EndTurnKeeps DEF Persists, Sound
<1>2. CASE Key
  <2>1. turn.at = KeyStage /\ AnyKey /\ turn' = Begun(1) /\ asked' = asked
    BY <1>2 DEF Key
  <2>2. Lasting'
    BY <2>1, KeyKeeps
  <2>3. turn' \in TurnType /\ turn'.at = 0
    BY <2>1, <2>2, BegunIs DEF Sound
  <2> QED BY <2>2, <2>3 DEF Sound, KeyStage
<1>3. CASE NoKey
  <2>1. UNCHANGED <<config, app, ui, build, asked, cut>> /\ turn' = Begun(0)
    BY <1>3 DEF NoKey
  <2>2. Lasting'
    BY <2>1 DEF Sound, Lasting, Whole
  <2>3. turn' \in TurnType /\ turn'.at = 0
    BY <2>1, <2>2, BegunIs DEF Sound
  <2> QED BY <2>2, <2>3 DEF Sound, KeyStage
<1>4. CASE \E r \in Requests : \E si \in DOMAIN app.sessions : Asks(r, si)
  BY <1>4, AsksKeeps
<1>5. CASE UNCHANGED interfaceVars
  BY <1>5 DEF Sound, Lasting, Whole, Items, interfaceVars
<1> QED BY <1>1, <1>2, <1>3, <1>4, <1>5 DEF InterfaceNext

\* The pointers of every drained event follow.
LEMMA PointersStay ==
  ASSUME Sound, [InterfaceNext]_interfaceVars, turn.at # KeyStage
  PROVE  Follows(Whole, Whole')
<1>1. CASE Drain
  BY <1>1, DrainKeeps, RestoreKeeps, EndTurnKeeps DEF Persists
<1>2. CASE UNCHANGED interfaceVars
  <2>1. app' = app /\ ui' = ui /\ build' = build
    BY <1>2 DEF interfaceVars
  <2> QED BY <2>1 DEF Follows, Whole
<1>3. ~Key /\ ~NoKey /\ ~\E r \in Requests : \E si \in DOMAIN app.sessions : Asks(r, si)
  BY DEF Key, NoKey, Asks
<1> QED BY <1>1, <1>2, <1>3 DEF InterfaceNext

LEMMA SoundOK ==
  ASSUME Sound
  PROVE  InterfaceOK
<1>1. /\ app \in AppType /\ Grouping(app) /\ ui \in UiType /\ GoodUi(app, ui)
      /\ config \in Configs /\ cut \subseteq Requests
  BY WholeIs DEF Sound, Lasting, GoodApp
<1>2. ASSUME NEW si \in DOMAIN app.sessions
      PROVE  Cardinality({g \in DOMAIN app.session_groups :
                             app.session_groups[g].terminal = si}) = 1
  <2> DEFINE groups == {g \in DOMAIN app.session_groups : app.session_groups[g].terminal = si}
  <2>1. si # NoIndex
    BY <1>1, AppIs DEF NoIndex
  <2>2. PICK g \in DOMAIN app.session_groups : app.session_groups[g].terminal = si
    BY <1>1 DEF Grouping
  <2>3. groups = {g}
    BY <1>1, <2>1, <2>2 DEF Grouping
  <2>4. Cardinality({g}) = 1
    BY FS_Singleton
  <2> QED BY <2>3, <2>4
<1>3. {g.terminal : g \in Range(app.session_groups)} \cup
        {ui.active_session, ui.active_network_session} \subseteq {NoIndex} \cup DOMAIN app.sessions
  BY <1>1 DEF Grouping, GoodUi, Range
<1>4. ui.focus \in Focuses
  BY <1>1 DEF UiType
<1> QED BY <1>1, <1>2, <1>3, <1>4 DEF InterfaceOK, Sound

\* Every session is the terminal of exactly one group of the sidebar, every
\* pointer of the interface into the sessions names one or nothing, and a key is
\* only ever read with the cursor on a row: whatever was drained, closed,
\* launched, built or reloaded before it.
THEOREM InterfaceOKHolds == InterfaceSpec => []InterfaceOK
<1>1. InterfaceInit => Sound
  BY SoundInit
<1>2. Sound /\ [InterfaceNext]_interfaceVars => Sound'
  BY SoundNext
<1>3. Sound => InterfaceOK
  BY SoundOK
<1> QED BY <1>1, <1>2, <1>3, PTL DEF InterfaceSpec

\* While a turn drains its channels, the pane of an open session and the pane of
\* its connections go on naming the session they named, though the list of the
\* sessions is shortened under their index; they move only to a session launched
\* in that step, or to nothing.
THEOREM PointersFollowHolds == InterfaceSpec => PointersFollow
<1> DEFINE Safe == turn.at # KeyStage =>
          /\ ui'.active_session # NoIndex => SessionAt(ui.active_session)' \in
                {SessionAt(ui.active_session)} \cup (app.launched + 1 .. app'.launched)
          /\ ui'.active_network_session # NoIndex =>
                SessionAt(ui.active_network_session)' = SessionAt(ui.active_network_session)
<1>1. InterfaceInit => Sound
  BY SoundInit
<1>2. Sound /\ [InterfaceNext]_interfaceVars => Sound'
  BY SoundNext
<1>3. Sound /\ [InterfaceNext]_interfaceVars => [Safe]_interfaceVars
  <2> SUFFICES ASSUME Sound, [InterfaceNext]_interfaceVars, turn.at # KeyStage
               PROVE  Safe
    OBVIOUS
  <2> QED BY PointersStay DEF Follows, SessionIn, SessionAt, Whole
<1> QED BY <1>1, <1>2, <1>3, PTL DEF InterfaceSpec, PointersFollow

-----------------------------------------------------------------------------
(* What is shown *)

\* The two cursors are set.
Cursored(u, i, k) == [u EXCEPT !.network_cursor = k, !.sidebar_idx = i]

\* A frame reads the cursor only to find its row, and the network pane's only to
\* find its request.
LEMMA FrameSame ==
  ASSUME NEW a \in AppType, NEW x \in AppType, NEW u \in UiType, NEW v \in UiType,
         NEW items \in Seq(RowKind), NEW jtems \in Seq(RowKind),
         u.sidebar_idx \in DOMAIN items, v.sidebar_idx \in DOMAIN jtems,
         jtems[v.sidebar_idx] = items[u.sidebar_idx],
         NEW i, NEW k, v = Cursored(u, i, k),
         x.sessions = a.sessions, x.session_groups = a.session_groups,
         x.pending_exec = a.pending_exec, x.pending_net = a.pending_net,
         u.active_network_session \in DOMAIN a.sessions =>
           NetworkPoint(x, v, u.active_network_session) = NetworkPoint(a, u, u.active_network_session)
  PROVE  FrameOf(x, v, jtems) = FrameOf(a, u, items)
<1>1. /\ v.focus = u.focus /\ v.active_session = u.active_session
      /\ v.active_network_session = u.active_network_session
      /\ v.active_activity = u.active_activity
      /\ v.active_settings_workspace = u.active_settings_workspace
      /\ v.workspace_action_workspace = u.workspace_action_workspace
      /\ v.container_picker = u.container_picker
      /\ v.remove_workspace_confirm = u.remove_workspace_confirm
      /\ v.log_fullscreen = u.log_fullscreen /\ v.terminal_fullscreen = u.terminal_fullscreen
  BY DEF UiType, Cursored
<1>2. RowAt(jtems, v) = RowAt(items, u)
  BY DEF RowAt
<1>3. Showing(x) = Showing(a)
  BY DEF Showing
<1>4. \A p : SessionPane(x, p) = SessionPane(a, p)
  BY DEF SessionPane
<1>5. PickerPane(v) = PickerPane(u)
  BY <1>1 DEF PickerPane
<1>6. RightPane(x, v, jtems) = RightPane(a, u, items)
  BY <1>1, <1>2, <1>4, <1>5 DEF RightPane
<1>7. Pane(x, v, jtems) = Pane(a, u, items)
  BY <1>1, <1>4, <1>6 DEF Pane
<1>8. Highlight(x, v, jtems) = Highlight(a, u, items)
  <2>1. ~(u.sidebar_idx > Len(items)) /\ ~(v.sidebar_idx > Len(jtems))
    BY LenProperties
  <2>2. \A row : Meaning(row, x, config) = Meaning(row, a, config)
    BY DEF Meaning
  <2> QED BY <1>1, <2>1, <2>2 DEF Highlight
<1> HIDE DEF AppType, UiType
<1>9. (IF v.focus = "Network" /\ v.active_network_session \in DOMAIN x.sessions
       THEN NetworkPoint(x, v, v.active_network_session) ELSE Nobody)
      = (IF u.focus = "Network" /\ u.active_network_session \in DOMAIN a.sessions
         THEN NetworkPoint(a, u, u.active_network_session) ELSE Nobody)
  BY <1>1
<1> QED BY <1>1, <1>2, <1>3, <1>7, <1>8, <1>9 DEF FrameOf

\* A frame reads no more of the state than the lists, the pointers, the
\* configuration and the build.
LEMMA FrameNext ==
  ASSUME config' = config, build' = build
  PROVE  CurrentFrame' = FrameOf(app', ui', Items')
BY DEF CurrentFrame, FrameOf, Showing, Pane, RightPane, WorkspacePane, SessionPane, PickerPane,
       BuildPane, NetworkPoint, NetActivities, ActivitiesFor, Highlight, RowAt

\* Activities that age are listed as before.
LEMMA AgedAlike ==
  ASSUME app \in AppType, NEW aged \in Seq(Activity), Len(aged) = Len(app.activities),
         \A k \in DOMAIN app.activities :
           aged[k].id = app.activities[k].id /\ aged[k].session = app.activities[k].session,
         NEW x \in AppType, x.activities = aged, x.sessions = app.sessions, NEW si
  PROVE  /\ Len(NetActivities(x, si)) = Len(NetActivities(app, si))
         /\ \A k \in DOMAIN NetActivities(app, si) :
              NetActivities(x, si)[k].id = NetActivities(app, si)[k].id
<1> DEFINE list == app.activities
           id == app.sessions[si].id
           set == {y \in Range(list) : y.session = id /\ y.id \in NetRequests}
           some == {y \in Range(aged) : y.session = id /\ y.id \in NetRequests}
           kept == Keeping(list, set)
           rest == Keeping(aged, some)
<1>1. NetActivities(app, si) = kept /\ NetActivities(x, si) = rest
  BY DEF NetActivities, ActivitiesFor
<1>2. list \in Seq(Activity) /\ DOMAIN aged = DOMAIN list
  <2>1. list \in Seq(Activity)
    BY DEF AppType
  <2> QED BY <2>1, LenProperties
<1>3. \A k \in DOMAIN list : list[k] \in set <=> aged[k] \in some
  BY <1>2 DEF Range
<1>3a. \A k \in DOMAIN list : aged[k].id = list[k].id
  OBVIOUS
<1>3b. Len(aged) = Len(list)
  OBVIOUS
<1> HIDE DEF list, set, some
<1>3c. list \in Seq(Activity) /\ aged \in Seq(Activity)
       /\ kept = Keeping(list, set) /\ rest = Keeping(aged, some)
  BY <1>2
<1> HIDE DEF kept, rest
<1>4. PICK h \in [1 .. Len(kept) -> DOMAIN list] : AtPlaces(h, kept, list, set, rest, aged)
  BY <1>3, <1>3b, <1>3c, KeepingAlike
<1>5. DOMAIN kept = 1 .. Len(kept)
  <2>1. kept \in Seq(Activity)
    BY <1>3c, KeepingIs
  <2> QED BY <2>1, LenProperties
<1> QED BY <1>1, <1>3a, <1>4, <1>5 DEF AtPlaces

\* The frame at the keys is the current one, and before them unless something is
\* known to have changed; then the selected row is the one noted, too.
Seen ==
  /\ turn.at = KeyStage => drawn = CurrentFrame
  /\ turn.at # KeyStage /\ ~turn.changed =>
       /\ drawn = CurrentFrame /\ ui.sidebar_idx \in DOMAIN Items /\ Row = turn.selected

LEMMA RestoreSeen ==
  ASSUME Sound, Seen, Restore, turn.at # KeyStage
  PROVE  Seen'
<1>1. /\ Persists /\ turn'.at # KeyStage
      /\ turn'.changed = (turn.changed \/ app' # app) /\ turn'.selected = turn.selected
      /\ ui'.sidebar_idx \in DOMAIN Items' /\ ui' = [ui EXCEPT !.sidebar_idx = ui'.sidebar_idx]
      /\ turn.selected \in Range(Items') => RowAt(Items', ui') = turn.selected
  BY RestoreKeeps
<1>2. config' = config /\ build' = build /\ drawn' = drawn
  BY DEF Restore
<1> SUFFICES ASSUME ~turn'.changed
             PROVE  drawn' = CurrentFrame' /\ Row' = turn'.selected
  BY <1>1 DEF Seen
<1>3. app' = app /\ ~turn.changed
  BY <1>1
<1>4. drawn = CurrentFrame /\ ui.sidebar_idx \in DOMAIN Items /\ Row = turn.selected
  BY <1>3 DEF Seen
<1>5. Items' = Items
  BY <1>2, <1>3 DEF Items
<1>6. Row = Items[ui.sidebar_idx] /\ Row \in Range(Items)
  BY <1>4 DEF Row, RowAt, Range
<1>7. Row' = turn.selected
  BY <1>1, <1>4, <1>5, <1>6 DEF Row
<1>8. Items[ui'.sidebar_idx] = Items[ui.sidebar_idx]
  BY <1>1, <1>4, <1>5, <1>6, <1>7 DEF Row, RowAt
<1>9. /\ app \in AppType /\ ui \in UiType /\ ui' \in UiType /\ Items \in Seq(RowKind)
  <2>1. Lasting /\ Lasting'
    BY <1>1 DEF Persists, Sound
  <2>2. ui' \in UiType
    BY <2>1 DEF Lasting, Good, State, Whole
  <2> QED BY <2>1, <2>2, WholeIs, ItemsNow
<1>10. FrameOf(app, ui', Items) = FrameOf(app, ui, Items)
  <2>1. ui' = [ui EXCEPT !.network_cursor = ui.network_cursor, !.sidebar_idx = ui'.sidebar_idx]
    BY <1>1, <1>9 DEF UiType
  <2>2. \A si : NetworkPoint(app, ui', si) = NetworkPoint(app, ui, si)
    <3>1. ui'.network_cursor = ui.network_cursor
      BY <1>1, <1>9 DEF UiType
    <3> QED BY <3>1 DEF NetworkPoint
  <2>3. ui'.sidebar_idx \in DOMAIN Items
    BY <1>1, <1>5
  <2> DEFINE v == ui'
             i == ui'.sidebar_idx
             k == ui.network_cursor
  <2>4. /\ v \in UiType /\ v.sidebar_idx \in DOMAIN Items
        /\ Items[v.sidebar_idx] = Items[ui.sidebar_idx]
        /\ v = Cursored(ui, i, k)
        /\ \A si : NetworkPoint(app, v, si) = NetworkPoint(app, ui, si)
    BY <1>8, <1>9, <2>1, <2>2, <2>3 DEF Cursored
  <2> HIDE DEF v, i, k
  <2>5. FrameOf(app, v, Items) = FrameOf(app, ui, Items)
    BY <1>4, <1>9, <2>4, FrameSame
  <2> QED BY <2>5 DEF v
<1>11. CurrentFrame' = FrameOf(app', ui', Items')
  BY <1>2, FrameNext
<1> QED BY <1>1, <1>2, <1>3, <1>4, <1>5, <1>7, <1>10, <1>11 DEF CurrentFrame

\* Where nothing is pruned every row and every place of the network pane is what
\* it was.
LEMMA UnprunedIs ==
  ASSUME app \in AppType, config \in Configs, NEW u, NEW items,
         NEW a, a = Pruned({}, Aged(u, items)),
         NEW v \in UiType, NEW w, w = [v EXCEPT !.network_cursor = Clamped(v, a).network_cursor]
  PROVE  /\ Range(SidebarItems(a, config, build)) = Range(Items)
         /\ v.active_network_session \in DOMAIN a.sessions =>
              NetworkPoint(a, w, v.active_network_session)
                = NetworkPoint(app, v, v.active_network_session)
<1> DEFINE aged == Aged(u, items)
<1>1. /\ aged \in Seq(Activity) /\ Len(aged) = Len(app.activities)
      /\ DOMAIN aged = DOMAIN app.activities
      /\ \A k \in DOMAIN app.activities :
           aged[k].id = app.activities[k].id /\ aged[k].session = app.activities[k].session
  BY AgedIs
<1>2. a = Pruned({}, aged)
  OBVIOUS
<1> HIDE DEF aged
<1>3. /\ a \in AppType /\ a.session_groups = app.session_groups /\ a.sessions = app.sessions
      /\ a.activities = Keeping(aged, Spared({}, aged))
  BY <1>1, <1>2, PrunedIs
<1>4. a.activities = aged
  <2>1. Range(aged) \subseteq Spared({}, aged)
    BY DEF Spared
  <2> QED BY <1>1, <1>3, <2>1, KeepingAll
<1>5. Range(SidebarItems(a, config, build)) = Range(Items)
  <2>1. \A si : Range(CommandRows(a, si)) = Range(CommandRows(app, si))
    <3> TAKE si
    <3> DEFINE id == app.sessions[si].id
               of(acts) == {x \in Range(acts) : x.session = id /\ x.id \in ExecRequests}
    <3>1. /\ Range(CommandRows(a, si)) = {<<"Activity", x.id>> : x \in of(aged)}
          /\ Range(CommandRows(app, si)) = {<<"Activity", x.id>> : x \in of(app.activities)}
      BY <1>3, <1>4, CommandRowsAre
    <3>2. \A x \in of(aged) : \E y \in of(app.activities) : y.id = x.id
      BY <1>1 DEF Range
    <3>3. \A x \in of(app.activities) : \E y \in of(aged) : y.id = x.id
      BY <1>1 DEF Range
    <3> HIDE DEF of
    <3> QED BY <3>1, <3>2, <3>3
  <2>2. RowsShown(a, config, build) = RowsShown(app, config, build)
    <3>1. \A g : GroupShows(a, g) = GroupShows(app, g)
      BY <1>3, <2>1 DEF GroupShows
    <3> QED BY <1>3, <3>1 DEF RowsShown
  <2> QED BY <1>3, <2>2, ItemsAre DEF Items
<1>6. ASSUME v.active_network_session \in DOMAIN a.sessions
      PROVE  NetworkPoint(a, w, v.active_network_session)
                = NetworkPoint(app, v, v.active_network_session)
  <2> DEFINE si == v.active_network_session
             rows == NetActivities(app, si)
             kept == NetActivities(a, si)
             n == Len(rows)
  <2>1. n \in Nat /\ DOMAIN rows = 1 .. n
    <3>1. rows \in Seq(Activity)
      BY ActivitiesAre DEF NetActivities
    <3> QED BY <3>1, LenProperties
  <2>2. Len(kept) = n /\ \A k \in 1 .. n : kept[k].id = rows[k].id
    BY <1>1, <1>3, <1>4, <2>1, AgedAlike
  <2>2a. kept \in Seq(Activity)
    BY <1>3, ActivitiesAre DEF NetActivities
  <2>3. (rows = <<>>) = (n = 0) /\ (kept = <<>>) = (n = 0)
    <3>1. rows \in Seq(Activity)
      BY ActivitiesAre DEF NetActivities
    <3> HIDE DEF rows, kept
    <3> QED BY <2>2, <2>2a, <3>1, EmptySeq DEF n
  <2>4. v.network_cursor \in Nat /\ si # NoIndex
    <3>1. si # NoIndex
      BY <1>3, <1>6, AppIs DEF NoIndex
    <3> QED BY <3>1 DEF UiType
  <2>5. w.network_cursor = IF n = 0 THEN 0
                           ELSE IF v.network_cursor + 1 > n THEN n - 1 ELSE v.network_cursor
    <3>1. Clamped(v, a).network_cursor = IF n = 0 THEN 0
                           ELSE IF v.network_cursor + 1 > n THEN n - 1 ELSE v.network_cursor
      <4>1. Len(NetActivities(a, v.active_network_session)) = n
        BY <2>2
      <4> HIDE DEF n
      <4> QED BY <1>6, <2>4, <4>1 DEF Clamped, UiType
    <3>2. w.network_cursor = Clamped(v, a).network_cursor
      BY DEF UiType
    <3> QED BY <3>1, <3>2
  <2> HIDE DEF rows, kept, n
  <2>6. NetworkPoint(a, w, si) =
          LET k == IF w.network_cursor + 1 > n THEN n ELSE w.network_cursor + 1
          IN  IF n = 0 THEN Nobody ELSE <<"request", kept[k].id>>
    BY <2>2, <2>3 DEF NetworkPoint, kept
  <2>7. NetworkPoint(app, v, si) =
          LET k == IF v.network_cursor + 1 > n THEN n ELSE v.network_cursor + 1
          IN  IF n = 0 THEN Nobody ELSE <<"request", rows[k].id>>
    BY <2>3 DEF NetworkPoint, rows, n
  <2> HIDE DEF si
  <2>8. NetworkPoint(a, w, si) = NetworkPoint(app, v, si)
    BY <2>1, <2>2, <2>4, <2>5, <2>6, <2>7
  <2> QED BY <2>8 DEF si
<1> QED BY <1>5, <1>6

LEMMA EndTurnSeen ==
  ASSUME Sound, Seen, NEW gone, EndTurn(gone), turn.at # KeyStage
  PROVE  Seen'
<1> DEFINE a == Pruned(gone, Aged(ui, Items))
           items == SidebarItems(a, config, build)
           v == Clamped(ui, a)
           shown == FrameOf(a, ui', items)
<1>1. /\ Persists /\ turn'.at = KeyStage /\ ui'.sidebar_idx \in DOMAIN Items'
      /\ Row \in Range(Items') => Row' = Row
  BY EndTurnKeeps
<1>2. /\ app' = a /\ ui' = RestoreSelection(v, Row, items)
      /\ drawn' = IF turn.changed \/ gone # {} THEN shown ELSE drawn
      /\ config' = config /\ build' = build
  BY DEF EndTurn
<1>3. /\ app \in AppType /\ ui \in UiType /\ GoodApp(app) /\ GoodUi(app, ui) /\ config \in Configs
      /\ Items \in Seq(RowKind)
  BY WholeIs, ItemsNow DEF Sound, Lasting
<1>4. /\ a \in AppType /\ a.session_groups = app.session_groups /\ a.sessions = app.sessions
      /\ a.pending_exec = app.pending_exec /\ a.pending_net = app.pending_net
  <2>1. Aged(ui, Items) \in Seq(Activity)
    BY <1>3, AgedIs
  <2> QED BY <1>3, <2>1, PrunedIs
<1>4a. a = Pruned(gone, Aged(ui, Items))
  OBVIOUS
<1> HIDE DEF a
<1>5. Items' = items
  BY <1>2 DEF Items
<1>6. CurrentFrame' = shown
  BY <1>2, <1>5, FrameNext
<1>7. CASE turn.changed \/ gone # {}
  BY <1>1, <1>2, <1>6, <1>7 DEF Seen
<1>8. CASE ~turn.changed /\ gone = {}
  <2>1. drawn = CurrentFrame /\ ui.sidebar_idx \in DOMAIN Items /\ drawn' = drawn
    BY <1>2, <1>8 DEF Seen
  <2>2. Row = Items[ui.sidebar_idx] /\ Row \in Range(Items)
    BY <2>1 DEF Row, RowAt, Range
  <2>3. GoodUi(a, ui) /\ GoodUi(a, v) /\ v = [ui EXCEPT !.network_cursor = v.network_cursor]
    <3>1. GoodUi(a, ui)
      BY <1>3, <1>4, ListsChange
    <3> QED BY <1>4, <3>1, ClampedIs
  <2>4. GoodApp(a)
    BY <1>3, <1>4, ListsChange
  <2>5. /\ GoodUi(a, ui') /\ ui' = [v EXCEPT !.sidebar_idx = ui'.sidebar_idx]
        /\ ui'.sidebar_idx \in DOMAIN items
        /\ Row \in Range(items) => RowAt(items, ui') = Row
    <3> HIDE DEF v, items
    <3>1. GoodUi(a, v) /\ items = SidebarItems(a, config, build)
      BY <2>3 DEF items
    <3> QED BY <1>2, <1>3, <1>4, <3>1, RestoredUi
  <2>6. items \in Seq(RowKind)
    BY <1>3, <1>4, ItemsAre
  <2> HIDE DEF items
  <2> DEFINE w == ui'
             i == ui'.sidebar_idx
             k == v.network_cursor
  <2>7. w \in UiType /\ w = Cursored(ui, i, k)
    BY <1>3, <2>3, <2>5 DEF GoodUi, UiType, Cursored
  <2>8. /\ Range(items) = Range(Items)
        /\ ui.active_network_session \in DOMAIN a.sessions =>
             NetworkPoint(a, v, ui.active_network_session)
               = NetworkPoint(app, ui, ui.active_network_session)
    BY <1>3, <1>4a, <1>8, <2>3, UnprunedIs DEF items
  <2>9. \A si : NetworkPoint(a, w, si) = NetworkPoint(a, v, si)
    <3>1. w.network_cursor = v.network_cursor
      BY <1>3, <2>7 DEF Cursored, UiType
    <3> QED BY <3>1 DEF NetworkPoint
  <2>10. w.sidebar_idx \in DOMAIN items /\ items[w.sidebar_idx] = Items[ui.sidebar_idx]
    BY <2>2, <2>5, <2>8 DEF RowAt
  <2> HIDE DEF w, i, k, v
  <2>11. ui.active_network_session \in DOMAIN app.sessions =>
           NetworkPoint(a, w, ui.active_network_session)
             = NetworkPoint(app, ui, ui.active_network_session)
    BY <1>4, <2>8, <2>9
  <2>12. FrameOf(a, w, items) = FrameOf(app, ui, Items)
    BY <1>3, <1>4, <2>1, <2>6, <2>7, <2>10, <2>11, FrameSame
  <2>13. drawn' = CurrentFrame'
    BY <1>6, <2>1, <2>12 DEF w, CurrentFrame
  <2> QED BY <1>1, <2>13 DEF Seen
<1> QED BY <1>7, <1>8

LEMMA SeenInit ==
  ASSUME InterfaceInit
  PROVE  Seen
BY DEF InterfaceInit, Seen, KeyStage

LEMMA SeenNext ==
  ASSUME Sound, Seen, [InterfaceNext]_interfaceVars
  PROVE  Seen'
<1>0. Sound'
  BY SoundNext
<1>1. CASE Drain
  <2>1. turn.at # KeyStage
    BY <1>1 DEF Drain, KeyStage
  <2>2. CASE Restore
    BY <2>1, <2>2, RestoreSeen
  <2>3. CASE \E gone : EndTurn(gone)
    BY <2>1, <2>3, EndTurnSeen
  <2>4. CASE Unseen
    BY <2>4 DEF Seen, Unseen
  <2> QED BY <1>1, <2>2, <2>3, <2>4, DrainKeeps
<1>2. CASE Key
  <2>1. turn' = Begun(1) /\ Lasting' /\ turn \in TurnType
    BY <1>0, <1>2 DEF Key, Sound
  <2>2. turn'.at = 0 /\ turn'.changed
    BY <2>1, BegunIs
  <2> QED BY <2>2 DEF Seen, KeyStage
<1>3. CASE NoKey
  <2>1. /\ turn.at = KeyStage /\ UNCHANGED <<config, app, ui, build, drawn>> /\ turn' = Begun(0)
        /\ Lasting' /\ turn \in TurnType
    BY <1>0, <1>3 DEF NoKey, Sound
  <2>2. turn'.at = 0 /\ turn'.selected = Row'
    BY <2>1, BegunIs
  <2>3. Items' = Items /\ CurrentFrame' = CurrentFrame
    <3>1. Items' = Items
      BY <2>1 DEF Items
    <3> QED BY <2>1, <3>1, FrameNext DEF CurrentFrame
  <2>4. drawn = CurrentFrame /\ ui.sidebar_idx \in DOMAIN Items
    BY <2>1 DEF Seen, Sound
  <2> QED BY <2>1, <2>2, <2>3, <2>4 DEF Seen, KeyStage
<1>4. CASE (\E r \in Requests : \E si \in DOMAIN app.sessions : Asks(r, si))
           \/ UNCHANGED interfaceVars
  <2>1. UNCHANGED <<config, app, ui, build, turn, drawn>>
    BY <1>4 DEF Asks, interfaceVars
  <2>2. Items' = Items
    BY <2>1 DEF Items
  <2>3. CurrentFrame' = CurrentFrame /\ Row' = Row
    BY <2>1, <2>2, FrameNext DEF CurrentFrame, Row
  <2> QED BY <2>1, <2>2, <2>3 DEF Seen
<1> QED BY <1>1, <1>2, <1>3, <1>4 DEF InterfaceNext

\* What a frame shows at the place a key is about.
LEMMA ShownIs ==
  ASSUME Sound, turn.at = KeyStage, drawn = CurrentFrame, ~drawn.blind
  PROVE  \A place \in DOMAIN Aimed : Aimed[place] \in {Nobody, drawn[place]}
<1>1. /\ app \in AppType /\ GoodUi(app, ui) /\ ui.sidebar_idx \in DOMAIN Items
      /\ Items \in Seq(RowKind)
  BY WholeIs, ItemsNow DEF Sound
<1>2. /\ drawn.overlay = Showing(app)
      /\ drawn.confirm = IF ui.log_fullscreen THEN Nobody ELSE ui.remove_workspace_confirm
      /\ drawn.pane = Pane(app, ui, Items)
      /\ drawn.point = IF ui.focus = "Network" /\ ui.active_network_session \in DOMAIN app.sessions
                       THEN NetworkPoint(app, ui, ui.active_network_session) ELSE Nobody
      /\ drawn.row = Highlight(app, ui, Items)
  BY DEF CurrentFrame, FrameOf
<1>3. /\ ~(ui.terminal_fullscreen /\ ui.focus # "Terminal")
      /\ ~(ui.focus = "Terminal" /\ ~ui.terminal_fullscreen /\ build.task # Nobody /\ Row[1] = "Build")
  BY DEF CurrentFrame, FrameOf, Row
<1>4. Aimed.overlay \in {Nobody, drawn.overlay}
  BY <1>2 DEF Aimed, Decided, Showing
<1>5. Aimed.confirm = drawn.confirm
  BY <1>1, <1>2 DEF Aimed, GoodUi
<1>6. Aimed.point = drawn.point
  <2>1. ui.active_network_session \in DOMAIN app.sessions <=> ui.active_network_session # NoIndex
    BY <1>1, AppIs DEF GoodUi, NoIndex
  <2> QED BY <1>2, <2>1 DEF Aimed
<1>7. Aimed.pane \in {Nobody, drawn.pane}
  <2> SUFFICES ASSUME Unobstructed, AimedPane # Nobody
               PROVE  AimedPane = drawn.pane
    BY DEF Aimed
  <2>1. ~ui.log_fullscreen
    BY DEF Unobstructed
  <2>2. CASE ui.terminal_fullscreen
    BY <1>2, <1>3, <2>1, <2>2 DEF Pane, AimedPane
  <2>3. CASE ~ui.terminal_fullscreen
    <3>1. drawn.pane = RightPane(app, ui, Items)
      BY <1>2, <2>1, <2>3 DEF Pane
    <3>2. RowAt(Items, ui) = Row
      BY DEF Row
    <3>3. CASE ui.focus = "Terminal"
      BY <1>3, <2>3, <3>1, <3>2, <3>3 DEF AimedPane, RightPane
    <3>4. CASE ui.focus = "ContainerPicker"
      BY <3>1, <3>4 DEF AimedPane, RightPane, PickerPane
    <3>5. CASE ui.focus \notin {"Terminal", "ContainerPicker"}
      BY <3>1, <3>5 DEF AimedPane, RightPane
    <3> QED BY <3>3, <3>4, <3>5
  <2> QED BY <2>2, <2>3
<1>8. Aimed.row \in {Nobody, drawn.row}
  <2> SUFFICES ASSUME Unobstructed, ui.focus = "Sidebar"
               PROVE  Meaning(Row, app, config) = drawn.row
    BY DEF Aimed
  <2>1. ~ui.log_fullscreen /\ ~ui.terminal_fullscreen
    BY <1>3 DEF Unobstructed
  <2>2. ~(ui.sidebar_idx > Len(Items)) /\ Row = Items[ui.sidebar_idx]
    BY <1>1, LenProperties DEF Row, RowAt
  <2> QED BY <1>2, <2>1, <2>2 DEF Highlight
<1>9. DOMAIN Aimed = {"overlay", "confirm", "point", "pane", "row"}
  BY DEF Aimed
<1> QED BY <1>4, <1>5, <1>6, <1>7, <1>8, <1>9

\* Whatever a turn drained, a key acts on what the last frame shows at the place
\* the key is about: a turn that draws nothing has left every such place as it
\* was.
THEOREM KeyActsOnWhatIsShownHolds == InterfaceSpec => []KeyActsOnWhatIsShown
<1>1. InterfaceInit => Sound /\ Seen
  BY SoundInit, SeenInit
<1>2. Sound /\ Seen /\ [InterfaceNext]_interfaceVars => (Sound /\ Seen)'
  BY SoundNext, SeenNext
<1>3. Sound /\ Seen => KeyActsOnWhatIsShown
  BY ShownIs DEF Seen, KeyActsOnWhatIsShown
<1> QED BY <1>1, <1>2, <1>3, PTL DEF InterfaceSpec

-----------------------------------------------------------------------------
(* What the cursor is on *)

\* The lists only grow: what a row names stays what it is.
Grows(a, x) ==
  /\ \A g \in DOMAIN a.session_groups :
       g \in DOMAIN x.session_groups /\ x.session_groups[g] = a.session_groups[g]
  /\ \A si \in DOMAIN a.sessions :
       si \in DOMAIN x.sessions /\ x.sessions[si].id = a.sessions[si].id

\* The rows that only a session's end or another configuration takes away; those
\* of activities and builds come and go.
Standing(a, c) ==
  {<<"NewSession", NoIndex>>, <<"NewWorkspace", NoIndex>>} \cup Range(LaunchRows(c))
    \cup {<<"Session", g>> : g \in DOMAIN a.session_groups}
    \cup {<<"Settings", a.session_groups[g].workspace_idx>> : g \in DOMAIN a.session_groups}
    \cup {<<"NetworkGroup", si>> : si \in DOMAIN a.sessions}
Passing(row) == row[1] \in {"Activity", "Build"}
Placed(row, a, c) ==
  /\ row \in RowKind
  /\ ~Passing(row) => row \in Standing(a, c)
  /\ row[1] = "Build" => row[2] \in DOMAIN c

LEMMA PlacedIs ==
  ASSUME NEW a, GoodApp(a), NEW c \in Configs, NEW b
  PROVE  /\ \A row \in Range(SidebarItems(a, c, b)) : Placed(row, a, c)
         /\ Standing(a, c) \subseteq Range(SidebarItems(a, c, b))
<1> DEFINE shown == Range(SidebarItems(a, c, b))
<1>0. a \in AppType /\ Grouping(a)
  BY DEF GoodApp
<1>1. shown = RowsShown(a, c, b) /\ shown \subseteq RowKind
  BY <1>0, ItemsAre DEF Range
<1> HIDE DEF shown
<1>2. ASSUME NEW row \in shown
      PROVE  Placed(row, a, c)
  <2>1. row \in RowKind
    BY <1>1
  <2>2. CASE row \in {<<"NewSession", NoIndex>>, <<"NewWorkspace", NoIndex>>}
    BY <2>1, <2>2 DEF Placed, Standing, Passing
  <2>3. CASE row \in Range(LaunchRows(c))
    <3>1. row[1] \in {"WorkspacesHeader", "Launch"}
      BY <2>3, LaunchRowsAre
    <3> QED BY <2>1, <2>3, <3>1 DEF Placed, Standing
  <2>4. CASE b.ws \in DOMAIN c /\ row = <<"Build", b.ws>>
    BY <2>1, <2>4 DEF Placed, Passing
  <2>5. ASSUME NEW g \in DOMAIN a.session_groups, row \in GroupShows(a, g)
        PROVE  Placed(row, a, c)
    <3> DEFINE si == a.session_groups[g].terminal
    <3>1. CASE row \in {<<"Session", g>>, <<"Settings", a.session_groups[g].workspace_idx>>}
      BY <2>1, <3>1 DEF Placed, Standing
    <3>2. CASE si # NoIndex /\ row = <<"NetworkGroup", si>>
      <4>1. si \in DOMAIN a.sessions
        BY <1>0, <3>2 DEF Grouping
      <4> QED BY <2>1, <3>2, <4>1 DEF Placed, Standing
    <3>3. CASE row \in Range(CommandRows(a, si))
      <4>1. row[1] = "Activity"
        BY <1>0, <3>3, CommandRowsAre
      <4> QED BY <2>1, <4>1 DEF Placed, Passing
    <3> QED BY <2>5, <3>1, <3>2, <3>3 DEF GroupShows
  <2>6. \/ row \in {<<"NewSession", NoIndex>>, <<"NewWorkspace", NoIndex>>}
        \/ row \in Range(LaunchRows(c)) \/ (b.ws \in DOMAIN c /\ row = <<"Build", b.ws>>)
        \/ \E g \in DOMAIN a.session_groups : row \in GroupShows(a, g)
    BY <1>1 DEF RowsShown
  <2> QED BY <2>2, <2>3, <2>4, <2>5, <2>6
<1>3. ASSUME NEW row \in Standing(a, c)
      PROVE  row \in shown
  <2>1. CASE row \in {<<"NewSession", NoIndex>>, <<"NewWorkspace", NoIndex>>} \cup Range(LaunchRows(c))
    BY <1>1, <2>1 DEF RowsShown
  <2>2. CASE \E g \in DOMAIN a.session_groups :
               row \in {<<"Session", g>>, <<"Settings", a.session_groups[g].workspace_idx>>}
    BY <1>1, <2>2 DEF RowsShown, GroupShows
  <2>3. CASE \E si \in DOMAIN a.sessions : row = <<"NetworkGroup", si>>
    <3>1. PICK si \in DOMAIN a.sessions : row = <<"NetworkGroup", si>>
      BY <2>3
    <3>2. PICK g \in DOMAIN a.session_groups : a.session_groups[g].terminal = si
      BY <1>0 DEF Grouping
    <3>3. si # NoIndex
      BY <1>0, AppIs DEF NoIndex
    <3>4. row \in GroupShows(a, g)
      BY <3>1, <3>2, <3>3 DEF GroupShows
    <3> QED BY <1>1, <3>4 DEF RowsShown
  <2> QED BY <2>1, <2>2, <2>3 DEF Standing
<1> QED BY <1>2, <1>3 DEF shown

\* What is placed has a place of its kind.
LEMMA PlaceOf ==
  ASSUME NEW a, NEW c \in Configs, NEW row, Placed(row, a, c)
  PROVE  /\ row \in RowKind
         /\ row[1] = "Session" => row[2] \in DOMAIN a.session_groups
         /\ row[1] = "NetworkGroup" => row[2] \in DOMAIN a.sessions
<1>1. \A q \in Range(LaunchRows(c)) : q[1] \in {"WorkspacesHeader", "Launch"}
  BY LaunchRowsAre
<1> QED BY <1>1 DEF Placed, Passing, Standing

LEMMA GrowsKeep ==
  ASSUME NEW a, GoodApp(a), NEW c \in Configs, NEW row, Placed(row, a, c), NEW x, Grows(a, x)
  PROVE  Placed(row, x, c) /\ Meaning(row, x, c) = Meaning(row, a, c)
<1>1. Standing(a, c) \subseteq Standing(x, c)
  BY DEF Standing, Grows
<1>2. Placed(row, x, c)
  BY <1>1 DEF Placed
<1>3. CASE row[1] = "Session"
  <2> DEFINE group == a.session_groups[row[2]]
  <2>1. row[2] \in DOMAIN a.session_groups
    BY <1>3, PlaceOf
  <2>2. group.terminal \in {NoIndex} \cup DOMAIN a.sessions
    BY <2>1 DEF GoodApp, Grouping
  <2>3. x.session_groups[row[2]] = group
    BY <2>1 DEF Grows
  <2>4. group.terminal # NoIndex =>
          x.sessions[group.terminal].id = a.sessions[group.terminal].id
    BY <2>2 DEF Grows
  <2> QED BY <1>2, <1>3, <2>3, <2>4 DEF Meaning
<1>4. CASE row[1] = "NetworkGroup"
  <2>1. row[2] \in DOMAIN a.sessions
    BY <1>4, PlaceOf
  <2> QED BY <1>2, <1>4, <2>1 DEF Meaning, Grows
<1>5. CASE row[1] \notin {"Session", "NetworkGroup"}
  BY <1>2, <1>5 DEF Meaning
<1> QED BY <1>3, <1>4, <1>5

\* A meaning tells the kind of its row, and never means nothing.
LEMMA KindIs ==
  ASSUME NEW a, NEW c, NEW row \in RowKind
  PROVE  /\ row[1] \in {"Activity", "NewSession", "NewWorkspace", "WorkspacesHeader"} =>
              Meaning(row, a, c) = row
         /\ row[1] \in {"Settings", "Launch", "Build"} =>
              Meaning(row, a, c) = <<row[1], IF row[2] \in DOMAIN c THEN c[row[2]] ELSE Nobody>>
         /\ row[1] = "Session" => Meaning(row, a, c)[1] \in {"group", "session"}
         /\ row[1] = "NetworkGroup" => Meaning(row, a, c)[1] = "network"
         /\ Meaning(row, a, c) # Nobody
<1>1. row[1] \in {"NewSession", "NewWorkspace", "WorkspacesHeader", "Session", "NetworkGroup",
                  "Settings", "Build", "Launch", "Activity"}
  BY DEF RowKind
<1>2. row[1] \in {"Activity", "NewSession", "NewWorkspace", "WorkspacesHeader"} =>
        Meaning(row, a, c) = row
  BY DEF Meaning
<1>3. row[1] \in {"Settings", "Launch", "Build"} =>
        Meaning(row, a, c) = <<row[1], IF row[2] \in DOMAIN c THEN c[row[2]] ELSE Nobody>>
  BY DEF Meaning
<1>4. row[1] = "Session" => Meaning(row, a, c)[1] \in {"group", "session"}
  BY DEF Meaning
<1>5. row[1] = "NetworkGroup" => Meaning(row, a, c)[1] = "network"
  BY DEF Meaning
<1>6. Meaning(row, a, c)[1] # "nobody"
  BY <1>1, <1>2, <1>3, <1>4, <1>5
<1> QED BY <1>2, <1>3, <1>4, <1>5, <1>6 DEF Nobody

\* No other row means what the row of an activity or of a build means.
LEMMA OneMeaning ==
  ASSUME NEW a, NEW c \in Configs, NEW row, NEW q, Placed(row, a, c), Placed(q, a, c),
         Passing(row), Meaning(q, a, c) = Meaning(row, a, c)
  PROVE  q = row
<1>1. row \in RowKind /\ q \in RowKind
  BY DEF Placed
<1>2. q[1] \in {"NewSession", "NewWorkspace", "WorkspacesHeader", "Session", "NetworkGroup",
                "Settings", "Build", "Launch", "Activity"}
  BY <1>1 DEF RowKind
<1>3. CASE row[1] = "Activity"
  <2>1. Meaning(q, a, c) = row
    BY <1>1, <1>3, KindIs
  <2>2. q[1] = "Activity"
    BY <1>1, <1>2, <1>3, <2>1, KindIs
  <2> QED BY <1>1, <2>1, <2>2, KindIs
<1>4. CASE row[1] = "Build"
  <2>1. row[2] \in DOMAIN c /\ Meaning(q, a, c) = <<"Build", c[row[2]]>>
    BY <1>1, <1>4, KindIs DEF Placed
  <2>2. q[1] = "Build"
    BY <1>1, <1>2, <2>1, KindIs
  <2>3. q[2] \in DOMAIN c /\ Meaning(q, a, c) = <<"Build", c[q[2]]>>
    BY <1>1, <2>2, KindIs DEF Placed
  <2>4. q[2] = row[2]
    BY <2>1, <2>3, ConfigIs DEF IsInjective
  <2> QED BY <1>1, <1>4, <2>2, <2>4 DEF RowKind
<1> QED BY <1>3, <1>4 DEF Passing

LEMMA GrowsSame ==
  ASSUME NEW a, NEW x, x.session_groups = a.session_groups, DOMAIN x.sessions = DOMAIN a.sessions,
         \A si \in DOMAIN a.sessions : x.sessions[si].id = a.sessions[si].id
  PROVE  Grows(a, x)
BY DEF Grows

LEMMA LaunchGrows ==
  ASSUME NEW st, Good(st), NEW c \in Configs, NEW pi, NEW y \in LaunchOutcomes(st, c, pi)
  PROVE  Grows(st.a, y.a)
<1>0. st \in State /\ st.a \in AppType
  BY DEF Good, GoodApp
<1>1. CASE y = st
  BY <1>1 DEF Grows
<1>2. CASE y = Prompted(st, pi)
  <2>1. y.a = st.a
    BY <1>0, <1>2 DEF Prompted, State
  <2> QED BY <2>1 DEF Grows
<1>3. ASSUME pi \in DOMAIN c, y = Failed(st, pi) \/ y = Started(st, c, pi)
      PROVE  Grows(st.a, y.a)
  <2> DEFINE a == st.a
  <2>1. pi \in Nat /\ c[pi] \in Workspaces
    BY <1>3, ConfigIs
  <2>2. \E terminal \in Nat : y.a.session_groups
          = Append(a.session_groups, [workspace_idx |-> pi, terminal |-> terminal])
    <3>1. CASE y = Failed(st, pi)
      <4>1. y.a.session_groups
              = Append(a.session_groups, [workspace_idx |-> pi, terminal |-> NoIndex])
        BY <1>0, <3>1 DEF Failed, Grouped, State, AppType
      <4> QED BY <4>1 DEF NoIndex
    <3>2. CASE y = Started(st, c, pi)
      <4>1. y.a.session_groups
              = Append(a.session_groups, [workspace_idx |-> pi, terminal |-> Len(a.sessions) + 1])
        BY <1>0, <3>2 DEF Started, Grouped, State, AppType
      <4>2. Len(a.sessions) + 1 \in Nat
        BY <1>0, AppIs
      <4> QED BY <4>1, <4>2
    <3> QED BY <1>3, <3>1, <3>2
  <2>3. y.a.sessions = a.sessions
        \/ \E s \in Opened : y.a.sessions = Append(a.sessions, s)
    <3>1. CASE y = Failed(st, pi)
      BY <1>0, <3>1 DEF Failed, Grouped, State, AppType
    <3>2. CASE y = Started(st, c, pi)
      <4> DEFINE s == [id |-> a.launched + 1, ws |-> c[pi], exited |-> FALSE]
      <4>1. s \in Opened
        BY <1>0, <2>1 DEF Opened, AppType
      <4>2. y.a.sessions = Append(a.sessions, s)
        BY <1>0, <3>2 DEF Started, Grouped, State, AppType
      <4> QED BY <4>1, <4>2
    <3> QED BY <1>3, <3>1, <3>2
  <2>4. \A g \in DOMAIN a.session_groups :
          g \in DOMAIN y.a.session_groups /\ y.a.session_groups[g] = a.session_groups[g]
    <3>1. PICK terminal \in Nat : y.a.session_groups
            = Append(a.session_groups, [workspace_idx |-> pi, terminal |-> terminal])
      BY <2>2
    <3> DEFINE group == [workspace_idx |-> pi, terminal |-> terminal]
               groups == a.session_groups
    <3>2. group \in Group /\ groups \in Seq(Group)
      BY <1>0, <2>1 DEF Group, AppType
    <3> HIDE DEF group, groups
    <3>3. /\ DOMAIN Append(groups, group) = 1 .. Len(groups) + 1
          /\ \A g \in 1 .. Len(groups) : Append(groups, group)[g] = groups[g]
          /\ DOMAIN groups = 1 .. Len(groups) /\ Len(groups) \in Nat
      BY <3>2, AppendProperties, LenProperties
    <3> QED BY <3>1, <3>3 DEF group, groups
  <2>5. \A si \in DOMAIN a.sessions :
          si \in DOMAIN y.a.sessions /\ y.a.sessions[si].id = a.sessions[si].id
    <3>1. CASE y.a.sessions = a.sessions
      BY <3>1
    <3>2. CASE \E s \in Opened : y.a.sessions = Append(a.sessions, s)
      <4>1. PICK s \in Opened : y.a.sessions = Append(a.sessions, s)
        BY <3>2
      <4> DEFINE open == a.sessions
      <4>2. open \in Seq(Opened)
        BY <1>0 DEF AppType
      <4> HIDE DEF open
      <4>3. /\ DOMAIN Append(open, s) = 1 .. Len(open) + 1
            /\ \A g \in 1 .. Len(open) : Append(open, s)[g] = open[g]
            /\ DOMAIN open = 1 .. Len(open) /\ Len(open) \in Nat
        BY <4>2, AppendProperties, LenProperties
      <4> QED BY <4>1, <4>3 DEF open
    <3> QED BY <2>3, <3>1, <3>2
  <2> QED BY <2>4, <2>5 DEF Grows
<1> QED BY <1>1, <1>2, <1>3 DEF LaunchOutcomes

LEMMA RunBuildGrows ==
  ASSUME NEW st, Good(st), NEW c, NEW selected, NEW y \in RunBuild(st, c, selected)
  PROVE  y.a = st.a
<1>0. st \in State
  BY DEF Good
<1>1. \A pi : StartBuild(st, c, pi).a = st.a
  BY <1>0 DEF StartBuild, State
<1>2. [st EXCEPT !.u.focus = "ImageBuild"].a = st.a
  BY <1>0 DEF State
<1> QED BY <1>1, <1>2 DEF RunBuild

\* In a calm turn the selected row noted at its start means what it meant and,
\* once it was selected again, is the one selected if it is listed.
Held ==
  turn.at # KeyStage /\ turn.calm =>
    /\ turn.selected = Nobody => turn.meant = Nobody
    /\ turn.selected # Nobody =>
         /\ Placed(turn.selected, app, config)
         /\ Meaning(turn.selected, app, config) = turn.meant
    /\ turn.at >= RestoreStage /\ turn.selected \in Range(Items) => Row = turn.selected

\* What a step of a calm turn does to what was noted.
Calm ==
  /\ turn'.selected = turn.selected /\ turn'.meant = turn.meant
  /\ turn'.calm => turn.calm /\ config' = config /\ Grows(app, app')

LEMMA HeldStays ==
  ASSUME Sound, Held, turn.at # KeyStage, Calm,
         turn'.calm /\ turn'.at >= RestoreStage /\ turn.selected \in Range(Items')
           => Row' = turn.selected
  PROVE  Held'
<1> SUFFICES ASSUME turn'.calm
             PROVE  /\ turn.selected = Nobody => turn.meant = Nobody
                    /\ turn.selected # Nobody =>
                         /\ Placed(turn.selected, app', config)
                         /\ Meaning(turn.selected, app', config) = turn.meant
  <2>1. turn'.calm => config' = config
    BY DEF Calm
  <2>2. config' = config =>
          /\ Placed(turn.selected, app', config') = Placed(turn.selected, app', config)
          /\ Meaning(turn.selected, app', config') = Meaning(turn.selected, app', config)
    OBVIOUS
  <2> QED BY <2>1, <2>2 DEF Held, Calm
<1>1. turn.calm /\ Grows(app, app') /\ GoodApp(app) /\ config \in Configs
  BY WholeIs DEF Calm, Sound, Lasting
<1>2. /\ turn.selected = Nobody => turn.meant = Nobody
      /\ turn.selected # Nobody =>
           /\ Placed(turn.selected, app, config)
           /\ Meaning(turn.selected, app, config) = turn.meant
  BY <1>1 DEF Held
<1> QED BY <1>1, <1>2, GrowsKeep

\* The stages of the events before the selection is put back.
LEMMA EarlyStages ==
  \A stage \in {ExecStage, LaunchStage, RefreshStage, CutStage, NetStage, ElsewhereStage,
                ActivityStage} : stage \in 0 .. StopStage /\ ~(stage >= RestoreStage)
BY DEF ExecStage, LaunchStage, RefreshStage, CutStage, NetStage, ElsewhereStage, ActivityStage,
       RestoreStage, StopStage

LEMMA DrainFirstCalm ==
  ASSUME Sound, DrainFirst
  PROVE  Calm /\ ~(turn'.at >= RestoreStage)
<1>0. /\ Lasting /\ turn \in TurnType /\ app \in AppType /\ Good(Whole) /\ Whole.a = app
  BY WholeIs DEF Sound, Lasting
<1>1. ASSUME NEW r \in ExecRequests, ArriveExec(r)
      PROVE  Calm /\ ~(turn'.at >= RestoreStage)
  <2>1. app' = [app EXCEPT !["pending_exec"] = Append(@, r)] /\ config' = config
        /\ turn' = Drained(ExecStage)
    BY <1>1 DEF ArriveExec, Arrives
  <2>2. app'.session_groups = app.session_groups /\ app'.sessions = app.sessions
    BY <1>0, <2>1 DEF AppType
  <2>3. Grows(app, app')
    BY <2>2, GrowsSame
  <2> QED BY <1>0, <2>1, <2>3, StageUnseen, EarlyStages DEF Calm
<1>2. ASSUME NEW c \in Configs, NEW w \in Workspaces, RequestLaunch(c, w)
      PROVE  Calm /\ ~(turn'.at >= RestoreStage)
  <2> DEFINE pi == Named(c, w)
             opened == [Whole EXCEPT !.b.ws = pi, !.b.ctr = TRUE]
             started(st) == [st EXCEPT !.b.cli = IF st.b.task = Nobody THEN NoIndex ELSE pi]
             next == Drained(LaunchStage)
             calm == turn.calm /\ c = config
  <2>1. Grows(app, app')
    <3>1. CASE Becomes(Whole)
      BY <1>0, <3>1 DEF Becomes, Grows
    <3>2. CASE \E st \in LaunchOutcomes(Whole, c, pi) : Becomes(st)
      BY <1>0, <3>2, LaunchGrows DEF Becomes
    <3>3. CASE \E st \in RunBuild(opened, c, NoIndex) : Becomes(started(st))
      <4>1. PICK st \in RunBuild(opened, c, NoIndex) : Becomes(started(st))
        BY <3>3
      <4>2. Good(opened) /\ opened.a = app
        <5> DEFINE d == [build EXCEPT !.ws = pi, !.ctr = TRUE]
        <5>1. pi \in Nat
          <6>1. c \in Seq(Workspaces) /\ Len(c) \in Nat
            BY ConfigIs
          <6>2. pi \in 0 .. Len(c)
            BY <6>1, FirstInIs DEF Named, Position
          <6> QED BY <6>1, <6>2
        <5> HIDE DEF pi
        <5>2. d \in BuildType
          BY <1>0, <5>1, WholeIs DEF BuildType
        <5>3. opened = [Whole EXCEPT !.b = d]
          BY <1>0, WholeIs DEF State, BuildType
        <5> HIDE DEF d, opened
        <5> QED BY <1>0, <5>2, <5>3, BuildMoves
      <4>3. Good(st) /\ st.a = app
        <5> HIDE DEF opened
        <5> QED BY <1>0, <4>1, <4>2, RunBuildGrows, RunBuildIs
      <4>4. started(st).a = st.a
        BY <4>3 DEF Good, State
      <4> QED BY <4>1, <4>3, <4>4 DEF Becomes, Grows
    <3> QED BY <1>2, <3>1, <3>2, <3>3 DEF RequestLaunch
  <2>2. config' = c /\ turn' = [next EXCEPT !.calm = calm]
    <3>1. next.calm = turn.calm
      BY <1>0, StageUnseen, EarlyStages
    <3> QED BY <1>2, <3>1 DEF RequestLaunch
  <2>3. /\ next \in TurnType /\ next.at = LaunchStage
        /\ next.selected = turn.selected /\ next.meant = turn.meant
    BY <1>0, StageUnseen, EarlyStages
  <2> HIDE DEF next, calm
  <2>4. /\ turn'.at = LaunchStage /\ turn'.calm = calm
        /\ turn'.selected = turn.selected /\ turn'.meant = turn.meant
    BY <2>2, <2>3 DEF TurnType
  <2> QED BY <2>1, <2>2, <2>4, EarlyStages DEF Calm, calm
<1>3. ASSUME NEW c \in Configs, Refresh(c)
      PROVE  Calm /\ ~(turn'.at >= RestoreStage)
  <2> DEFINE next == Drained(RefreshStage)
             calm == turn.calm /\ c = config
  <2>1. Grows(app, app')
    BY <1>3 DEF Refresh, Grows
  <2>2. config' = c /\ turn' = [next EXCEPT !.calm = calm]
    <3>1. next.calm = turn.calm
      BY <1>0, StageUnseen, EarlyStages
    <3> QED BY <1>3, <3>1 DEF Refresh
  <2>3. /\ next \in TurnType /\ next.at = RefreshStage
        /\ next.selected = turn.selected /\ next.meant = turn.meant
    BY <1>0, StageUnseen, EarlyStages
  <2> HIDE DEF next, calm
  <2>4. /\ turn'.at = RefreshStage /\ turn'.calm = calm
        /\ turn'.selected = turn.selected /\ turn'.meant = turn.meant
    BY <2>2, <2>3 DEF TurnType
  <2> QED BY <2>1, <2>2, <2>4, EarlyStages DEF Calm, calm
<1>4. ASSUME PruneCut
      PROVE  Calm /\ ~(turn'.at >= RestoreStage)
  <2>1. app' = [app EXCEPT !.pending_net = Uncut(@)] /\ config' = config
        /\ turn' = Redrawing(CutStage)
    BY <1>4 DEF PruneCut
  <2>2. app'.session_groups = app.session_groups /\ app'.sessions = app.sessions
    BY <1>0, <2>1 DEF AppType
  <2>3. Grows(app, app')
    BY <2>2, GrowsSame
  <2> QED BY <1>0, <2>1, <2>3, StageUnseen, EarlyStages DEF Calm
<1> QED BY <1>1, <1>2, <1>3, <1>4 DEF DrainFirst

LEMMA DrainThenCalm ==
  ASSUME Sound, Held, turn.at # KeyStage,
         (\E r \in NetRequests : ArriveNet(r)) \/ \E r \in Requests : DecideElsewhere(r) \/ ActivityEvent(r)
  PROVE  Calm /\ ~(turn'.at >= RestoreStage)
<1>0. turn \in TurnType /\ app \in AppType
  BY WholeIs DEF Sound
<1>1. ASSUME NEW r, ArriveNet(r)
      PROVE  Calm /\ ~(turn'.at >= RestoreStage)
  <2>1. app' = [app EXCEPT !["pending_net"] = Append(@, r)] /\ config' = config
        /\ turn' = Drained(NetStage)
    BY <1>1 DEF ArriveNet, Arrives
  <2>2. app'.session_groups = app.session_groups /\ app'.sessions = app.sessions
    BY <1>0, <2>1 DEF AppType
  <2>3. Grows(app, app')
    BY <2>2, GrowsSame
  <2> QED BY <1>0, <2>1, <2>3, StageUnseen, EarlyStages DEF Calm
<1>2. ASSUME NEW r, DecideElsewhere(r)
      PROVE  Calm /\ ~(turn'.at >= RestoreStage)
  <2>1. app' = [app EXCEPT !.pending_exec = Dropping(@, {r}), !.pending_net = Dropping(@, {r})]
        /\ config' = config /\ turn' = Drained(ElsewhereStage)
    BY <1>2 DEF DecideElsewhere
  <2>2. app'.session_groups = app.session_groups /\ app'.sessions = app.sessions
    BY <1>0, <2>1 DEF AppType
  <2>3. Grows(app, app')
    BY <2>2, GrowsSame
  <2> QED BY <1>0, <2>1, <2>3, StageUnseen, EarlyStages DEF Calm
<1>3. ASSUME NEW r, ActivityEvent(r)
      PROVE  Calm /\ ~(turn'.at >= RestoreStage)
  <2>1. (\E acts : app' = [app EXCEPT !.activities = acts])
        /\ config' = config /\ turn' = Drained(ActivityStage)
    BY <1>3 DEF ActivityEvent, ActivityStarts, ActivityEnds
  <2>2. app'.session_groups = app.session_groups /\ app'.sessions = app.sessions
    BY <1>0, <2>1 DEF AppType
  <2>3. Grows(app, app')
    BY <2>2, GrowsSame
  <2> QED BY <1>0, <2>1, <2>3, StageUnseen, EarlyStages DEF Calm
<1> QED BY <1>1, <1>2, <1>3

LEMMA RestoreCalm ==
  ASSUME Sound, Restore
  PROVE  Calm /\ (turn.selected \in Range(Items') => Row' = turn.selected)
<1>0. app \in AppType
  BY WholeIs DEF Sound
<1>1. app' = [app EXCEPT !.activities = EndCut(app.activities)] /\ config' = config
  BY RestoreKeeps DEF Restore
<1>2. app'.session_groups = app.session_groups /\ app'.sessions = app.sessions
  BY <1>0, <1>1 DEF AppType
<1>3. Grows(app, app')
  BY <1>2, GrowsSame
<1> QED BY <1>1, <1>3, RestoreKeeps DEF Calm, Row

\* Where the selection is put back, or would not move, it is what was noted.
LEMMA RestoredIs ==
  ASSUME Sound, Held, turn.at # KeyStage, turn.calm, Restored, turn.selected \in Range(Items)
  PROVE  Row = turn.selected
<1>1. CASE turn.at >= RestoreStage
  BY <1>1 DEF Held
<1>2. CASE ~(turn.at >= RestoreStage)
  <2>1. RestoreSelection(ui, turn.selected, Items) = ui
    <3>1. turn.at < RestoreStage
      BY <1>2 DEF Sound, TurnType, RestoreStage, KeyStage
    <3> QED BY <3>1 DEF Restored
  <2>2. app \in AppType /\ GoodUi(app, ui) /\ config \in Configs
    BY WholeIs DEF Sound, Lasting
  <2>3. RowAt(Items, RestoreSelection(ui, turn.selected, Items)) = turn.selected
    BY <2>2, RestoredUi DEF Items
  <2> QED BY <2>1, <2>3 DEF Row
<1> QED BY <1>1, <1>2

\* A session that is marked leaves the rows alone.
LEMMA MarkedItems ==
  ASSUME NEW a, GoodApp(a), NEW x, x.session_groups = a.session_groups,
         x.activities = a.activities,
         \A si \in DOMAIN a.sessions : x.sessions[si].id = a.sessions[si].id, NEW c, NEW b
  PROVE  SidebarItems(x, c, b) = SidebarItems(a, c, b)
<1>1. \A si \in DOMAIN a.sessions : CommandRows(x, si) = CommandRows(a, si)
  BY DEF CommandRows, ActivitiesFor
<1>2. \A g \in DOMAIN a.session_groups : GroupRows(x, g) = GroupRows(a, g)
  BY <1>1 DEF GroupRows, GoodApp, Grouping
<1>3. [g \in DOMAIN x.session_groups |-> GroupRows(x, g)]
        = [g \in DOMAIN a.session_groups |-> GroupRows(a, g)]
  BY <1>2
<1> QED BY <1>3 DEF SidebarItems

LEMMA MarkCalm ==
  ASSUME Sound, Held, turn.at # KeyStage, Restored, NEW si \in DOMAIN app.sessions,
         SessionExits(si) \/ StopRequested(si)
  PROVE  Calm /\ (turn'.calm /\ turn.selected \in Range(Items') => Row' = turn.selected)
<1>0. turn \in TurnType /\ app \in AppType /\ GoodApp(app) /\ ui \in UiType
  BY WholeIs DEF Sound
<1>1. app' = Mark(app, si) /\ config' = config /\ build' = build
      /\ ui'.sidebar_idx = ui.sidebar_idx
  BY <1>0 DEF SessionExits, StopRequested, UiType
<1>2. /\ app'.session_groups = app.session_groups /\ DOMAIN app'.sessions = DOMAIN app.sessions
      /\ \A sj \in DOMAIN app.sessions : app'.sessions[sj].id = app.sessions[sj].id
      /\ app'.activities = app.activities
  BY <1>0, <1>1, MarkIs
<1>3. Grows(app, app')
  BY <1>2, GrowsSame
<1>4. /\ turn'.selected = turn.selected /\ turn'.meant = turn.meant /\ turn'.calm = turn.calm
  <2>1. turn' = Drained(ExitStage) \/ turn' = Drained(StopStage)
    BY DEF SessionExits, StopRequested
  <2>2. ExitStage \in 0 .. StopStage /\ StopStage \in 0 .. StopStage
    BY DEF ExitStage, StopStage
  <2> QED BY <1>0, <2>1, <2>2, StageUnseen
<1>5. Items' = Items
  <2>1. SidebarItems(app', config, build) = SidebarItems(app, config, build)
    BY <1>0, <1>2, MarkedItems
  <2> QED BY <1>1, <2>1 DEF Items
<1>6. Row' = Row
  BY <1>1, <1>5 DEF Row, RowAt
<1>7. turn.calm /\ turn.selected \in Range(Items) => Row = turn.selected
  BY RestoredIs
<1> QED BY <1>1, <1>3, <1>4, <1>5, <1>6, <1>7 DEF Calm

LEMMA BegunHeld ==
  ASSUME turn \in TurnType, Lasting', NEW pressed \in {0, 1}, turn' = Begun(pressed)
  PROVE  Held'
<1>1. turn'.at = 0 /\ turn'.selected = Row' /\ turn'.meant = Meaning(Row, app, config)'
  BY BegunIs
<1>2. ~(0 >= RestoreStage)
  BY DEF RestoreStage
<1> DEFINE x == app'
           c == config'
           items == SidebarItems(app', config', build')
           row == RowAt(items, ui')
<1>3. GoodApp(x) /\ c \in Configs
  BY DEF Lasting, Good, Whole
<1>4. row = Row' /\ Meaning(Row, app, config)' = Meaning(row, x, c)
  BY DEF Row, Items
<1> HIDE DEF row
<1>5. row \in Range(items) \cup {Nobody}
  BY DEF RowAt, Range, row
<1> HIDE DEF x, c
<1>6. row \in Range(items) => Placed(row, x, c)
  BY <1>3, PlacedIs DEF x, c
<1>7. Meaning(Nobody, x, c) = Nobody
  BY DEF Meaning, Nobody
<1>8. /\ row = Nobody => Meaning(row, x, c) = Nobody
      /\ row # Nobody => Placed(row, x, c)
  BY <1>5, <1>6, <1>7
<1>9. Placed(turn.selected, app, config)' = Placed(turn'.selected, x, c)
      /\ Meaning(turn.selected, app, config)' = Meaning(turn'.selected, x, c)
  BY DEF x, c
<1> QED BY <1>1, <1>2, <1>4, <1>8, <1>9 DEF Held

LEMMA HeldInit ==
  ASSUME InterfaceInit, Sound
  PROVE  Held
<1>1. /\ turn.selected = Row /\ turn.meant = Meaning(Row, app, config) /\ turn.at = 0
  BY DEF InterfaceInit
<1>2. GoodApp(app) /\ config \in Configs
  BY WholeIs DEF Sound, Lasting
<1>3. Row \in Range(Items) \cup {Nobody}
  BY RowNow DEF Sound
<1>4. Row \in Range(Items) => Placed(Row, app, config)
  BY <1>2, PlacedIs DEF Items
<1>5. Meaning(Nobody, app, config) = Nobody
  BY DEF Meaning, Nobody
<1>6. ~(0 >= RestoreStage)
  BY DEF RestoreStage
<1> QED BY <1>1, <1>3, <1>4, <1>5, <1>6 DEF Held

LEMMA HeldNext ==
  ASSUME Sound, Held, [InterfaceNext]_interfaceVars
  PROVE  Held'
<1>0. Sound'
  BY SoundNext
<1>1. CASE Drain
  <2>1. turn.at # KeyStage
    BY <1>1 DEF Drain, KeyStage
  <2>2. CASE DrainFirst
    BY <2>1, <2>2, DrainFirstCalm, HeldStays
  <2>3. CASE (\E r \in NetRequests : ArriveNet(r))
             \/ \E r \in Requests : DecideElsewhere(r) \/ ActivityEvent(r)
    BY <2>1, <2>3, DrainThenCalm, HeldStays
  <2>4. CASE Restore
    BY <2>1, <2>4, RestoreCalm, HeldStays
  <2>5. CASE \E outcome \in {"failed", "cancelled", "success"} : BuildFinished(outcome)
    BY <2>5, BuildFinishedKeeps DEF Held
  <2>6. ASSUME Restored, NEW si \in DOMAIN app.sessions,
               SessionExits(si) \/ SessionCloses(si) \/ StopRequested(si)
        PROVE  Held'
    <3>1. CASE SessionCloses(si)
      BY <3>1, SessionClosesKeeps DEF Held
    <3>2. CASE SessionExits(si) \/ StopRequested(si)
      BY <2>1, <2>6, <3>2, MarkCalm, HeldStays
    <3> QED BY <2>6, <3>1, <3>2
  <2>7. CASE \E gone : EndTurn(gone)
    BY <2>7, EndTurnKeeps DEF Held
  <2>8. \/ DrainFirst \/ Restore \/ \E gone : EndTurn(gone)
        \/ \E r \in NetRequests : ArriveNet(r)
        \/ \E r \in Requests : DecideElsewhere(r) \/ ActivityEvent(r)
        \/ \E outcome \in {"failed", "cancelled", "success"} : BuildFinished(outcome)
        \/ Restored /\ \E si \in DOMAIN app.sessions :
             SessionExits(si) \/ SessionCloses(si) \/ StopRequested(si)
    BY <1>1 DEF Drain, DrainThen, DrainLast
  <2> QED BY <2>2, <2>3, <2>4, <2>5, <2>6, <2>7, <2>8
<1>2. CASE Key \/ NoKey
  <2>1. (turn' = Begun(0) \/ turn' = Begun(1)) /\ Lasting' /\ turn \in TurnType
    BY <1>0, <1>2 DEF Key, NoKey, Sound
  <2> QED BY <2>1, BegunHeld
<1>3. CASE (\E r \in Requests : \E si \in DOMAIN app.sessions : Asks(r, si))
           \/ UNCHANGED interfaceVars
  <2>1. UNCHANGED <<config, app, ui, build, turn>>
    BY <1>3 DEF Asks, interfaceVars
  <2>2. Items' = Items /\ Row' = Row
    BY <2>1 DEF Items, Row
  <2>3. /\ Placed(turn.selected, app, config)' = Placed(turn.selected, app, config)
        /\ Meaning(turn.selected, app, config)' = Meaning(turn.selected, app, config)
    BY <2>1 DEF Placed, Standing, LaunchRows, Meaning
  <2> QED BY <2>1, <2>2, <2>3 DEF Held
<1> QED BY <1>1, <1>2, <1>3 DEF InterfaceNext

\* Pruning takes rows away and adds none.
LEMMA PrunedRows ==
  ASSUME app \in AppType, config \in Configs, NEW gone, NEW u, NEW items,
         NEW a, a = Pruned(gone, Aged(u, items))
  PROVE  Range(SidebarItems(a, config, build)) \subseteq Range(Items)
<1> DEFINE aged == Aged(u, items)
<1>1. /\ aged \in Seq(Activity) /\ DOMAIN aged = DOMAIN app.activities
      /\ \A k \in DOMAIN app.activities :
           aged[k].id = app.activities[k].id /\ aged[k].session = app.activities[k].session
  BY AgedIs
<1>2. a = Pruned(gone, aged)
  OBVIOUS
<1> HIDE DEF aged
<1>3. /\ a \in AppType /\ a.session_groups = app.session_groups /\ a.sessions = app.sessions
      /\ Range(a.activities) = Spared(gone, aged)
  BY <1>1, <1>2, PrunedIs
<1>4. \A x \in Range(a.activities) : \E y \in Range(app.activities) :
        y.id = x.id /\ y.session = x.session
  BY <1>1, <1>3 DEF Spared, Range
<1>5. \A si : Range(CommandRows(a, si)) \subseteq Range(CommandRows(app, si))
  <2> TAKE si
  <2> DEFINE id == app.sessions[si].id
             of(acts) == {x \in Range(acts) : x.session = id /\ x.id \in ExecRequests}
  <2>1. /\ Range(CommandRows(a, si)) = {<<"Activity", x.id>> : x \in of(a.activities)}
        /\ Range(CommandRows(app, si)) = {<<"Activity", x.id>> : x \in of(app.activities)}
    BY <1>3, CommandRowsAre
  <2>2. \A x \in of(a.activities) : \E y \in of(app.activities) : y.id = x.id
    BY <1>4
  <2> HIDE DEF of
  <2> QED BY <2>1, <2>2
<1>6. \A g : GroupShows(a, g) \subseteq GroupShows(app, g)
  BY <1>3, <1>5 DEF GroupShows
<1>7. RowsShown(a, config, build) \subseteq RowsShown(app, config, build)
  BY <1>3, <1>6 DEF RowsShown
<1> QED BY <1>3, <1>7, ItemsAre DEF Items

LEMMA SelectionStays ==
  ASSUME Sound, Held, [InterfaceNext]_interfaceVars, turn.at # KeyStage, turn'.at = KeyStage,
         turn.calm, turn.meant \in Listed'
  PROVE  Meaning(Row, app, config)' = turn.meant
<1>1. Restored /\ \E gone : EndTurn(gone)
  <2>1. Drain
    BY DEF InterfaceNext, interfaceVars, Key, NoKey, Asks
  <2>2. ~Unseen
    BY DEF Unseen
  <2>3. ~Restore
    BY RestoreKeeps
  <2>4. \E gone : EndTurn(gone)
    BY <2>1, <2>2, <2>3, DrainKeeps
  <2>5. ~DrainFirst /\ ~DrainThen
    <3>1. ~(KeyStage < RestoreStage) /\ KeyStage >= RestoreStage
      BY DEF KeyStage, RestoreStage
    <3> QED BY <2>3, <3>1, DrainFirstCalm, DrainThenCalm DEF DrainThen
  <2> QED BY <2>1, <2>4, <2>5 DEF Drain
<1>2. PICK gone : EndTurn(gone)
  BY <1>1
<1> DEFINE a == Pruned(gone, Aged(ui, Items))
           items == SidebarItems(a, config, build)
           selected == turn.selected
<1>3. /\ app \in AppType /\ GoodApp(app) /\ config \in Configs
  BY WholeIs DEF Sound, Lasting
<1>4. app' = a /\ config' = config /\ build' = build
  BY <1>2 DEF EndTurn
<1>5. Items' = items
  BY <1>4 DEF Items
<1>6. /\ a.session_groups = app.session_groups /\ a.sessions = app.sessions /\ a \in AppType
  <2>1. Aged(ui, Items) \in Seq(Activity)
    BY <1>3, AgedIs
  <2> QED BY <1>3, <2>1, PrunedIs
<1>7. Range(items) \subseteq Range(Items)
  BY <1>3, PrunedRows
<1> HIDE DEF a
<1>8. GoodApp(a) /\ Grows(app, a)
  BY <1>3, <1>6, GrowsSame DEF GoodApp, Grouping
<1>9. PICK row \in Range(items) : turn.meant = Meaning(row, a, config)
  BY <1>4, <1>5 DEF Listed
<1>10. Placed(row, a, config) /\ row \in RowKind
  BY <1>3, <1>8, <1>9, PlacedIs DEF Placed
<1>11. selected # Nobody
  BY <1>9, <1>10, KindIs DEF Held
<1>12. Placed(selected, app, config) /\ Meaning(selected, app, config) = turn.meant
  BY <1>11 DEF Held
<1>13. Placed(selected, a, config) /\ Meaning(selected, a, config) = turn.meant
  BY <1>3, <1>8, <1>12, GrowsKeep
<1>14. selected \in Range(items)
  <2>1. CASE Passing(selected)
    BY <1>3, <1>9, <1>10, <1>13, <2>1, OneMeaning
  <2>2. CASE ~Passing(selected)
    BY <1>3, <1>8, <1>13, <2>2, PlacedIs DEF Placed
  <2> QED BY <2>1, <2>2
<1>15. Row = selected
  BY <1>1, <1>7, <1>14, RestoredIs
<1>16. Row' = selected
  BY <1>2, <1>5, <1>14, <1>15, EndTurnKeeps
<1>17. Meaning(Row, app, config)' = Meaning(Row', a, config)
  BY <1>4
<1> QED BY <1>13, <1>16, <1>17

\* In a turn that ends no session and no build and reloads no other
\* configuration, the cursor is in the end on what it was on at the beginning, if
\* that is still listed: whatever rows appeared, went or faded above it.
THEOREM SelectionIsKeptHolds == InterfaceSpec => SelectionIsKept
<1> DEFINE Safe == (turn.at # KeyStage /\ turn'.at = KeyStage /\ turn.calm /\ turn.meant \in Listed')
                      => Meaning(Row, app, config)' = turn.meant
<1>1. InterfaceInit => Sound /\ Held
  BY SoundInit, HeldInit
<1>2. Sound /\ Held /\ [InterfaceNext]_interfaceVars => (Sound /\ Held)'
  BY SoundNext, HeldNext
<1>3. Sound /\ Held /\ [InterfaceNext]_interfaceVars => [Safe]_interfaceVars
  BY SelectionStays
<1> QED BY <1>1, <1>2, <1>3, PTL DEF InterfaceSpec, SelectionIsKept

=============================================================================
