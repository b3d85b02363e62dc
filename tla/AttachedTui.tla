----------------------------- MODULE AttachedTui -----------------------------
(***************************************************************************)
(* The interface of the daemon and the terminals attached to it.  A        *)
(* terminal runs two threads: the poller long-polls the daemon's feed of   *)
(* numbered events, and the relay sends keys and asks for frames whenever  *)
(* there is a key or the poller heard of an event.  The daemon's event     *)
(* loop takes frame requests from a bounded queue, applies their key and   *)
(* answers with what changed since the last frame it drew for anybody.     *)
(*                                                                         *)
(* A picture is a function of a few cells; a frame is a function of the    *)
(* cells it writes.  Ratatui's drawing, escape sequences and the clipboard *)
(* are left out, and so is what a restart itself changes.  A request whose *)
(* client has closed the connection is not delivered afterwards.           *)
(***************************************************************************)
EXTENDS Naturals, Sequences, Functions

CONSTANTS
  Client,       \* attached terminals
  Cell,         \* cells of a screen
  Picture,      \* what the interface may draw, in two colours
  Size,         \* sizes a terminal may have
  Retained,     \* events the feed keeps (TUI_EVENT_CAPACITY)
  QueueLimit,   \* frame requests that may wait for the event loop
  MaxEvents,    \* bound: events published
  MaxKeys,      \* bound: keys typed at a terminal
  MaxTimeouts,  \* bound: answers that come too late
  MaxResizes,   \* bound: changes of a terminal's size
  MaxRestarts   \* bound: restarts of the daemon

None == 0

ASSUME AttachedAssumption ==
  /\ None \notin Client /\ Size # {}
  /\ Picture \subseteq [Cell -> {0, 1}] /\ Picture # {}
  /\ Retained \in Nat \ {0} /\ QueueLimit \in Nat \ {0}
  /\ {MaxEvents, MaxKeys, MaxTimeouts, MaxResizes, MaxRestarts} \subseteq Nat

VARIABLES
  display,   \* what the interface would draw
  last,      \* the buffer last drawn for any terminal (last_remote_buffer)
  queue,     \* frame requests of the event loop, the one served first
  sequence,  \* the number of the last event (next_sequence)
  after,     \* the poller's position in the feed
  poll,      \* what the poller is at
  signal,    \* the poller has told the relay that something changed
  relay,     \* what the relay is at
  size, lastSize,  \* the terminal's size, now and when last asked
  screen,    \* what the terminal shows
  lastFrame, \* the frame written last
  needs,     \* needs_render and needs_full_frame
  typed,     \* keys typed at the terminal
  history    \* what no program variable keeps, see History

feedVars == <<sequence, after, poll, signal>>
relayVars == <<relay, size, lastSize, screen, lastFrame, needs, typed>>
vars == <<display, last, queue, feedVars, relayVars, history>>

Colour == {0, 1}
Unknown == 2
Blank == [x \in Cell |-> Unknown]
Buffer == [size : Size, cells : Picture]
NoBuffer == [size |-> None, cells |-> << >>]

\* Events published over all lives of the daemon, and how many of them a
\* client has heard of and its picture includes; the keys applied; answers
\* that were too late, resizes, restarts; terminals that got every frame since
\* their last full one, and the terminal that got the last frame of all.
History == [total : Nat, seen : [Client -> Nat], shown : [Client -> Nat],
            applied : [Client -> Seq(Nat)], late : Nat, resizes : Nat,
            restarts : Nat, synced : [Client -> BOOLEAN], drawnFor : Client \cup {None}]

Init ==
  /\ display = (CHOOSE p \in Picture : TRUE) /\ last = NoBuffer /\ queue = <<>>
  /\ sequence = 0
  /\ after = [c \in Client |-> 0]
  /\ poll = [c \in Client |-> [at |-> "ask"]]
  /\ signal = [c \in Client |-> FALSE]
  /\ relay = [c \in Client |-> [at |-> "loop"]]
  /\ size = [c \in Client |-> CHOOSE s \in Size : TRUE]
  /\ lastSize = [c \in Client |-> None]
  /\ screen = [c \in Client |-> Blank]
  /\ lastFrame = [c \in Client |-> << >>]
  /\ needs = [c \in Client |-> [render |-> TRUE, full |-> TRUE]]
  /\ typed = [c \in Client |-> 0]
  /\ history = [total |-> 0, seen |-> [c \in Client |-> 0],
                shown |-> [c \in Client |-> 0],
                applied |-> [c \in Client |-> <<>>],
                late |-> 0, resizes |-> 0, restarts |-> 0,
                synced |-> [c \in Client |-> FALSE], drawnFor |-> None]

-----------------------------------------------------------------------------
(* The feed of events *)

\* The ring keeps the last Retained events.
Oldest == IF sequence > Retained THEN sequence - Retained + 1 ELSE 1
Reset(c) == sequence > 0 /\ after[c] + 1 < Oldest
Events(c) == IF Reset(c) THEN {} ELSE {e \in Oldest .. sequence : e > after[c]}
\* Mutant: forgets that a reset is news.
NewsEvents(c) == Events(c) # {}

News(c) == Reset(c) \/ Events(c) # {}

\* Mutant: a handler registers when it begins to wait.
RegisteredLate(c) == poll[c].at = "parked"
\* A handler registers before it reads.
Registered(c) == poll[c].at \in {"read", "await", "parked"}

\* Publishing wakes every handler that has registered.
Publish ==
  /\ history.total < MaxEvents
  /\ sequence' = sequence + 1
  /\ history' = [history EXCEPT !.total = @ + 1]
  /\ poll' = [c \in Client |->
       IF Registered(c) THEN [poll[c] EXCEPT !.woken = TRUE]
       ELSE poll[c]]

\* One turn of the event loop found something to redraw, or 250 ms have passed.
Tick ==
  /\ display' \in Picture
  /\ Publish
  /\ UNCHANGED <<last, queue, after, signal, relayVars>>

Alive(c) == relay[c].at # "gone"

\* A poll reaches its handler, which registers for the next event.
Register(c) ==
  /\ Alive(c) /\ poll[c].at = "ask"
  /\ poll' = [poll EXCEPT ![c] = [at |-> "read", woken |-> FALSE]]
  /\ UNCHANGED <<display, last, queue, sequence, after, signal, relayVars, history>>

Answer(c) ==
  /\ poll' = [poll EXCEPT ![c] =
       [at |-> "answered", latest |-> sequence, news |-> News(c), upTo |-> history.total]]
  /\ UNCHANGED <<display, last, queue, sequence, after, signal, relayVars, history>>

\* ... then reads: it answers if there is news.
ReadNews(c) ==
  /\ poll[c].at = "read" /\ News(c)
  /\ Answer(c)

ReadNothing(c) ==
  /\ poll[c].at = "read" /\ ~News(c)
  /\ poll' = [poll EXCEPT ![c].at = "await"]
  /\ UNCHANGED <<display, last, queue, sequence, after, signal, relayVars, history>>

Park(c) ==
  /\ poll[c].at = "await"
  /\ poll' = [poll EXCEPT ![c].at = "parked"]
  /\ UNCHANGED <<display, last, queue, sequence, after, signal, relayVars, history>>

Wake(c) ==
  /\ poll[c].at = "parked" /\ poll[c].woken
  /\ poll' = [poll EXCEPT ![c] = [at |-> "read", woken |-> FALSE]]
  /\ UNCHANGED <<display, last, queue, sequence, after, signal, relayVars, history>>

\* The long poll ends after 25 seconds, whatever there is.
Deadline(c) == Registered(c) /\ Answer(c)

\* The poller gives up after three seconds and asks again from its old position.
PollTimesOut(c) ==
  /\ poll[c].at # "ask"
  /\ poll' = [poll EXCEPT ![c] = [at |-> "ask"]]
  /\ UNCHANGED <<display, last, queue, sequence, after, signal, relayVars, history>>

Hear(c) ==
  /\ poll[c].at = "answered" /\ Alive(c)
  /\ after' = [after EXCEPT ![c] = poll[c].latest]
  /\ signal' = [signal EXCEPT ![c] = @ \/ poll[c].news]
  /\ history' = [history EXCEPT !.seen[c] = poll[c].upTo]
  /\ poll' = [poll EXCEPT ![c] = [at |-> "ask"]]
  /\ UNCHANGED <<display, last, queue, sequence, relayVars>>

-----------------------------------------------------------------------------
(* The relay of a terminal *)

\* One turn of the relay's loop: a key, or a repaint that is due.
Turn(c) ==
  /\ relay[c].at = "loop"
  /\ \E key \in {None} \cup ({typed[c] + 1} \cap 1 .. MaxKeys) :
       LET resized == lastSize[c] # size[c] IN
       /\ key # None \/ needs[c].render \/ signal[c]
       /\ typed' = [typed EXCEPT ![c] = IF key = None THEN @ ELSE key]
       /\ needs' = [needs EXCEPT ![c] = [render |-> @.render \/ signal[c],
                                         full |-> @.full \/ resized]]
       /\ relay' = [relay EXCEPT ![c] =
            [at |-> "send", ask |-> [key |-> key, full |-> needs'[c].full,
                                     size |-> size[c], resized |-> resized]]]
  /\ lastSize' = [lastSize EXCEPT ![c] = size[c]]
  /\ signal' = [signal EXCEPT ![c] = FALSE]
  /\ UNCHANGED <<display, last, queue, sequence, after, poll, size, screen, lastFrame, history>>

Leave(c) ==
  /\ relay' = [relay EXCEPT ![c] = [at |-> "gone"]]
  /\ poll' = [poll EXCEPT ![c] = [at |-> "ask"]]
  /\ UNCHANGED <<display, last, queue, sequence, after, signal, size, lastSize, screen, lastFrame, needs, typed>>

Quit(c) == relay[c].at = "loop" /\ Leave(c) /\ UNCHANGED history

Step(c, at) == relay' = [relay EXCEPT ![c].at = at]
RelayRest == <<size, lastSize, screen, lastFrame, needs, typed>>

\* The handler hands the request to the event loop ...
Enqueue(c) ==
  /\ relay[c].at = "send" /\ Len(queue) < QueueLimit
  /\ queue' = Append(queue, [client |-> c, heard |-> TRUE, ask |-> relay[c].ask])
  /\ Step(c, "wait")
  /\ UNCHANGED <<display, last, feedVars, RelayRest, history>>

\* ... or says that it is busy.
Busy(c) ==
  /\ relay[c].at = "send" /\ Len(queue) >= QueueLimit
  /\ Step(c, "retry")
  /\ UNCHANGED <<display, last, queue, feedVars, RelayRest, history>>

\* The handler's ten or the client's twelve seconds pass: the request stays in
\* the queue, or its answer is lost.
TimesOut(c) ==
  /\ relay[c].at \in {"wait", "answered"} /\ history.late < MaxTimeouts
  /\ history' = [history EXCEPT !.late = @ + 1,
       !.drawnFor = IF relay[c].at = "answered" /\ @ = c THEN None ELSE @]
  /\ queue' = [i \in DOMAIN queue |->
       IF queue[i].client = c THEN [queue[i] EXCEPT !.heard = FALSE] ELSE queue[i]]
  /\ relay' = [relay EXCEPT ![c] = [at |-> "retry", ask |-> @.ask]]
  /\ UNCHANGED <<display, last, feedVars, RelayRest>>

\* Mutant: a refused request is dropped, and the next key is read.
RetryNever(c) ==
  /\ relay[c].at = "retry"
  /\ relay' = [relay EXCEPT ![c] = [at |-> "loop"]]
  /\ UNCHANGED <<display, last, queue, feedVars, RelayRest, history>>
\* Within thirty seconds the same request, key included, is sent again ...
Retry(c) ==
  /\ relay[c].at = "retry"
  /\ Step(c, "send")
  /\ UNCHANGED <<display, last, queue, feedVars, RelayRest, history>>

\* ... and after that the terminal gives up.
GiveUp(c) ==
  /\ relay[c].at = "retry"
  /\ Leave(c) /\ UNCHANGED history

\* Mutant: writes a frame only if it differs from the last one.
WritesNew(c) == lastFrame[c] # relay[c].frame

\* A frame is not written twice in a row, unless it was asked for in full.
Writes(c) == relay[c].ask.full \/ relay[c].forced \/ lastFrame[c] # relay[c].frame

\* Mutant: forgets the events heard of while a frame was under way.
PaintedAndDrained(c) ==
  /\ needs' = [needs EXCEPT ![c] = [render |-> FALSE, full |-> FALSE]]
  /\ signal' = [signal EXCEPT ![c] = FALSE]

\* The repaint is done; one that came due meanwhile is still to come.
Painted(c) ==
  /\ needs' = [needs EXCEPT ![c] = [render |-> FALSE, full |-> FALSE]]
  /\ UNCHANGED signal

\* What is seen when a frame is written over a picture.
Drawn(frame, cells) == [x \in Cell |-> IF x \in DOMAIN frame THEN frame[x] ELSE cells[x]]

Receive(c) ==
  LET r == relay[c]
      before == IF r.ask.resized THEN Blank ELSE screen[c]
  IN
  /\ r.at = "answered"
  /\ screen' = [screen EXCEPT ![c] =
       IF r.ask.size # size[c] THEN Blank
       ELSE IF Writes(c) THEN Drawn(r.frame, before) ELSE before]
  /\ lastFrame' = [lastFrame EXCEPT ![c] = IF Writes(c) THEN r.frame ELSE @]
  /\ Painted(c)
  /\ relay' = [relay EXCEPT ![c] = [at |-> "loop"]]
  /\ history' = [history EXCEPT !.shown[c] = r.upTo,
                                !.synced[c] = /\ r.ask.size = size[c]
                                              /\ r.forced \/ (r.exact /\ @)]
  /\ UNCHANGED <<display, last, queue, sequence, after, poll, size, lastSize, typed>>

Resize(c) ==
  /\ Alive(c) /\ history.resizes < MaxResizes
  /\ history' = [history EXCEPT !.resizes = @ + 1, !.synced[c] = FALSE]
  /\ size' \in {[size EXCEPT ![c] = s] : s \in Size \ {size[c]}}
  /\ screen' = [screen EXCEPT ![c] = Blank]
  /\ UNCHANGED <<display, last, queue, feedVars, relay, lastSize, lastFrame, needs, typed>>

-----------------------------------------------------------------------------
(* The event loop serves a frame request *)

\* The cells in which two buffers of one size differ, or all of them.
Delta(previous, buffer) ==
  IF previous.size # buffer.size THEN buffer.cells
  ELSE Restrict(buffer.cells, {x \in Cell : previous.cells[x] # buffer.cells[x]})

\* A frame is also full when the terminal view or a failed build has just come
\* into sight: any request may meet that (forced).  A key may change anything.
Serve ==
  /\ queue # <<>>
  /\ LET item == Head(queue)
         c == item.client
         key == item.ask.key
     IN \E d \in Picture, forced \in BOOLEAN :
       LET buffer == [size |-> item.ask.size, cells |-> d]
           full == item.ask.full \/ forced
           frame == IF full THEN d ELSE Delta(last, buffer)
       IN
       /\ key = None => d = display
       /\ display' = d
       /\ last' = buffer
       /\ history' = [history EXCEPT
            !.applied[c] = IF key = None THEN @ ELSE Append(@, key),
            !.drawnFor = IF item.heard THEN c ELSE None]
       /\ relay' = IF ~item.heard THEN relay
                   ELSE [relay EXCEPT ![c] = [at |-> "answered", ask |-> @.ask,
                           frame |-> frame, forced |-> full, buffer |-> buffer,
                           upTo |-> history.total, exact |-> history.drawnFor = c]]
  /\ queue' = Tail(queue)
  /\ UNCHANGED <<feedVars, size, lastSize, screen, lastFrame, needs, typed>>

\* The daemon restarts: events count from one again, requests under way fail,
\* and a terminal that was waiting for an answer ends.  The token is kept.  What
\* counts as heard of from then on are the new daemon's events.
Restart ==
  /\ history.restarts < MaxRestarts
  /\ history' = [history EXCEPT !.restarts = @ + 1, !.drawnFor = None,
                                !.seen = [c \in Client |-> history.total]]
  /\ display' \in Picture /\ last' = NoBuffer /\ queue' = <<>>
  /\ sequence' = 0
  /\ poll' = [c \in Client |-> [at |-> "ask"]]
  /\ relay' = [c \in Client |->
       IF relay[c].at \in {"send", "wait", "answered"} THEN [at |-> "gone"] ELSE relay[c]]
  /\ UNCHANGED <<after, signal, RelayRest>>

-----------------------------------------------------------------------------
Poller(c) == Register(c) \/ ReadNews(c) \/ ReadNothing(c) \/ Park(c) \/ Wake(c) \/ Hear(c)
Relay(c) == Enqueue(c) \/ Busy(c) \/ Retry(c) \/ Receive(c)

Next ==
  \/ Tick \/ Serve
  \/ \E c \in Client :
       \/ Poller(c) \/ Deadline(c) \/ PollTimesOut(c)
       \/ Turn(c) \/ Relay(c) \/ TimesOut(c) \/ GiveUp(c) \/ Quit(c) \/ Resize(c)

Spec == Init /\ [][Next]_vars
RestartSpec == Init /\ [][Next \/ Restart]_vars

\* The event loop, the poller and the relay go on.  A poll is answered within
\* its three seconds now and then, as there is nothing slow in its handler.
Fairness ==
  /\ WF_vars(Serve)
  /\ \A c \in Client :
       /\ WF_vars(Relay(c))
       /\ WF_vars(Turn(c) /\ (signal[c] \/ needs[c].render))
       /\ WF_vars(Register(c)) /\ WF_vars(Park(c)) /\ WF_vars(Wake(c))
       /\ SF_vars(ReadNews(c)) /\ SF_vars(Hear(c))
FairSpec == Spec /\ Fairness

-----------------------------------------------------------------------------
(* Properties *)

TypeOK ==
  /\ display \in Picture /\ last \in Buffer \cup {NoBuffer}
  /\ \A i \in DOMAIN queue : queue[i].client \in Client /\ queue[i].heard \in BOOLEAN
  /\ Len(queue) <= QueueLimit
  /\ sequence \in 0 .. MaxEvents /\ after \in [Client -> 0 .. MaxEvents]
  /\ \A c \in Client :
       /\ poll[c].at \in {"ask", "read", "await", "parked", "answered"}
       /\ relay[c].at \in {"loop", "send", "wait", "retry", "answered", "gone"}
       /\ screen[c] \in [Cell -> Colour \cup {Unknown}]
       /\ DOMAIN lastFrame[c] \subseteq Cell
  /\ signal \in [Client -> BOOLEAN] /\ typed \in [Client -> 0 .. MaxKeys]
  /\ size \in [Client -> Size] /\ lastSize \in [Client -> Size \cup {None}]

\* "Register before reading so an event published between these steps cannot
\* leave the client waiting" (handlers.rs:1110): a poll that is parked, and
\* has not been woken, has missed no event.
NoSleepOverNews ==
  \A c \in Client :
    poll[c].at = "parked" /\ ~poll[c].woken => history.seen[c] = history.total

\* Keys reach the interface in the order they were typed, and all of them;
\* one is applied again only for an answer that came too late.  The state it
\* is read from has its type.
KeysInOrder ==
  /\ TypeOK
  /\ \A c \in Client :
       LET keys == history.applied[c] IN
       /\ \A i \in DOMAIN keys :
            keys[i] - (IF i = 1 THEN 0 ELSE keys[i - 1]) \in {0, 1}
       /\ keys # <<>> => Len(keys) <= keys[Len(keys)] + history.late
       /\ relay[c].at = "loop" => typed[c] = IF keys = <<>> THEN 0 ELSE keys[Len(keys)]

Received(c) == relay[c].at = "answered" /\ relay'[c].at = "loop"

\* What is written to the terminal and what is left out adds up: it shows the
\* buffer drawn for it, as long as since its last full frame every answer
\* has arrived and nobody else has been drawn for.
ScreenAddsUp ==
  [][\A c \in Client :
       Received(c) /\ history'.synced[c] => screen'[c] = relay[c].buffer.cells]_vars

\* An answer brings the whole picture, whatever was drawn before: "Normal frames
\* repaint every current cell without clearing" (remote.rs:182).
FramesRepaint ==
  [][\A c \in Client :
       Received(c) /\ relay[c].ask.size = size[c] => screen'[c] = relay[c].buffer.cells]_vars

\* The feed keeps the promise of EventLog: a position never passes an event
\* without a repaint, and a repaint is not forgotten for an older picture.
Log == INSTANCE EventLog WITH
  published <- history.total, seen <- history.seen, shown <- history.shown,
  due <- [c \in Client |-> signal[c] \/ needs[c].render]
FeedIsKept == Log!Spec

\* What the interface was redrawn for reaches every terminal that stays: when
\* there are no further events, its picture is drawn after the last of them.
NewsGetsPainted ==
  []<>(\A c \in Client : history.shown[c] = history.total \/ relay[c].at = "gone")

=============================================================================
