------------------------------ MODULE EventLog ------------------------------
(***************************************************************************)
(* What the event feed promises an attached terminal: however polls are    *)
(* lost, delayed or answered with a reset, its position moves past an      *)
(* event only by making a repaint due, and a repaint that was due is only  *)
(* forgotten for a picture at least as new as the events it stands for.    *)
(***************************************************************************)
EXTENDS Naturals

CONSTANT Client

VARIABLES
  published,  \* the number of events so far
  seen,       \* the events a client knows of
  due,        \* whether it still has to repaint
  shown       \* the events that had happened when its picture was drawn

Init ==
  /\ published = 0
  /\ seen = [c \in Client |-> 0]
  /\ due = [c \in Client |-> TRUE]
  /\ shown = [c \in Client |-> 0]

Publish ==
  /\ published' = published + 1
  /\ UNCHANGED <<seen, due, shown>>

Learn(c) ==
  /\ \E n \in seen[c] + 1 .. published : seen' = [seen EXCEPT ![c] = n]
  /\ due' = [due EXCEPT ![c] = TRUE]
  /\ UNCHANGED <<published, shown>>

Repaint(c) ==
  \E n \in shown[c] .. published :
    /\ shown' = [shown EXCEPT ![c] = n]
    /\ \/ UNCHANGED due
       \/ n >= seen[c] /\ due' = [due EXCEPT ![c] = FALSE]
    /\ UNCHANGED <<published, seen>>

Next == Publish \/ \E c \in Client : Learn(c) \/ Repaint(c)

Spec == Init /\ [][Next]_<<published, seen, due, shown>>

=============================================================================
