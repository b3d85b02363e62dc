-------------------------- MODULE MCNetworkApproval --------------------------
(***************************************************************************)
(* NetworkApproval for TLC: two sessions launched from one template.  c1,  *)
(* c2 and c3 are of one session; c1 and c2 ask for the same destination,   *)
(* c4 asks for it from the other session.                                  *)
(***************************************************************************)
EXTENDS NetworkApproval, TLC

CONSTANTS c1, c2, c3, c4, s1, s2

OwnerOf == [c \in Conn |-> IF c = c4 THEN s2 ELSE s1]
DestOf == [c \in Conn |-> IF c = c3 THEN "example.org:80" ELSE "example.org:443"]
OneTemplate == [s \in Session |-> "default"]
OneWorkspace == [s \in Session |-> "one"]
TwoWorkspaces == [s \in Session |-> IF s = s1 THEN "one" ELSE "two"]

=============================================================================
