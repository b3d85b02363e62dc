------------------------------ MODULE MCLaunch ------------------------------
(* Values for model-checking Launch: the mounts of the example configuration *)
(* that lie in one another, and two workspaces.                              *)
EXTENDS Launch, TLC

CONSTANTS s1, s2

Labels == {"me", "coder", "a", "b", "app", "web", "workspace", "hostdo", "hat.json", ".claude",
           ".claude.json", ".credentials.json", "settings.json"}

At(dir, file) == <<dir, ".claude", file>>
Home(dir) == <<dir, ".claude.json">>

Files == {<<"me", "hat.json">>, Home("me"), At("me", ".claude.json"), At("me", ".credentials.json")}
Dirs == {<<"me", ".claude">>}
Probes == {Home("coder"), At("coder", ".claude.json"), At("coder", ".credentials.json"), At("me", ".claude.json")}

Rw(from, at, seed) == [host |-> from, container |-> at, mode |-> "rw", seed |-> seed]

State ==
  <<Rw(Home("me"), Home("coder"), "unset"),
    Rw(At("me", ".claude.json"), At("coder", ".claude.json"), "unset"),
    Rw(<<"me", ".claude">>, <<"coder", ".claude">>, "unset")>>

\* The token comes from the environment and the credentials are a copy.
WithToken ==
  [defaults |-> <<Rw(At("me", ".credentials.json"), At("coder", ".credentials.json"), "yes")>>,
   state |-> State, profile |-> <<>>, settings |-> NoPath, target |-> <<"workspace">>,
   env |-> <<>>, passthrough |-> {"TOKEN"}]

\* A key is set, the settings are a copy, and a profile puts another file in
\* place of the configuration.
WithKey ==
  [defaults |-> <<>>, state |-> State,
   profile |-> <<Rw(<<"me", "hat.json">>, Home("coder"), "unset")>>,
   settings |-> Home("me"), target |-> <<"workspace">>,
   env |-> ("API_KEY" :> "user"), passthrough |-> {"TOKEN"}]

Templates == {WithToken, WithKey}

Apart == {<<"me", "a", "app">>, <<"me", "b", "web">>}
Envs == {<<>>, "TOKEN" :> "host"}

\* The instance is one the results are about.
ASSUME NamesDiffer /\ PlacesDiffer /\ CopiesMirror /\ TokensAreGiven

Alike == Permutations(Session)

=============================================================================
