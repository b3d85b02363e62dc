---------------------------- MODULE MCConfigFile ----------------------------
(* Values for model-checking ConfigFile: two projects with directories of   *)
(* one name, and a directory inside the first of them.                       *)
EXTENDS ConfigFile, TLC

CONSTANTS c1, c2, t1

Directories == {"work/app", "play/app", "work/app/lib"}
Nested == {<<d, d>> : d \in Directories} \cup {<<"work/app/lib", "work/app">>}
Components == ("work/app" :> 2) @@ ("play/app" :> 2) @@ ("work/app/lib" :> 3)
LastPart == ("work/app" :> "app") @@ ("play/app" :> "app") @@ ("work/app/lib" :> "lib")

Apart == (c1 :> "work/app") @@ (c2 :> "play/app")
Inside == (c1 :> "work/app/lib") @@ (c2 :> "play/app")

Nothing == <<>>
App == <<[name |-> <<"app", 1>>, dir |-> "work/app"]>>
JustApp == {<<"app", 1>>}

=============================================================================
