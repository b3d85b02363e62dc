------------------------------ MODULE MCPolicy ------------------------------
(* Values for model-checking Policy: a host and one below it, and a path that *)
(* is spelled in two ways.                                                    *)
EXTENDS Policy

CONSTANTS w1, glob, cargo, hat

Site == <<"com", "site">>
Api == <<"com", "site", "api">>
Alias == <<"internal", "docker", "host">>

Plain(host, path) == [method |-> "GET", host |-> host, port |-> 80, path |-> path]
Raw(host, port) == [method |-> "CONNECT", host |-> host, port |-> port, path |-> <<>>]
Requests ==
  {Plain(Site, <<"admin", "x">>), Plain(Site, <<"open", "%2e%2e", "", "%61dmin", "x">>),
   Plain(Api, <<"open">>), Plain(Alias, <<>>), Raw(Site, 443), Raw(Site, 22), Raw(Site, 23)}

Spelled ==
  [s \in {"", ".", "..", "admin", "open", "x"} |-> <<s>>]
    @@ ("%2e%2e" :> <<"..">>) @@ ("%61dmin" :> <<"admin">>)

\* Whatever is spelled in up to four segments, it is resolved as a server does.
ASSUME ShortPathsResolve ==
  \A n \in 0 .. 4 : \A path \in [1 .. n -> DOMAIN Spelling] : Normalized(path) = Routed(path)

Empty == [broken |-> FALSE, allow |-> {}, deny |-> {}, commands |-> <<>>,
          default |-> "prompt", forwards |-> <<>>]
Listed(kind, host, paths) ==
  [methods |-> {}, domain |-> [kind |-> kind, of |-> host], paths |-> paths, ports |-> {}]

NoAdmin == [Empty EXCEPT !.deny = {Listed("exact", Site, {[at |-> <<"admin">>, below |-> TRUE]})},
                         !.commands = <<[command |-> cargo, mode |-> "deny", timeout |-> 60]>>]
Below == [Empty EXCEPT !.allow = {Listed("sub", Site, {})}, !.deny = {Listed("exact", Site, {})},
                       !.commands = <<[command |-> cargo, mode |-> "prompt", timeout |-> 300]>>]
Strict == [Empty EXCEPT !.default = "deny", !.deny = {Listed("sub", Site, {})},
                        !.forwards = <<[inside |-> 80, outside |-> 8080]>>]
Broken == [Empty EXCEPT !.broken = TRUE]
RunsHat == [Empty EXCEPT !.commands = <<[command |-> hat, mode |-> "auto", timeout |-> 60]>>]
AllBodies == {Empty, NoAdmin, Below, Strict, Broken, RunsHat}

ApiAllowed == {[kind |-> "exact", of |-> Api]}
AliasForwarded == {<<Alias, 80>>}

=============================================================================
