---------------------------- MODULE MCInterface ----------------------------
\* Interface on small instances: what the configuration file may hold.
EXTENDS Interface
CONSTANTS command, connection, web, api
One == {<<web>>}
Two == {<<api, web>>}
UpToTwo == {<<>>, <<web>>, <<api, web>>}

\* A second session is explored with one workspace, neither requests nor builds,
\* and one event more; a build without requests; two requests, or three events
\* and a request, with two keys; more than three keys with an activity and
\* nothing else.
Asked == {r \in Requests : asked[r].by # NoIndex}
Budget ==
    /\ app.launched = 2 => config = <<web>>
    /\ app.launched = 2 \/ build.ws # NoIndex => Asked = {}
    /\ build.ws # NoIndex => app.launched < 2 /\ turn.events <= 2
    /\ turn.events = 4 => app.launched = 2
    /\ Asked = Requests \/ (turn.events = 3 /\ Asked # {}) => turn.keys <= 2
    /\ turn.keys > 3 => turn.events <= 2 /\ app.activities # <<>> /\ config = <<web>>
=============================================================================
