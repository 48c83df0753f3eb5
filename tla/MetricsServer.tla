---------------------------- MODULE MetricsServer ----------------------------
(***************************************************************************)
(* The metrics HTTP server (lodestar/src/metrics/server/http.ts): start,   *)
(* stop and the request handler, with the connections clients open and    *)
(* keep alive.  A connection carries one request at a time (keep-alive);   *)
(* onRequest awaits register.metrics() and then, on success, the server's  *)
(* own registry before it writes the response head.  stop() destroys every *)
(* tracked socket and then awaits server.close(), which calls back once no *)
(* connection is left.  Clients close their connections when they please:  *)
(* nothing forces a keep-alive connection to end.                          *)
(***************************************************************************)
EXTENDS Naturals

CONSTANTS
    Conns,          \* connection ids
    MaxRequests     \* bound on the requests of a behaviour

VARIABLES
    server,         \* "created" | "starting" | "listening" | "startFailed" | "closed"
    stopPhase,      \* "none" | "closing" | "resolved" | "rejected"
    conn,           \* connection -> "none" | "open" | "destroyed" | "ended"
    req,            \* connection -> "idle" | "scrape" | "scrapeSelf" | "done"
                    \* | "rejected" (onRequest's promise rejected, no answer)
    heads,          \* connection -> writeHead calls for its current request
    requests        \* requests received so far

vars == <<server, stopPhase, conn, req, heads, requests>>

\* res.writeHead(code).end(...): what a destroyed socket would carry is lost
WriteHead(c) ==
    heads' = [heads EXCEPT ![c] = IF conn[c] = "open" THEN @ + 1 ELSE @]

\* start(): listen, resolve on "listening", reject on "error"
start ==
    /\ server = "created"
    /\ server' = "starting"
    /\ UNCHANGED <<stopPhase, conn, req, heads, requests>>

listening ==
    /\ server = "starting"
    /\ server' = "listening"
    /\ UNCHANGED <<stopPhase, conn, req, heads, requests>>

listenError ==
    /\ server = "starting"
    /\ server' = "startFailed"
    /\ UNCHANGED <<stopPhase, conn, req, heads, requests>>

\* onRequest up to its first await; any other path answers 404 at once
onRequest(c, isMetrics) ==
    /\ conn[c] = "open" /\ req[c] \in {"idle", "done"}
    /\ requests < MaxRequests
    /\ requests' = requests + 1
    /\ IF isMetrics
       THEN /\ req' = [req EXCEPT ![c] = "scrape"]
            /\ heads' = [heads EXCEPT ![c] = 0]
       ELSE /\ req' = [req EXCEPT ![c] = "done"]
            /\ heads' = [heads EXCEPT ![c] = 1]
    /\ UNCHANGED <<server, stopPhase, conn>>

\* mutant: the error response does not end the handler
MutScrapeErrorFallsThrough(c, ok) ==
    /\ req[c] = "scrape"
    /\ IF ok THEN /\ req' = [req EXCEPT ![c] = "scrapeSelf"]
                  /\ UNCHANGED heads
       ELSE /\ req' = [req EXCEPT ![c] = "scrapeSelf"]
            /\ WriteHead(c)
    /\ UNCHANGED <<server, stopPhase, conn, requests>>

\* register.metrics() settles: an error is answered with 500, a result
\* leads to the await of the server's own registry
scrapeResolved(c, ok) ==
    /\ req[c] = "scrape"
    /\ IF ok THEN /\ req' = [req EXCEPT ![c] = "scrapeSelf"]
                  /\ UNCHANGED heads
       ELSE /\ req' = [req EXCEPT ![c] = "done"]
            /\ WriteHead(c)
    /\ UNCHANGED <<server, stopPhase, conn, requests>>

\* httpServerRegister.metrics() resolves: 200 with both texts
scrapeSelfResolved(c) ==
    /\ req[c] = "scrapeSelf"
    /\ req' = [req EXCEPT ![c] = "done"]
    /\ WriteHead(c)
    /\ UNCHANGED <<server, stopPhase, conn, requests>>

\* httpServerRegister.metrics() rejects: this await is not wrapped, so
\* onRequest's promise rejects and no response is written; the client
\* waits on the connection until it closes it
scrapeSelfRejected(c) ==
    /\ req[c] = "scrapeSelf"
    /\ req' = [req EXCEPT ![c] = "rejected"]
    /\ UNCHANGED <<server, stopPhase, conn, heads, requests>>

\* mutant: stop() closes the server without destroying the sockets
MutStopNoDestroy ==
    /\ stopPhase = "none"
    /\ server \in {"created", "listening", "startFailed"}
    /\ IF server = "listening"
       THEN stopPhase' = "closing"
       ELSE stopPhase' = "rejected"
    /\ UNCHANGED <<server, conn, req, heads, requests>>

\* stop(): activeSockets.destroyAll(), then server.close(); close on a
\* server that is not listening calls back with an error
stop ==
    /\ stopPhase = "none"
    /\ server \in {"created", "listening", "startFailed"}
    /\ conn' = [c \in Conns |-> IF conn[c] = "open" THEN "destroyed" ELSE conn[c]]
    /\ IF server = "listening"
       THEN stopPhase' = "closing"
       ELSE stopPhase' = "rejected"
    /\ UNCHANGED <<server, req, heads, requests>>

\* the close callback runs once no connection is left
closeDone ==
    /\ stopPhase = "closing"
    /\ \A c \in Conns : conn[c] # "open"
    /\ server' = "closed"
    /\ stopPhase' = "resolved"
    /\ UNCHANGED <<conn, req, heads, requests>>

\* Clients: connect while the server listens and is not closing; close
connect(c) ==
    /\ server = "listening" /\ stopPhase = "none"
    /\ conn[c] = "none"
    /\ conn' = [conn EXCEPT ![c] = "open"]
    /\ UNCHANGED <<server, stopPhase, req, heads, requests>>

clientClose(c) ==
    /\ conn[c] = "open"
    /\ conn' = [conn EXCEPT ![c] = "ended"]
    /\ UNCHANGED <<server, stopPhase, req, heads, requests>>

Init ==
    /\ server = "created"
    /\ stopPhase = "none"
    /\ conn = [c \in Conns |-> "none"]
    /\ req = [c \in Conns |-> "idle"]
    /\ heads = [c \in Conns |-> 0]
    /\ requests = 0

Next ==
    \/ start \/ listening \/ listenError \/ stop \/ closeDone
    \/ \E c \in Conns :
          \/ connect(c) \/ clientClose(c)
          \/ scrapeSelfResolved(c) \/ scrapeSelfRejected(c)
          \/ \E isMetrics \in BOOLEAN : onRequest(c, isMetrics)
          \/ \E ok \in BOOLEAN : scrapeResolved(c, ok)

\* listen and the registries' promises settle, and Node calls close's
\* callback once it may; clients, start and stop are not forced.
Fairness ==
    /\ WF_vars(listening \/ listenError)
    /\ WF_vars(closeDone)
    /\ \A c \in Conns :
          /\ WF_vars(\E ok \in BOOLEAN : scrapeResolved(c, ok))
          /\ WF_vars(scrapeSelfResolved(c) \/ scrapeSelfRejected(c))

Spec == Init /\ [][Next]_vars /\ Fairness

-----------------------------------------------------------------------------
(***************************************************************************)
(* "Ensure we only writeHead once": every request gets at most one        *)
(* response head, and a request whose handler returned on a live          *)
(* connection got one (a handler that rejected got none, see scrapeSelf-  *)
(* Rejected).                                                              *)
(***************************************************************************)
WriteHeadOnce ==
    \A c \in Conns :
        /\ heads[c] <= 1
        /\ req[c] = "done" /\ conn[c] = "open" => heads[c] = 1

(***************************************************************************)
(* stop() resolves once it has started closing, whatever keep-alive        *)
(* connections clients hold open and whatever scrapes are in flight: the  *)
(* sockets are destroyed first, so close() is not left waiting on them.   *)
(***************************************************************************)
StopResolves == stopPhase = "closing" ~> stopPhase = "resolved"
=============================================================================
