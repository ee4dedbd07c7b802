------------------------ MODULE EmbeddingApplication ------------------------
(***************************************************************************)
(* DeviceSimulatorServer in an application that calls it back: a slot      *)
(* connected to requestReceived stops the server, in the middle of the     *)
(* loop of readClientData.  stop() and requestReceived are both public,    *)
(* and signals of one thread call their slots directly.                    *)
(***************************************************************************)
EXTENDS ServerProperties

\* stop() while a client is attached.
StoppedBySlot(s) ==
    ReleaseClient([s EXCEPT !.stopping = TRUE, !.listening = FALSE, !.pending = FALSE])

\* The slot stops the server when it is told of the k-th of the requests that
\* were read.  The loop then enqueues this request and the others all the same;
\* processNextRequest finds no client.
ReadAndStop ==
    /\ srv.client /\ ~srv.closing
    /\ \E n \in 1..MaxBatch : \E messages \in [1..n -> Messages], k \in 1..n :
         /\ Len(srv.received) + n <= MaxRequests
         /\ srv' = [StoppedBySlot(srv) EXCEPT
                      !.requestQueue = SubSeq(Arrivals(srv, messages), k, n)]

EmbeddedNext == Next \/ ReadAndStop

EmbeddedSpec == Init /\ [][EmbeddedNext]_vars

\* docs/architecture.md:31: when a client is gone its requests are cleared, so
\* that none of them is left to be answered to the next client
\* (DeviceSimulatorServer.cpp:146-163, 200-237, 417-438).
RequestsEndWithSession ==
    srv.client =>
        \A i \in DOMAIN srv.requestQueue : srv.requestQueue[i].session = srv.sessionOrdinal
=============================================================================
