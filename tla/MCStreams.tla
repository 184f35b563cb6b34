----------------------------- MODULE MCStreams ------------------------------
(***************************************************************************)
(* Streams of a few deliveries.                                            *)
(***************************************************************************)
EXTENDS MessageStreamer, TLC

CONSTANTS d1, d2

\* A push connection has three queues to answer through and needs fewer.  The
\* client that answers apart from the stream asks for more than it can nack.
EveryKind == ("grpc" :> D) @@ ("push" :> {d1}) @@ ("standalone" :> {d1})
RoomToSpare == ("grpc" :> 1) @@ ("standalone" :> 2)

\* The same client with a window that one nack fills.
AnsweringApart == "standalone" :> D
NoRoom == "standalone" :> 1
=============================================================================
