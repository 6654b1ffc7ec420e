-------------------------- MODULE MCAcceptPipeline --------------------------
(* An instance of AcceptPipeline: two listeners, as `avangard-server run`   *)
(* starts them (QUIC and TCP), the goroutine of its signal handler, and     *)
(* one-place channels, so that every send meets a full channel.             *)
EXTENDS AcceptPipeline, TLC
CONSTANTS s1, s2, s3,  \* two streams of listener 1 and one of listener 2
          c1           \* the closing goroutine

ThreeStreams == {s1, s2, s3}
HomeOfThree == s1 :> 1 @@ s2 :> 1 @@ s3 :> 2
OneCloser == {c1}
=============================================================================
