--------------------------- MODULE MCTranscription ---------------------------
(* A small instance of call transcription for TLC: one slot whose process   *)
(* serves the asynchronous provider, one that serves the synchronous one    *)
(* without the call-audio bucket, or only collects.                         *)
EXTENDS Transcription

CONSTANTS w1, w2, aws, deepgram

Collecting(p) == [provider |-> p, collects |-> TRUE]

Deployed == [w \in {w1, w2} |->
  IF w = w1 THEN {Collecting(aws)}
  ELSE {Collecting(None), [provider |-> deepgram, collects |-> FALSE]}]
=============================================================================
