--------------------------- MODULE MCJobPipeline ---------------------------
(* Instances of JobPipeline: the stages of config/pipeline.yaml reduced to  *)
(* those that differ in kind.                                               *)
EXTENDS JobPipeline, Sequences, TLC

(* the kinds of the stages, in order                                        *)
OcrClarifyEmbed == <<"vision", "llm", "embed">>

(* each stage reads the one before it                                       *)
Chain == [d \in Docs |-> [s \in Stages |-> s - 1]]
NoSkip == [d \in Docs |-> {}]
NoText == [d \in Docs |-> 0]
One == [s \in Stages |-> 1]

(* a recording uploaded with its transcript, which vision skips, and an     *)
(* image, which transcribe skips                                            *)
Audio == CHOOSE d \in Docs : TRUE
TranscribeOcr == <<"transcribe", "vision">>
FromUpload == [d \in Docs |-> [s \in Stages |-> 0]]
MediaSkip == [d \in Docs |-> IF d = Audio THEN {2} ELSE {1}]
MediaText == [d \in Docs |-> IF d = Audio THEN 1 ELSE 0]

(* the requests of two users are interchangeable                           *)
TwoUsers == Permutations(Clients)
=============================================================================
