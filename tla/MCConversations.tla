-------------------------- MODULE MCConversations --------------------------
(* Instances of the components that talk to a model or show what it says:   *)
(* Clarify, Chat, Streams, Views and Chunking.  They share no state; a      *)
(* behaviour is one of the component that focus names, while the others     *)
(* rest.                                                                    *)
EXTENDS Clarify, Chat, Streams, Views, Chunking

VARIABLE focus

conversationVars ==
  <<focus, clarifyVars, chatVars, streamVars, viewVars, chunkVars>>

ConversationInit ==
  /\ focus \in {"clarify", "chat", "stream", "views", "chunking"}
  /\ ClarifyInit /\ ChatInit /\ StreamInit /\ ViewsInit /\ ChunkingInit
  /\ focus # "stream" => log
  /\ focus # "chunking" => length = 1 /\ ink = {} /\ size = 1 /\ overlap = 1

InClarify(A) ==
  focus = "clarify" /\ A /\ UNCHANGED <<focus, chatVars, streamVars, viewVars, chunkVars>>
InChat(A) ==
  focus = "chat" /\ A /\ UNCHANGED <<focus, clarifyVars, streamVars, viewVars, chunkVars>>
InStream(A) ==
  focus = "stream" /\ A /\ UNCHANGED <<focus, clarifyVars, chatVars, viewVars, chunkVars>>
InViews(A) ==
  focus = "views" /\ A /\ UNCHANGED <<focus, clarifyVars, chatVars, streamVars, chunkVars>>
InChunking(A) ==
  focus = "chunking" /\ A /\ UNCHANGED <<focus, clarifyVars, chatVars, streamVars, viewVars>>

ClarifySteps ==
  \/ InClarify(Claim) \/ InClarify(SendTurn) \/ InClarify(ReceiveReply)
  \/ InClarify(TurnFails) \/ InClarify(TurnStopped) \/ InClarify(TurnGoesOn)
  \/ InClarify(SaveTurn) \/ InClarify(AnswerQuestions) \/ InClarify(PutClarifyStatus)
  \/ InClarify(ReplaySource) \/ InClarify(EditSource) \/ InClarify(PatchSource)
  \/ InClarify(DeleteSessions) \/ InClarify(KeepSessions) \/ InClarify(CascadeToClarify)
  \/ InClarify(ReplayClarify) \/ InClarify(SourceRuns)

ChatSteps ==
  \/ \E p \in Posts :
       \/ InChat(SendMessage(p)) \/ InChat(EnterSession(p)) \/ InChat(ProposeEdit(p))
       \/ InChat(AnswerMessage(p)) \/ InChat(RunFails(p)) \/ InChat(TitleFromMessage(p))
       \/ InChat(ApproveCard(p)) \/ InChat(RejectCard(p)) \/ InChat(AppendDecision(p))
       \/ InChat(EnterTool(p)) \/ InChat(SaveBody(p)) \/ InChat(CascadeFromBody(p))
  \/ InChat(RenameChat) \/ InChat(DeleteChat)
  \/ \E b \in Bodies : InChat(MakeBody(b)) \/ InChat(ReplayBody(b))

StreamSteps ==
  \/ InStream(StartRun) \/ InStream(PublishToken) \/ InStream(CheckStopped)
  \/ InStream(StoreResult) \/ InStream(PublishDone) \/ InStream(FailGeneration)
  \/ InStream(StoreFailure) \/ InStream(StopJob) \/ InStream(ReplayJob)
  \/ InStream(DeleteJob)
  \/ \E r \in Readers :
       \/ InStream(OpenStream(r)) \/ InStream(Subscribe(r)) \/ InStream(ReadEvent(r))
       \/ InStream(PollStatus(r)) \/ InStream(LeaveStream(r))

ViewSteps ==
  \/ \E s \in StageNumbers : \/ InViews(BeginStage(s)) \/ InViews(ApproveStage(s))
                            \/ InViews(ReplayStage(s))
  \/ InViews(StoreRun) \/ InViews(DropRun) \/ InViews(RecordRun) \/ InViews(LoseRun)

ChunkingSteps ==
  \/ InChunking(DropSection) \/ InChunking(CutSection) \/ InChunking(BeginChunk)
  \/ InChunking(PackSection) \/ InChunking(FlushLast) \/ InChunking(CutWindow)

ConversationNext ==
  ClarifySteps \/ ChatSteps \/ StreamSteps \/ ViewSteps \/ ChunkingSteps

ConversationSpec ==
  /\ ConversationInit /\ [][ConversationNext]_conversationVars
  /\ \A r \in Readers : WF_conversationVars(InStream(ReadEvent(r) \/ PollStatus(r)))
=============================================================================
