------------------------- MODULE ConversationsProofs -------------------------
(***************************************************************************)
(* Proofs about the components that talk to a model or show what it says:  *)
(*   Clarify: the model is not shown an earlier text after a replay or an  *)
(*     edit of the stage before;                                           *)
(*   Chat: the agent changes only the text a user approved, a deleted chat *)
(*     stays deleted;                                                      *)
(*   Streams: nobody is told the end of a run that still goes on;          *)
(*   Views: the page, the agent's reading and its edits agree on which     *)
(*     text is the document.                                               *)
(* The components share no state, and each part stands alone.              *)
(***************************************************************************)
EXTENDS Clarify, Chat, Streams, Views, FiniteSetTheorems, SequenceTheorems, TLAPS

-----------------------------------------------------------------------------
(***************************************************************************)
(* Clarify                                                                 *)
(***************************************************************************)

Answered == {"none", "open", "answered"}

LlmStates ==
  [at : {"idle", "send", "reply", "check", "save"}, read : 1..MaxTexts, asked : Seq(Answered),
   message : Turns \cup {NoMessage}]

(* The runs are sequences, no longer than the number of attempts.           *)
ClarifyShapes ==
  /\ version \in 1..MaxTexts
  /\ source \in {"done", "pending"}
  /\ clarify \in {"pending", "running", "waiting", "error", "done"}
  /\ replay \in {"idle", "delete", "own", "cascade"}
  /\ turns \in 0..MaxTurns /\ replays \in 0..MaxReplays
  /\ asked \in Seq(Answered) /\ Len(asked) <= turns
  /\ session \in Seq(Turns)
  /\ llm \in LlmStates
  /\ llm.read <= version
  /\ Len(llm.asked) <= turns
  /\ llm.at # "idle" => llm.message \in Turns /\ Len(llm.asked) < turns

(* The initial state has the types.                                         *)
LEMMA ClarifyShapesInit == ClarifyInit => ClarifyShapes
BY ClarifyAssumption
DEF ClarifyInit, ClarifyShapes, LlmStates, IdleLLM, NoMessage, Turns, Answered

(* A run that is answered is one of the attempts.                           *)
LEMMA FollowupIsTurn ==
  ASSUME ClarifyShapes  PROVE Followup(asked) \in Turns
BY ClarifyAssumption DEF ClarifyShapes, Followup, Turns, Answered

(* The idle goroutine has the type of one.                                  *)
LEMMA IdleShape ==
  /\ IdleLLM \in LlmStates /\ IdleLLM.at = "idle" /\ IdleLLM.read = 1
  /\ IdleLLM.asked = <<>>
BY ClarifyAssumption DEF IdleLLM, LlmStates

(* LlmAt moves the goroutine and nothing else.                              *)
LEMMA Moves ==
  ASSUME ClarifyShapes, NEW from, NEW to \in {"send", "reply", "check", "save"}, from # "idle",
         LlmAt(from, to)
  PROVE  /\ llm.at = from /\ llm' \in LlmStates /\ llm'.at = to
         /\ llm'.read = llm.read /\ llm'.asked = llm.asked /\ llm'.message = llm.message
         /\ llm.message \in Turns /\ Len(llm.asked) < turns
BY DEF ClarifyShapes, LlmStates, LlmAt

(* The steps of the stage keep the types.                                   *)
LEMMA WorkerShapes ==
  ASSUME ClarifyShapes,
         Claim \/ SendTurn \/ ReceiveReply \/ TurnFails \/ TurnStopped \/ TurnGoesOn \/ SaveTurn
  PROVE  ClarifyShapes'
<1>1. CASE Claim
  <2>1. Followup(asked) \in Turns
    BY FollowupIsTurn
  <2>2. llm' \in LlmStates /\ llm'.read = version /\ llm'.asked = asked
        /\ llm'.message \in Turns
    BY <1>1, <2>1 DEF Claim, ClarifyShapes, LlmStates
  <2>3. turns' = turns + 1 /\ turns' \in 0..MaxTurns
    BY <1>1, ClarifyAssumption DEF Claim, ClarifyShapes
  <2> QED  BY <1>1, <2>2, <2>3 DEF Claim, ClarifyShapes
<1>2. CASE SendTurn
  <2>1. /\ llm' \in LlmStates /\ llm'.read = llm.read /\ llm'.asked = llm.asked
        /\ llm'.message = llm.message
        /\ llm.message \in Turns /\ Len(llm.asked) < turns
    BY <1>2, Moves DEF SendTurn
  <2>2. session' \in Seq(Turns)
    BY <1>2, <2>1 DEF SendTurn, ClarifyShapes
  <2> QED  BY <1>2, <2>1, <2>2 DEF SendTurn, ClarifyShapes
<1>3. CASE ReceiveReply
  <2>1. /\ llm' \in LlmStates /\ llm'.read = llm.read /\ llm'.asked = llm.asked
        /\ llm'.message = llm.message
        /\ llm.message \in Turns /\ Len(llm.asked) < turns
    BY <1>3, Moves DEF ReceiveReply
  <2>2. [kind |-> "reply", of |-> Len(llm.asked) + 1] \in Turns
    <3>1. Len(llm.asked) \in Nat /\ turns \in 0..MaxTurns
      BY DEF ClarifyShapes, LlmStates
    <3>2. Len(llm.asked) + 1 \in 1..MaxTurns
      BY <2>1, <3>1, ClarifyAssumption
    <3> QED  BY <3>2 DEF Turns
  <2>3. session' \in Seq(Turns)
    BY <1>3, <2>2 DEF ReceiveReply, ClarifyShapes
  <2> QED  BY <1>3, <2>1, <2>3 DEF ReceiveReply, ClarifyShapes
<1>4. CASE TurnFails \/ TurnStopped
  <2>1. llm' = IdleLLM
    BY <1>4 DEF TurnFails, TurnStopped
  <2> QED  BY <1>4, <2>1, IdleShape DEF TurnFails, TurnStopped, ClarifyShapes
<1>5. CASE TurnGoesOn
  <2>1. /\ llm' \in LlmStates /\ llm'.read = llm.read /\ llm'.asked = llm.asked
        /\ llm'.message = llm.message
        /\ llm.message \in Turns /\ Len(llm.asked) < turns
    BY <1>5, Moves DEF TurnGoesOn
  <2> QED  BY <1>5, <2>1 DEF TurnGoesOn, ClarifyShapes
<1>6. CASE SaveTurn
  <2>1. PICK q \in {"none", "open"} : asked' = Append(llm.asked, q)
    BY <1>6 DEF SaveTurn
  <2>2. llm.asked \in Seq(Answered) /\ Len(llm.asked) < turns
    BY <1>6 DEF SaveTurn, ClarifyShapes, LlmStates
  <2>3. asked' \in Seq(Answered) /\ Len(asked') = Len(llm.asked) + 1
    BY <2>1, <2>2 DEF Answered
  <2>4. Len(asked') <= turns
    BY <2>2, <2>3 DEF ClarifyShapes
  <2>5. llm' = IdleLLM /\ clarify' \in {"waiting", "done"}
    BY <1>6 DEF SaveTurn
  <2> QED  BY <1>6, <2>3, <2>4, <2>5, IdleShape DEF SaveTurn, ClarifyShapes
<1> QED  BY <1>1, <1>2, <1>3, <1>4, <1>5, <1>6

(* Every step keeps the types.                                              *)
LEMMA ClarifyShapesStep == ClarifyShapes /\ [ClarifyNext]_clarifyVars => ClarifyShapes'
<1> SUFFICES ASSUME ClarifyShapes, [ClarifyNext]_clarifyVars  PROVE ClarifyShapes'
  OBVIOUS
<1>1. CASE Claim \/ SendTurn \/ ReceiveReply \/ TurnFails \/ TurnStopped \/ TurnGoesOn \/ SaveTurn
  BY <1>1, WorkerShapes
<1>2. CASE AnswerQuestions
  <2>1. asked' \in Seq(Answered) /\ Len(asked') = Len(asked)
    BY <1>2 DEF AnswerQuestions, ClarifyShapes, Answered
  <2> QED  BY <1>2, <2>1 DEF AnswerQuestions, ClarifyShapes
<1>3. CASE PutClarifyStatus \/ CascadeToClarify
  BY <1>3 DEF PutClarifyStatus, CascadeToClarify, ClarifyShapes
<1>4. CASE ReplaySource \/ ReplayClarify \/ EditSource \/ PatchSource
  BY <1>4, ClarifyAssumption
  DEF ReplaySource, ReplayClarify, EditSource, PatchSource, BeginReplay, NewText, ClarifyShapes,
      LlmStates
<1>5. CASE DeleteSessions \/ KeepSessions
  <2>1. replay' \in {"cascade", "idle"}
    BY <1>5 DEF DeleteSessions, KeepSessions, DeleteStep
  <2>2. session' = session \/ session' = <<>>
    BY <1>5 DEF DeleteSessions, KeepSessions
  <2>3. session' \in Seq(Turns)
    <3>1. session \in Seq(Turns) /\ <<>> \in Seq(Turns)
      BY DEF ClarifyShapes
    <3> QED  BY <2>2, <3>1
  <2>4. UNCHANGED <<version, source, clarify, asked, llm, turns, replays>>
    BY <1>5 DEF DeleteSessions, KeepSessions
  <2> QED  BY <2>1, <2>3, <2>4 DEF ClarifyShapes
<1>6. CASE SourceRuns
  BY <1>6, ClarifyAssumption DEF SourceRuns, NewText, ClarifyShapes, LlmStates
<1>7. CASE UNCHANGED clarifyVars
  BY <1>7 DEF clarifyVars, ClarifyShapes
<1> QED  BY <1>1, <1>2, <1>3, <1>4, <1>5, <1>6, <1>7 DEF ClarifyNext

(* A sequence no longer than the bound is one of the sequences of Asked.    *)
LEMMA ShortIsAsked ==
  ASSUME NEW runs \in Seq(Answered), Len(runs) <= MaxTurns
  PROVE  runs \in Asked
<1>1. runs \in [1..Len(runs) -> Answered] /\ Len(runs) \in 0..MaxTurns
  BY ClarifyAssumption
<1> QED  BY <1>1 DEF Asked, Answered

(* Type correctness of every state.                                         *)
THEOREM ClarifyTypesCorrect == ClarifySpec => []ClarifyTypeOK
<1>1. ClarifyShapes => ClarifyTypeOK
  <2> SUFFICES ASSUME ClarifyShapes  PROVE ClarifyTypeOK
    OBVIOUS
  <2>1. asked \in Asked /\ llm.asked \in Asked
    BY ShortIsAsked, ClarifyAssumption DEF ClarifyShapes, LlmStates
  <2>2. \A i \in DOMAIN session : session[i] \in Turns
    BY DEF ClarifyShapes
  <2> QED  BY <2>1, <2>2 DEF ClarifyShapes, LlmStates, ClarifyTypeOK
<1> QED  BY <1>1, ClarifyShapesInit, ClarifyShapesStep, PTL DEF ClarifySpec

-----------------------------------------------------------------------------
(* Which text the model is shown                                            *)

(* the texts of a conversation are that one                                 *)
About(v) == \A i \in DOMAIN session : session[i].kind = "input" => session[i].of = v

(* Unless suspect: while a turn is under way, the conversation is about the *)
(* text it read; between requests and turns, about the present one; and it  *)
(* is empty from the delete to the end of a request, and until the stage    *)
(* before has run.                                                          *)
ContextInv ==
  /\ ClarifyShapes
  /\ ~suspect =>
       /\ llm.at # "idle" =>
            /\ About(llm.read)
            /\ llm.message.kind = "input" => llm.message.of = llm.read
       /\ llm.at # "idle" /\ replay \in {"idle", "own"} => llm.read = version
       /\ llm.at = "idle" /\ replay \in {"idle", "own"} => About(version)
       /\ replay = "cascade" => llm.at = "idle" /\ session = <<>>
       /\ source = "pending" /\ replay # "delete" => llm.at = "idle" /\ session = <<>>

(* The strengthening holds at first.                                        *)
LEMMA ContextInit == ClarifyInit => ContextInv
BY ClarifyShapesInit DEF ClarifyInit, ContextInv, About, IdleLLM

(* Every step keeps the strengthening.                                      *)
LEMMA ContextStep == ContextInv /\ [ClarifyNext]_clarifyVars => ContextInv'
<1> SUFFICES ASSUME ContextInv, [ClarifyNext]_clarifyVars  PROVE ContextInv'
  OBVIOUS
<1>0. ClarifyShapes'
  BY ClarifyShapesStep DEF ContextInv
<1>a. ClarifyShapes
  BY DEF ContextInv
<1> USE <1>0 DEF ContextInv
<1>1. CASE Claim
  <2>1. /\ Followup(asked).kind = "input" => Followup(asked).of = version
    BY DEF Followup
  <2> QED  BY <1>1, <2>1 DEF Claim, About
<1>2. CASE SendTurn
  <2>1. session \in Seq(Turns) /\ session' = Append(session, llm.message)
    BY <1>2, <1>a DEF SendTurn, ClarifyShapes
  <2>2. \A v : About(v) /\ (llm.message.kind = "input" => llm.message.of = v) => About(v)'
    BY <2>1 DEF About
  <2>3. llm.at = "send" /\ llm'.at = "reply" /\ llm'.read = llm.read
        /\ llm'.message = llm.message
    BY <1>2, <1>a DEF SendTurn, LlmAt, ClarifyShapes, LlmStates
  <2> QED  BY <1>2, <2>2, <2>3 DEF SendTurn
<1>3. CASE ReceiveReply
  <2>1. session \in Seq(Turns)
        /\ session' = Append(session, [kind |-> "reply", of |-> Len(llm.asked) + 1])
    BY <1>3, <1>a DEF ReceiveReply, ClarifyShapes
  <2>2. \A v : About(v) => About(v)'
    BY <2>1 DEF About
  <2>3. llm.at = "reply" /\ llm'.at = "check" /\ llm'.read = llm.read
        /\ llm'.message = llm.message
    BY <1>3, <1>a DEF ReceiveReply, LlmAt, ClarifyShapes, LlmStates
  <2> QED  BY <1>3, <2>2, <2>3 DEF ReceiveReply
<1>4. CASE TurnGoesOn
  <2>1. llm.at = "check" /\ llm'.at = "save" /\ llm'.read = llm.read
        /\ llm'.message = llm.message
    BY <1>4, <1>a DEF TurnGoesOn, LlmAt, ClarifyShapes, LlmStates
  <2> QED  BY <1>4, <2>1 DEF TurnGoesOn, About
<1>5. CASE TurnFails \/ TurnStopped \/ SaveTurn
  BY <1>5 DEF TurnFails, TurnStopped, SaveTurn, IdleLLM, About
<1>6. CASE AnswerQuestions \/ PutClarifyStatus
  BY <1>6 DEF AnswerQuestions, PutClarifyStatus, About
<1>7. CASE ReplaySource \/ EditSource \/ PatchSource \/ ReplayClarify
  BY <1>7 DEF ReplaySource, EditSource, PatchSource, ReplayClarify, BeginReplay, About
<1>8. CASE DeleteSessions \/ KeepSessions
  <2>1. CASE DeleteSessions
    <3>1. session' = <<>> /\ llm' = llm /\ (~suspect' => llm.at = "idle")
      BY <2>1 DEF DeleteSessions
    <3> QED  BY <3>1 DEF About
  <2>2. CASE KeepSessions
    BY <2>2 DEF KeepSessions
  <2> QED  BY <1>8, <2>1, <2>2
<1>9. CASE CascadeToClarify
  BY <1>9 DEF CascadeToClarify, About
<1>10. CASE SourceRuns
  <2>1. llm.at = "idle" /\ llm' = llm /\ source' = "done" /\ UNCHANGED <<session, replay>>
    BY <1>10 DEF SourceRuns
  <2>2. ~suspect' => session = <<>>
    BY <1>10 DEF SourceRuns
  <2> QED  BY <2>1, <2>2 DEF About
<1>11. CASE UNCHANGED clarifyVars
  BY <1>11 DEF clarifyVars, About
<1> QED
  BY <1>1, <1>2, <1>3, <1>4, <1>5, <1>6, <1>7, <1>8, <1>9, <1>10, <1>11 DEF ClarifyNext

(* After any number of replays, edits and answers, in any order with the    *)
(* turns: the model is not shown an earlier text, but for the exceptions    *)
(* that suspect records.                                                    *)
THEOREM ContextStaysCurrent == ClarifySpec => []ContextIsCurrent
<1>1. ContextInv => ContextIsCurrent
  BY DEF ContextInv, ContextIsCurrent, About, InSession, Input
<1> QED  BY <1>1, ContextInit, ContextStep, PTL DEF ClarifySpec

-----------------------------------------------------------------------------
(***************************************************************************)
(* Chat                                                                    *)
(***************************************************************************)

PostStep(p) ==
  \/ SendMessage(p) \/ EnterSession(p) \/ ProposeEdit(p) \/ AnswerMessage(p)
  \/ RunFails(p) \/ TitleFromMessage(p)
  \/ ApproveCard(p) \/ RejectCard(p) \/ AppendDecision(p)
  \/ EnterTool(p) \/ SaveBody(p) \/ CascadeFromBody(p)

PostStates ==
  [at : PostSteps, untitled : BOOLEAN, card : Nat, stage : Bodies \cup {0}]
Cards == [stage : Bodies, text : BodyTexts]

Under(p) == post[p].at \notin {"new", "over"}

(* the requests that can propose no edit any more: there is a card for each *)
(* of them at most                                                          *)
Spent == {p \in Posts : post[p].at \notin {"new", "enter", "turn"}}
Room == Len(cards) <= Cardinality(Spent)

(* A decision is about a card, and keeps the stage that the card shows; it  *)
(* is recorded before the agent is resumed.  Who is under way in a deleted  *)
(* chat was so when it was deleted.                                         *)
PostInv(p) ==
  /\ post[p].at \in {"decide", "resume", "tool", "save", "cascade"} =>
       /\ post[p].card \in DOMAIN cards
       /\ post[p].stage = cards[post[p].card].stage
  /\ post[p].at \in {"resume", "tool", "save", "cascade"} => post[p].card \in decided
  /\ chat = "gone" /\ Under(p) => raced
  /\ post[p].untitled => Under(p)

ChatShapes ==
  /\ chat \in {"alive", "bare", "gone"}
  /\ title \in {"none", "message", "user"}
  /\ cards \in Seq(Cards)
  /\ inSession \subseteq DOMAIN cards /\ decided \subseteq DOMAIN cards
  /\ chat = "gone" => inSession = {}
  /\ job \in [Bodies -> {"none", "pending", "empty", "done"}]
  /\ body \in [Bodies -> BodyTexts]
  /\ post \in [Posts -> PostStates]
  /\ work \in 0..MaxWork
  /\ raced \in BOOLEAN

ChatInv ==
  /\ ChatShapes /\ Room
  /\ \A p \in Posts : PostInv(p)
  /\ OnlyApproved
  /\ DeletedStays

(* The strengthening holds at first.                                        *)
LEMMA ChatInvInit == ChatInit => ChatInv
<1> SUFFICES ASSUME ChatInit  PROVE ChatInv
  OBVIOUS
<1>1. Cardinality(Posts) \in Nat /\ Cardinality({}) = 0
  BY ChatAssumption, FS_CardinalityType, FS_EmptySet
<1>2. Spent = {}
  BY DEF ChatInit, Fresh, Spent
<1>3. Fresh("new") \in PostStates /\ MadeBy(0) \in BodyTexts
  BY <1>1, ChatAssumption DEF Fresh, PostStates, PostSteps, MadeBy, BodyTexts
<1>4. ChatShapes
  <2>1. 1 \in Bodies /\ 0 \in 0..MaxWork
    BY ChatAssumption DEF Bodies
  <2>2. post \in [Posts -> PostStates]
    BY <1>3 DEF ChatInit
  <2>3. body \in [Bodies -> BodyTexts]
    BY <1>3 DEF ChatInit
  <2>4. job \in [Bodies -> {"none", "pending", "empty", "done"}]
    BY DEF ChatInit
  <2>5. cards \in Seq(Cards) /\ inSession \subseteq DOMAIN cards /\ decided \subseteq DOMAIN cards
    BY DEF ChatInit
  <2>6. work \in 0..MaxWork /\ raced \in BOOLEAN /\ chat = "alive" /\ title = "none"
    BY <2>1 DEF ChatInit
  <2> QED  BY <2>2, <2>3, <2>4, <2>5, <2>6 DEF ChatShapes
<1>5. Room
  BY <1>1, <1>2 DEF ChatInit, Room
<1> QED
  BY <1>4, <1>5 DEF ChatInit, ChatInv, PostInv, Under, OnlyApproved, DeletedStays, Fresh, MadeBy

-----------------------------------------------------------------------------
(* The cards                                                                *)

(* There is a number for every card.                                        *)
LEMMA CardsBounded ==
  ASSUME ChatShapes, Room
  PROVE  /\ IsFiniteSet(Spent) /\ Cardinality(Spent) \in Nat
         /\ Cardinality(Posts) \in Nat /\ Cardinality(Spent) <= Cardinality(Posts)
         /\ DOMAIN cards \subseteq 1..Cardinality(Posts)
<1>1. Spent \subseteq Posts
  BY DEF Spent
<1>2. /\ IsFiniteSet(Spent) /\ Cardinality(Spent) \in Nat
      /\ Cardinality(Posts) \in Nat /\ Cardinality(Spent) <= Cardinality(Posts)
  BY <1>1, ChatAssumption, FS_Subset, FS_CardinalityType
<1>3. DOMAIN cards = 1..Len(cards) /\ Len(cards) \in Nat
  BY DEF ChatShapes
<1>4. Len(cards) <= Cardinality(Spent)
  BY DEF Room
<1> QED  BY <1>2, <1>3, <1>4

(* A request that was able to propose an edit, and is not any more, makes   *)
(* room for a card.                                                         *)
LEMMA SpentGrows ==
  ASSUME ChatShapes, Room, post' \in [Posts -> PostStates],
         \A q \in Posts : q \in Spent => q \in Spent'
  PROVE  /\ Cardinality(Spent) <= Cardinality(Spent') /\ Cardinality(Spent') \in Nat
         /\ \A p \in Posts : p \notin Spent /\ p \in Spent' =>
              Cardinality(Spent) + 1 <= Cardinality(Spent')
<1>1. IsFiniteSet(Spent) /\ Cardinality(Spent) \in Nat
  BY CardsBounded
<1>2. Spent' \subseteq Posts /\ Spent \subseteq Spent'
  BY DEF Spent
<1>3. IsFiniteSet(Spent') /\ Cardinality(Spent') \in Nat
  BY <1>2, ChatAssumption, FS_Subset, FS_CardinalityType
<1>4. Cardinality(Spent) <= Cardinality(Spent')
  BY <1>2, <1>3, FS_Subset
<1>5. ASSUME NEW p \in Posts, p \notin Spent, p \in Spent'
      PROVE  Cardinality(Spent) + 1 <= Cardinality(Spent')
  <2>1. Cardinality(Spent \cup {p}) = Cardinality(Spent) + 1
    BY <1>1, <1>5, FS_AddElement
  <2>2. Spent \cup {p} \subseteq Spent'
    BY <1>2, <1>5
  <2> QED  BY <1>3, <2>1, <2>2, FS_Subset
<1> QED  BY <1>3, <1>4, <1>5

-----------------------------------------------------------------------------
(* Requests                                                                 *)

(* what a request's step leaves of what is said of the others               *)
Grows ==
  /\ \A i \in DOMAIN cards : i \in DOMAIN cards' /\ cards'[i] = cards[i]
  /\ decided \subseteq decided'
  /\ raced' = raced
  /\ chat' = "gone" => chat = "gone"
  /\ title' = "user" => title = "user"

(* A step of a request takes away nothing that is said of the others.      *)
LEMMA PostGrows ==
  ASSUME ChatInv, NEW p \in Posts, PostStep(p)
  PROVE  Grows /\ \A q \in Posts \ {p} : post'[q] = post[q]
<1>1. CASE ProposeEdit(p)
  <2>1. PICK b \in Bodies : cards' = Append(cards, [stage |-> b, text |-> body[b]])
    BY <1>1 DEF ProposeEdit
  <2>2. \A i \in DOMAIN cards : i \in DOMAIN cards' /\ cards'[i] = cards[i]
    BY <2>1 DEF ChatInv, ChatShapes
  <2> QED
    BY <1>1, <2>2 DEF ProposeEdit, PostAt, PostOver, Grows, ChatInv, ChatShapes
<1>2. CASE ~ProposeEdit(p)
  BY <1>2 DEF PostStep, SendMessage, EnterSession, AnswerMessage, RunFails, TitleFromMessage,
              ApproveCard, RejectCard, AppendDecision, EnterTool, SaveBody, CascadeFromBody,
              PostAt, PostOver, Grows, ChatInv, ChatShapes, document
<1> QED  BY <1>1, <1>2

(* Moving a request to another step                                         *)
LEMMA AtMoves ==
  ASSUME ChatShapes, NEW p \in Posts, NEW to \in PostSteps
  PROVE  /\ [post EXCEPT ![p].at = to] \in [Posts -> PostStates]
         /\ [post EXCEPT ![p] = Fresh("over")] \in [Posts -> PostStates]
<1>1. post \in [Posts -> PostStates]
  BY DEF ChatShapes
<1>2. [post[p] EXCEPT !.at = to] \in PostStates
  BY <1>1 DEF PostStates
<1>3. Fresh("over") \in PostStates
  BY DEF Fresh, PostStates, PostSteps
<1> QED  BY <1>1, <1>2, <1>3

(* The tool edits the stage that the card shows, or nothing.                *)
LEMMA ToolTarget ==
  ASSUME ChatInv, NEW p \in Posts, EnterTool(p)
  PROVE  \/ post' = [post EXCEPT ![p] = Fresh("over")]
         \/ post' = [post EXCEPT ![p].at = "save"]
<1>1. post[p].at = "tool" /\ post[p].stage = cards[post[p].card].stage
      /\ post[p].card \in DOMAIN cards /\ cards \in Seq(Cards)
      /\ post \in [Posts -> PostStates]
  BY DEF EnterTool, ChatInv, PostInv, ChatShapes
<1>2. post[p].stage \in Bodies
  <2>1. cards[post[p].card] \in Cards
    BY <1>1
  <2> QED  BY <1>1, <2>1 DEF Cards
<1>3. post[p].stage # 0
  BY <1>2, ChatAssumption DEF Bodies
<1> QED  BY <1>1, <1>2, <1>3 DEF EnterTool, PostStates

(* what a step makes of its own request                                     *)
LEMMA PostMoves ==
  ASSUME ChatInv, NEW p \in Posts, PostStep(p)
  PROVE  /\ post' \in [Posts -> PostStates]
         /\ p \in Spent => p \in Spent'
<1>a. ChatShapes /\ post \in [Posts -> PostStates] /\ PostInv(p)
  BY DEF ChatInv, ChatShapes
<1>b. /\ post[p].at \in PostSteps /\ post[p].untitled \in BOOLEAN /\ post[p].card \in Nat
      /\ post[p].stage \in Bodies \cup {0}
  BY <1>a DEF PostStates
<1>1. CASE SendMessage(p)
  <2> DEFINE first == (title = "none")
  <2>1. first \in BOOLEAN /\ "enter" \in PostSteps
    BY DEF PostSteps
  <2>2. post[p].at = "new" /\ post' = [post EXCEPT ![p].at = "enter", ![p].untitled = first]
    BY <1>1 DEF SendMessage
  <2> HIDE DEF first
  <2>3. post' \in [Posts -> PostStates]
    BY <1>a, <2>1, <2>2 DEF PostStates
  <2> QED  BY <2>2, <2>3 DEF Spent
<1>2. CASE ApproveCard(p)
  <2>1. PICK c \in inSession :
          post' = [post EXCEPT ![p].at = "decide", ![p].card = c, ![p].stage = cards[c].stage]
    BY <1>2 DEF ApproveCard
  <2>2. c \in DOMAIN cards /\ cards \in Seq(Cards)
    BY <1>a DEF ChatShapes
  <2>3. c \in Nat /\ cards[c].stage \in Bodies
    <3>1. c \in Nat /\ cards[c] \in Cards
      BY <2>2
    <3> QED  BY <3>1 DEF Cards
  <2>4. "decide" \in PostSteps
    BY DEF PostSteps
  <2>5. post' \in [Posts -> PostStates]
    BY <1>a, <2>1, <2>3, <2>4 DEF PostStates
  <2> QED  BY <1>a, <2>1, <2>5 DEF Spent
<1>3. CASE EnterSession(p) \/ ProposeEdit(p) \/ AnswerMessage(p) \/ SaveBody(p)
  <2>1. \E to \in PostSteps :
          /\ post' = [post EXCEPT ![p].at = to]
          /\ post[p].at \in {"new", "enter", "turn"} \/ to \notin {"new", "enter", "turn"}
    BY <1>3 DEF EnterSession, ProposeEdit, AnswerMessage, SaveBody, PostAt, PostSteps
  <2> QED  BY <1>a, <2>1, AtMoves DEF Spent
<1>4. CASE RunFails(p) \/ TitleFromMessage(p) \/ RejectCard(p) \/ CascadeFromBody(p)
  <2>1. post' = [post EXCEPT ![p] = Fresh("over")]
    BY <1>4 DEF RunFails, TitleFromMessage, RejectCard, CascadeFromBody, PostAt, PostOver
  <2> QED  BY <1>a, <2>1, AtMoves DEF Spent, Fresh, PostSteps
<1>5. CASE AppendDecision(p)
  <2>1. post' = [post EXCEPT ![p] = Fresh("over")] \/ post' = [post EXCEPT ![p].at = "resume"]
    BY <1>5 DEF AppendDecision, PostOver
  <2>2. post' \in [Posts -> PostStates]
    <3>1. "resume" \in PostSteps
      BY DEF PostSteps
    <3>2. /\ [post EXCEPT ![p].at = "resume"] \in [Posts -> PostStates]
          /\ [post EXCEPT ![p] = Fresh("over")] \in [Posts -> PostStates]
      BY <1>a, <3>1, AtMoves, Zenon
    <3> QED  BY <2>1, <3>2
  <2>3. post'[p].at \in {"over", "resume"}
    BY <1>a, <2>1 DEF Fresh, PostStates
  <2> QED  BY <2>2, <2>3 DEF Spent
<1>6. CASE EnterTool(p)
  <2>4. post' = [post EXCEPT ![p] = Fresh("over")]
        \/ post' = [post EXCEPT ![p].at = "save"]
    BY <1>6, ToolTarget
  <2>5. post' \in [Posts -> PostStates]
    <3>1. "save" \in PostSteps
      BY DEF PostSteps
    <3>2. /\ [post EXCEPT ![p].at = "save"] \in [Posts -> PostStates]
          /\ [post EXCEPT ![p] = Fresh("over")] \in [Posts -> PostStates]
      BY <1>a, <3>1, AtMoves, Zenon
    <3> QED  BY <2>4, <3>2
  <2>6. post'[p].at \in {"over", "save"}
    BY <1>a, <2>4 DEF Fresh, PostStates
  <2> QED  BY <2>5, <2>6 DEF Spent
<1> QED  BY <1>1, <1>2, <1>3, <1>4, <1>5, <1>6 DEF PostStep

(* What is said of a request is kept by the others' steps.                  *)
LEMMA OtherPostsKept ==
  ASSUME NEW q \in Posts, PostInv(q), Grows, post'[q] = post[q]
  PROVE  PostInv(q)'
BY DEF PostInv, Under, Grows

(* What is said of a request is kept by its own steps.                      *)
LEMMA PostKept ==
  ASSUME ChatInv, NEW p \in Posts, PostStep(p)
  PROVE  PostInv(p)'
<1>a. Grows /\ PostInv(p) /\ post \in [Posts -> PostStates]
  BY PostGrows DEF ChatInv, ChatShapes
<1>1. CASE SendMessage(p)
  BY <1>1, <1>a DEF SendMessage, PostInv, Under, PostStates
<1>2. CASE ApproveCard(p)
  <2>1. PICK c \in inSession :
          post' = [post EXCEPT ![p].at = "decide", ![p].card = c, ![p].stage = cards[c].stage]
    BY <1>2 DEF ApproveCard
  <2>2. c \in DOMAIN cards
    BY <2>1 DEF ChatInv, ChatShapes
  <2>3. /\ post'[p].at = "decide" /\ post'[p].card = c /\ post'[p].stage = cards[c].stage
        /\ post'[p].untitled = post[p].untitled
    BY <1>a, <2>1 DEF PostStates
  <2>4. post[p].at = "new" /\ UNCHANGED <<chat, title, cards, decided, raced>> /\ chat # "gone"
    BY <1>2 DEF ApproveCard
  <2> QED  BY <1>a, <2>2, <2>3, <2>4 DEF PostInv, Under
<1>3. CASE ProposeEdit(p) \/ AnswerMessage(p)
  <2>1. post[p].at = "turn" /\ post'[p].at = "title" /\ post'[p].untitled = post[p].untitled
    BY <1>3, <1>a DEF ProposeEdit, AnswerMessage, PostAt, PostStates
  <2> QED  BY <1>a, <2>1 DEF PostInv, Under, Grows
<1>4. CASE EnterSession(p) \/ SaveBody(p)
  <2>1. /\ Under(p) /\ Under(p)' /\ UNCHANGED <<cards, decided>>
        /\ post'[p].untitled = post[p].untitled /\ post'[p].card = post[p].card
        /\ post'[p].stage = post[p].stage
        /\ post'[p].at \in {"decide", "resume", "tool", "save", "cascade"} =>
             post[p].at \in {"resume", "tool", "save", "cascade"}
    BY <1>4, <1>a DEF EnterSession, SaveBody, PostAt, PostStates, Under
  <2> QED  BY <1>a, <2>1 DEF PostInv, Grows
<1>5. CASE RunFails(p) \/ TitleFromMessage(p) \/ RejectCard(p) \/ CascadeFromBody(p)
  <2>1. post'[p] = Fresh("over")
    BY <1>5, <1>a DEF RunFails, TitleFromMessage, RejectCard, CascadeFromBody, PostAt, PostOver
  <2> QED  BY <2>1 DEF PostInv, Under, Fresh
<1>6. CASE AppendDecision(p)
  <2>1. CASE chat = "gone"
    <3>1. post'[p] = Fresh("over")
      BY <1>6, <1>a, <2>1 DEF AppendDecision, PostOver
    <3> QED  BY <3>1 DEF PostInv, Under, Fresh
  <2>2. CASE chat # "gone"
    <3>1. /\ post[p].at = "decide" /\ post'[p].at = "resume" /\ post'[p].card = post[p].card
          /\ post'[p].stage = post[p].stage /\ post'[p].untitled = post[p].untitled
          /\ decided' = decided \cup {post[p].card} /\ UNCHANGED <<chat, title, cards, raced>>
      BY <1>6, <1>a, <2>2 DEF AppendDecision, PostStates
    <3> QED  BY <1>a, <2>2, <3>1 DEF PostInv, Under
  <2> QED  BY <2>1, <2>2
<1>7. CASE EnterTool(p)
  <2>1. CASE post' = [post EXCEPT ![p] = Fresh("over")]
    <3>1. post'[p] = Fresh("over")
      BY <1>a, <2>1
    <3> QED  BY <3>1 DEF PostInv, Under, Fresh
  <2>2. CASE post' = [post EXCEPT ![p].at = "save"]
    <3>1. /\ post[p].at = "tool" /\ post'[p].at = "save" /\ post'[p].card = post[p].card
          /\ post'[p].stage = post[p].stage /\ post'[p].untitled = post[p].untitled
      <4>1. post[p].at = "tool"
        BY <1>7 DEF EnterTool
      <4> QED  BY <1>a, <2>2, <4>1 DEF PostStates
    <3>2. UNCHANGED <<chat, title, cards, decided, raced>>
      BY <1>7 DEF EnterTool
    <3> QED  BY <1>a, <3>1, <3>2 DEF PostInv, Under
  <2> QED  BY <1>7, <2>1, <2>2, ToolTarget
<1> QED  BY <1>1, <1>2, <1>3, <1>4, <1>5, <1>6, <1>7 DEF PostStep

(* The steps of requests keep the strengthening.                            *)
LEMMA PostStepKeeps ==
  ASSUME ChatInv, NEW p \in Posts, PostStep(p)
  PROVE  ChatInv'
<1>a. Grows /\ (\A q \in Posts \ {p} : post'[q] = post[q]) /\ ChatShapes /\ Room
      /\ post' \in [Posts -> PostStates]
  BY PostGrows, PostMoves DEF ChatInv
<1>1. ASSUME NEW q \in Posts  PROVE PostInv(q)'
  <2>1. CASE q = p
    BY <2>1, PostKept
  <2>2. CASE q # p
    BY <1>a, <2>2, OtherPostsKept DEF ChatInv
  <2> QED  BY <2>1, <2>2
<1>2. Room'
  <2>1. \A q \in Posts : q \in Spent => q \in Spent'
    BY <1>a, PostMoves DEF Spent
  <2>2. /\ Cardinality(Spent) <= Cardinality(Spent') /\ Cardinality(Spent') \in Nat
        /\ p \notin Spent /\ p \in Spent' => Cardinality(Spent) + 1 <= Cardinality(Spent')
    BY <1>a, <2>1, SpentGrows
  <2>3. Len(cards) \in Nat /\ Len(cards) <= Cardinality(Spent) /\ Cardinality(Spent) \in Nat
    BY <1>a, CardsBounded DEF ChatShapes, Room
  <2>4. CASE ProposeEdit(p)
    <3>1. p \notin Spent /\ p \in Spent'
      BY <1>a, <2>4 DEF ProposeEdit, PostAt, Spent, ChatShapes, PostStates
    <3>2. Len(cards') = Len(cards) + 1
      BY <1>a, <2>4 DEF ProposeEdit, ChatShapes
    <3> QED  BY <2>2, <2>3, <3>1, <3>2 DEF Room
  <2>5. CASE ~ProposeEdit(p)
    <3>1. cards' = cards
      BY <2>5 DEF PostStep, SendMessage, EnterSession, AnswerMessage, RunFails,
                  TitleFromMessage, ApproveCard, RejectCard, AppendDecision, EnterTool,
                  SaveBody, CascadeFromBody
    <3> QED  BY <2>2, <2>3, <3>1 DEF Room
  <2> QED  BY <2>4, <2>5
<1>3. ChatShapes' /\ OnlyApproved'
  <2>1. CASE SaveBody(p)
    <3>1. /\ post[p].at = "save" /\ UNCHANGED <<chat, title, cards, inSession, decided, job>>
          /\ UNCHANGED <<work, raced>>
          /\ body' = [body EXCEPT ![post[p].stage] = EditOf(post[p].card)]
      BY <2>1 DEF SaveBody, PostAt
    <3>2. post[p].card \in DOMAIN cards /\ post[p].card \in decided
          /\ post[p].stage = cards[post[p].card].stage
      BY <3>1 DEF ChatInv, PostInv
    <3>3. 0 \in 0..MaxWork /\ post[p].card \in 0..Cardinality(Posts)
      BY <1>a, <3>2, CardsBounded, ChatAssumption
    <3>4. EditOf(post[p].card) \in BodyTexts
      BY <3>3 DEF EditOf, BodyTexts
    <3>5. ChatShapes'
      BY <1>a, <3>1, <3>4 DEF ChatShapes
    <3>6. OnlyApproved'
      BY <1>a, <3>1, <3>2 DEF ChatInv, OnlyApproved, ChatShapes, EditOf
    <3> QED  BY <3>5, <3>6
  <2>2. CASE ProposeEdit(p)
    <3>1. PICK b \in Bodies :
            /\ cards' = Append(cards, [stage |-> b, text |-> body[b]])
            /\ inSession' = inSession \cup {Len(cards')}
      BY <2>2 DEF ProposeEdit
    <3>2. chat # "gone" /\ UNCHANGED <<chat, title, decided, job, body, work, raced>>
      BY <2>2 DEF ProposeEdit, document
    <3>3. [stage |-> b, text |-> body[b]] \in Cards
      BY <1>a, <3>1 DEF ChatShapes, Cards
    <3>4. cards' \in Seq(Cards) /\ Len(cards') = Len(cards) + 1 /\ DOMAIN cards' = 1..Len(cards')
          /\ DOMAIN cards \subseteq DOMAIN cards'
      BY <1>a, <3>1, <3>3 DEF ChatShapes
    <3>5. inSession' \subseteq DOMAIN cards'
      BY <1>a, <3>1, <3>4 DEF ChatShapes
    <3>6. ChatShapes'
      BY <1>a, <3>2, <3>4, <3>5 DEF ChatShapes
    <3>7. OnlyApproved'
      BY <1>a, <3>2 DEF ChatInv, OnlyApproved, Grows, ChatShapes
    <3> QED  BY <3>6, <3>7
  <2>3. CASE AppendDecision(p)
    <3>1. /\ UNCHANGED <<chat, title, cards, inSession, job, body, work, raced>>
          /\ decided' = decided \/ decided' = decided \cup {post[p].card}
      BY <2>3 DEF AppendDecision, document
    <3>2. post[p].card \in DOMAIN cards
      BY <2>3 DEF AppendDecision, ChatInv, PostInv
    <3>3. ChatShapes'
      BY <1>a, <3>1, <3>2 DEF ChatShapes
    <3> QED  BY <3>1, <3>3 DEF ChatInv, OnlyApproved
  <2>4. CASE CascadeFromBody(p)
    <3>1. UNCHANGED <<chat, title, cards, inSession, decided, body, work, raced>>
          /\ \E b : job' = Repended(b)
      BY <2>4 DEF CascadeFromBody
    <3>2. job' \in [Bodies -> {"none", "pending", "empty", "done"}]
      BY <1>a, <3>1 DEF ChatShapes, Repended
    <3> QED  BY <1>a, <3>1, <3>2 DEF ChatInv, OnlyApproved, ChatShapes
  <2>5. CASE ~(SaveBody(p) \/ ProposeEdit(p) \/ AppendDecision(p) \/ CascadeFromBody(p))
    <3>1. UNCHANGED <<cards, inSession, decided, job, body, work, raced>>
      BY <1>a, <2>5 DEF PostStep, SendMessage, EnterSession, AnswerMessage, RunFails,
                        TitleFromMessage, ApproveCard, RejectCard, EnterTool, document
    <3>2. chat' \in {"alive", "bare", "gone"} /\ title' \in {"none", "message", "user"}
          /\ (chat' = "gone" => chat = "gone")
      BY <1>a, <2>5 DEF PostStep, SendMessage, EnterSession, AnswerMessage, RunFails,
                        TitleFromMessage, ApproveCard, RejectCard, EnterTool, ChatShapes
    <3> QED  BY <1>a, <3>1, <3>2 DEF ChatInv, OnlyApproved, ChatShapes
  <2> QED  BY <2>1, <2>2, <2>3, <2>4, <2>5
<1>4. DeletedStays'
  <2>1. CASE EnterSession(p)
    <3>1. Under(p) /\ (chat' = "bare" => chat \in {"gone", "bare"}) /\ raced' = raced
      BY <1>a, <2>1 DEF EnterSession, PostAt, Under, Grows
    <3> QED  BY <3>1 DEF ChatInv, PostInv, DeletedStays
  <2>2. CASE ~EnterSession(p)
    <3>1. chat' = chat /\ raced' = raced
      BY <1>a, <2>2 DEF PostStep, SendMessage, ProposeEdit, AnswerMessage, RunFails,
                        TitleFromMessage, ApproveCard, RejectCard, AppendDecision, EnterTool,
                        SaveBody, CascadeFromBody, Grows
    <3> QED  BY <3>1 DEF ChatInv, DeletedStays
  <2> QED  BY <2>1, <2>2
<1> QED  BY <1>1, <1>2, <1>3, <1>4 DEF ChatInv

-----------------------------------------------------------------------------
(* The users and the worker                                                 *)

(* What users and worker do to chat and document keeps the strengthening.   *)
LEMMA OutsideKeeps ==
  ASSUME ChatInv,
         RenameChat \/ DeleteChat \/ \E b \in Bodies : MakeBody(b) \/ ReplayBody(b)
  PROVE  ChatInv'
<1>a. ChatShapes /\ OnlyApproved /\ DeletedStays /\ \A p \in Posts : PostInv(p)
  BY DEF ChatInv
<1>b. UNCHANGED <<cards, decided, post>>
  BY DEF RenameChat, DeleteChat, MakeBody, ReplayBody
<1>c. Room'
  BY <1>b DEF ChatInv, Room, Spent
<1>1. CASE RenameChat \/ DeleteChat
  <2>1. /\ UNCHANGED <<job, body, work>>
        /\ (chat' = chat /\ raced' = raced) \/ (chat' = "gone" /\ raced' = OnTheWay)
        /\ inSession' \in {inSession, {}} /\ (chat' = "gone" => inSession' = {})
        /\ chat' \in {chat, "gone"} /\ title' \in {title, "user"} /\ chat # "gone"
    BY <1>1 DEF RenameChat, DeleteChat, document
  <2>2. ChatShapes'
    <3>1. raced' \in BOOLEAN
      BY <1>a, <2>1 DEF ChatShapes, OnTheWay
    <3> QED  BY <1>a, <1>b, <2>1, <3>1 DEF ChatShapes
  <2>3. ASSUME NEW p \in Posts  PROVE PostInv(p)'
    <3>1. chat' = "gone" /\ Under(p) => raced'
      BY <2>1 DEF Under, OnTheWay
    <3> QED  BY <1>a, <1>b, <3>1 DEF PostInv, Under
  <2>4. OnlyApproved' /\ DeletedStays'
    BY <1>a, <1>b, <2>1 DEF OnlyApproved, DeletedStays
  <2> QED  BY <1>c, <2>2, <2>3, <2>4 DEF ChatInv
<1>2. ASSUME NEW b \in Bodies, MakeBody(b) \/ ReplayBody(b)  PROVE ChatInv'
  <2>1. UNCHANGED <<chat, title, inSession, raced>> /\ work' \in 0..MaxWork
    BY <1>a, <1>2, ChatAssumption DEF MakeBody, ReplayBody, ChatShapes
  <2>2. job' \in [Bodies -> {"none", "pending", "empty", "done"}]
    BY <1>a, <1>2 DEF MakeBody, ReplayBody, Repended, ChatShapes
  <2>3. \/ body' = body
        \/ body' = [body EXCEPT ![b] = MadeBy(work')]
        \/ body' = [body EXCEPT ![b] = @]
    BY <1>2 DEF MakeBody, ReplayBody
  <2>4. MadeBy(work') \in BodyTexts /\ MadeBy(work').card = 0
    <3>1. Cardinality(Posts) \in Nat
      BY ChatAssumption, FS_CardinalityType
    <3> QED  BY <2>1, <3>1 DEF MadeBy, BodyTexts
  <2>5. ChatShapes'
    BY <1>a, <1>b, <2>1, <2>2, <2>3, <2>4 DEF ChatShapes
  <2>6. OnlyApproved' /\ DeletedStays'
    BY <1>a, <1>b, <2>1, <2>3, <2>4 DEF OnlyApproved, DeletedStays, ChatShapes
  <2>7. \A p \in Posts : PostInv(p)'
    BY <1>a, <1>b, <2>1 DEF PostInv, Under
  <2> QED  BY <1>c, <2>5, <2>6, <2>7 DEF ChatInv
<1> QED  BY <1>1, <1>2

(* Every step keeps the strengthening.                                      *)
LEMMA ChatInvStep == ChatInv /\ [ChatNext]_chatVars => ChatInv'
<1> SUFFICES ASSUME ChatInv, [ChatNext]_chatVars  PROVE ChatInv'
  OBVIOUS
<1>1. ASSUME NEW p \in Posts, PostStep(p)  PROVE ChatInv'
  BY <1>1, PostStepKeeps
<1>2. CASE RenameChat \/ DeleteChat \/ \E b \in Bodies : MakeBody(b) \/ ReplayBody(b)
  BY <1>2, OutsideKeeps
<1>3. CASE UNCHANGED chatVars
  BY <1>3 DEF chatVars, ChatInv, ChatShapes, Room, Spent, PostInv, Under, OnlyApproved, DeletedStays
<1> QED  BY <1>1, <1>2, <1>3 DEF ChatNext, PostStep

(* The strengthening always holds.                                          *)
LEMMA ChatInvHolds == ChatSpec => []ChatInv
BY ChatInvInit, ChatInvStep, PTL DEF ChatSpec

-----------------------------------------------------------------------------
(* Type correctness; there are at most as many cards as requests.           *)
THEOREM ChatTypesCorrect == ChatSpec => []ChatTypeOK
<1>1. ChatInv => ChatTypeOK
  <2> SUFFICES ASSUME ChatInv  PROVE ChatTypeOK
    OBVIOUS
  <2>1. ASSUME NEW p \in Posts, post[p].at = "save"  PROVE post[p].stage \in Bodies
    <3>1. cards[post[p].card] \in Cards /\ post[p].stage = cards[post[p].card].stage
      BY <2>1 DEF ChatInv, PostInv, ChatShapes
    <3> QED  BY <3>1 DEF Cards
  <2>2. \A p \in Posts : post[p].at \in PostSteps
    BY DEF ChatInv, ChatShapes, PostStates
  <2> QED  BY <2>1, <2>2 DEF ChatInv, ChatShapes, ChatTypeOK, Cards
<1> QED  BY <1>1, ChatInvHolds, PTL

(* The agent changes a body only after an approval, and in the stage whose  *)
(* text the user saw: for any number of chats' requests, stages and runs.   *)
THEOREM OnlyApprovedChanges == ChatSpec => []OnlyApproved
<1>1. ChatInv => OnlyApproved
  BY DEF ChatInv
<1> QED  BY <1>1, ChatInvHolds, PTL

(* A deleted chat is made again only by a request that was under way.       *)
THEOREM DeletedChatsStay == ChatSpec => []DeletedStays
<1>1. ChatInv => DeletedStays
  BY DEF ChatInv
<1> QED  BY <1>1, ChatInvHolds, PTL

-----------------------------------------------------------------------------
(***************************************************************************)
(* Streams                                                                 *)
(***************************************************************************)

(* The steps of a reader                                                    *)
ReaderStep(r) ==
  OpenStream(r) \/ Subscribe(r) \/ ReadEvent(r) \/ PollStatus(r) \/ LeaveStream(r)

Events == {"token", "done"}

(* What was published is in the channel or was dropped.                     *)
LEMMA Published ==
  ASSUME NEW event, Publish(event), NEW r \in Readers
  PROVE  chan'[r] = chan[r]
         \/ (r \in subs /\ Len(chan[r]) < BufferSize /\ chan'[r] = Append(chan[r], event))
BY DEF Publish

-----------------------------------------------------------------------------
(* Types                                                                    *)

ReaderStates ==
  [at : {"new", "read", "open", "told", "left"},
   initial : {"pending", "running", "done", "error", "gone"},
   watched : Nat]

StreamShapes ==
  /\ chan = [r \in Readers |-> chan[r]]
  /\ reader \in [Readers -> ReaderStates]
  /\ StreamTypeOK

(* The initial state has the types.                                         *)
LEMMA StreamShapesInit == StreamInit => StreamShapes
BY StreamsAssumption DEF StreamInit, StreamShapes, StreamTypeOK, ReaderStates

(* Publishing keeps the channels sequences of events within their buffers.  *)
LEMMA PublishTypes ==
  ASSUME StreamShapes, NEW event \in Events, Publish(event)
  PROVE  /\ chan' = [r \in Readers |-> chan'[r]]
         /\ \A r \in Readers : chan'[r] \in Seq(Events) /\ Len(chan'[r]) <= BufferSize
<1>1. chan' = [r \in Readers |-> chan'[r]]
  BY DEF Publish
<1>2. ASSUME NEW r \in Readers
      PROVE  chan'[r] \in Seq(Events) /\ Len(chan'[r]) <= BufferSize
  <2>1. chan[r] \in Seq(Events) /\ Len(chan[r]) <= BufferSize
    BY DEF StreamShapes, StreamTypeOK, Events
  <2>2. chan'[r] = chan[r]
        \/ (Len(chan[r]) < BufferSize /\ chan'[r] = Append(chan[r], event))
    BY Published
  <2>3. Append(chan[r], event) \in Seq(Events)
        /\ Len(Append(chan[r], event)) = Len(chan[r]) + 1
    BY <2>1
  <2> QED  BY <2>1, <2>2, <2>3, StreamsAssumption
<1> QED  BY <1>1, <1>2

(* Every step keeps the types.                                              *)
LEMMA StreamShapesStep == StreamShapes /\ [StreamNext]_streamVars => StreamShapes'
<1> SUFFICES ASSUME StreamShapes, [StreamNext]_streamVars  PROVE StreamShapes'
  OBVIOUS
<1> USE StreamsAssumption
<1>1. CASE StartRun \/ StoreResult \/ StoreFailure
  BY <1>1 DEF StartRun, StoreResult, StoreFailure, SetStatus, WorkerAt, readers, StreamShapes,
              StreamTypeOK
<1>2. CASE PublishToken \/ CheckStopped \/ PublishDone \/ FailGeneration
  <2>1. UNCHANGED chan \/ \E event \in Events : Publish(event)
    BY <1>2 DEF PublishToken, CheckStopped, PublishDone, FailGeneration, PublishIf, Events
  <2>2. /\ chan' = [r \in Readers |-> chan'[r]]
        /\ \A r \in Readers : chan'[r] \in Seq(Events) /\ Len(chan'[r]) <= BufferSize
    <3>1. CASE UNCHANGED chan
      BY <3>1 DEF StreamShapes, StreamTypeOK, Events
    <3>2. CASE \E event \in Events : Publish(event)
      BY <3>2, PublishTypes
    <3> QED  BY <2>1, <3>1, <3>2
  <2>3. UNCHANGED <<jobStatus, log, run, subs, reader, commands>>
    BY <1>2 DEF PublishToken, CheckStopped, PublishDone, FailGeneration
  <2>4. /\ phase' \in {"idle", "generate", "store", "publish", "fail"}
        /\ ended' \in 0..run /\ tokens' \in 0..MaxTokens
    BY <1>2 DEF PublishToken, CheckStopped, PublishDone, FailGeneration, WorkerAt, StreamShapes,
                StreamTypeOK
  <2> QED  BY <2>2, <2>3, <2>4 DEF StreamShapes, StreamTypeOK, Events
<1>3. CASE StopJob \/ ReplayJob \/ DeleteJob
  BY <1>3 DEF StopJob, ReplayJob, DeleteJob, Command, readers, StreamShapes, StreamTypeOK
<1>4. ASSUME NEW r \in Readers, ReaderStep(r)  PROVE StreamShapes'
  <2>1. UNCHANGED <<jobStatus, log, phase, run, ended, tokens, commands>>
    BY <1>4 DEF ReaderStep, OpenStream, Subscribe, ReadEvent, PollStatus, LeaveStream
  <2>2. subs' \subseteq Readers
    BY <1>4 DEF ReaderStep, OpenStream, Subscribe, ReadEvent, PollStatus, LeaveStream,
                CloseStream, StreamShapes, StreamTypeOK
  <2>3. reader' \in [Readers -> ReaderStates]
    <3>1. reader \in [Readers -> ReaderStates] /\ run \in Nat
          /\ jobStatus \in {"pending", "running", "done", "error", "gone"}
      BY DEF StreamShapes, StreamTypeOK
    <3>2. CASE OpenStream(r)
      BY <3>1, <3>2 DEF OpenStream, ReaderStates
    <3>3. CASE Subscribe(r) \/ ReadEvent(r) \/ PollStatus(r) \/ LeaveStream(r)
      <4>1. reader' = reader \/ \E at \in {"open", "told", "left"} :
                                  reader' = [reader EXCEPT ![r].at = at]
        BY <3>3 DEF Subscribe, ReadEvent, PollStatus, LeaveStream, CloseStream
      <4> QED  BY <3>1, <4>1 DEF ReaderStates
    <3> QED  BY <1>4, <3>2, <3>3 DEF ReaderStep
  <2>4. /\ chan' = [s \in Readers |-> chan'[s]]
        /\ \A s \in Readers : chan'[s] \in Seq(Events) /\ Len(chan'[s]) <= BufferSize
    <3>1. /\ chan = [s \in Readers |-> chan[s]]
          /\ \A s \in Readers : chan[s] \in Seq(Events) /\ Len(chan[s]) <= BufferSize
      BY DEF StreamShapes, StreamTypeOK, Events
    <3>2. CASE chan' = chan
      BY <3>1, <3>2
    <3>3. CASE ReadEvent(r)
      <4>1. chan[r] # <<>> /\ chan' = [chan EXCEPT ![r] = Tail(@)]
        BY <3>3 DEF ReadEvent
      <4>2. Tail(chan[r]) \in Seq(Events) /\ Len(Tail(chan[r])) <= BufferSize
        BY <3>1, <4>1
      <4> QED  BY <3>1, <4>1, <4>2
    <3> QED
      BY <1>4, <3>2, <3>3 DEF ReaderStep, OpenStream, Subscribe, PollStatus, LeaveStream
  <2> QED  BY <2>1, <2>2, <2>3, <2>4 DEF StreamShapes, StreamTypeOK, Events, ReaderStates
<1>6. CASE UNCHANGED streamVars
  BY <1>6 DEF streamVars, StreamShapes, StreamTypeOK
<1> QED  BY <1>1, <1>2, <1>3, <1>4, <1>6 DEF StreamNext, ReaderStep

(* Type correctness; a channel never holds more than its buffer, whatever   *)
(* is published and however slowly it is read.                              *)
THEOREM StreamTypesCorrect == StreamSpec => []StreamTypeOK
<1>1. StreamShapes => StreamTypeOK
  BY DEF StreamShapes
<1> QED  BY <1>1, StreamShapesInit, StreamShapesStep, PTL DEF StreamSpec

-----------------------------------------------------------------------------
(* Who is told, and when                                                    *)

(* The last run is over unless its model is being asked, and the job runs   *)
(* or has gone.                                                             *)
RunOver ==
  /\ jobStatus \notin {"running", "gone"} => ended = run
  /\ phase # "generate" => ended = run

(* what a reader waits for, and what its channel tells                      *)
Watches(r) ==
  /\ reader[r].watched <= run
  /\ reader[r].initial # "running" => reader[r].watched = 0
  /\ reader[r].at \in {"new", "read"} => r \notin subs /\ chan[r] = <<>>
  /\ (\E i \in DOMAIN chan[r] : chan[r][i] = "done") => ended >= reader[r].watched
  /\ reader[r].at = "told" => ended >= reader[r].watched

StreamInv == StreamShapes /\ RunOver /\ \A r \in Readers : Watches(r)

(* The strengthening holds at first.                                        *)
LEMMA StreamInvInit == StreamInit => StreamInv
BY StreamShapesInit DEF StreamInit, StreamInv, RunOver, Watches

(* Who publishes an end has made it the end of the last run.                *)
LEMMA EndPublished ==
  ASSUME StreamInv, ended' = run, run' = run, UNCHANGED <<subs, reader>>,
         UNCHANGED chan \/ Publish("done"), NEW r \in Readers
  PROVE  Watches(r)'
<1>1. ended' >= reader[r].watched
  BY DEF StreamInv, Watches, StreamShapes, StreamTypeOK, ReaderStates
<1>2. reader[r].at \in {"new", "read"} => chan'[r] = chan[r]
  BY DEF StreamInv, Watches, Publish
<1> QED  BY <1>1, <1>2 DEF StreamInv, Watches

(* Every step keeps the strengthening.                                      *)
LEMMA StreamInvStep == StreamInv /\ [StreamNext]_streamVars => StreamInv'
<1> SUFFICES ASSUME StreamInv, [StreamNext]_streamVars  PROVE StreamInv'
  OBVIOUS
<1>0. StreamShapes'
  BY StreamShapesStep DEF StreamInv
<1>1. CASE StartRun \/ StoreResult \/ StoreFailure \/ StopJob \/ ReplayJob \/ DeleteJob
  <2>1. RunOver'
    BY <1>1 DEF StartRun, StoreResult, StoreFailure, StopJob, ReplayJob, DeleteJob, SetStatus,
                WorkerAt, StreamInv, RunOver, readers
  <2>2. ended' >= ended /\ run' >= run /\ UNCHANGED <<subs, chan, reader>>
    BY <1>1 DEF StartRun, StoreResult, StoreFailure, StopJob, ReplayJob, DeleteJob, readers,
                StreamInv, StreamShapes, StreamTypeOK, ReaderStates
  <2>3. ASSUME NEW r \in Readers  PROVE Watches(r)'
    BY <1>0, <2>2 DEF StreamInv, Watches, StreamShapes, StreamTypeOK, ReaderStates
  <2> QED  BY <1>0, <2>1, <2>3 DEF StreamInv
<1>2. CASE PublishToken
  <2>1. RunOver'
    BY <1>2 DEF PublishToken, StreamInv, RunOver
  <2>2. ASSUME NEW r \in Readers  PROVE Watches(r)'
    <3>1. chan'[r] = chan[r] \/ (r \in subs /\ chan'[r] = Append(chan[r], "token"))
      BY <1>2 DEF PublishToken, Publish, StreamInv, StreamShapes
    <3>2. chan[r] \in Seq(Events)
      BY DEF StreamInv, StreamShapes, StreamTypeOK, ReaderStates, Events
    <3>3. (\E i \in DOMAIN chan'[r] : chan'[r][i] = "done")
            => \E i \in DOMAIN chan[r] : chan[r][i] = "done"
      BY <3>1, <3>2
    <3> QED  BY <1>2, <3>1, <3>3 DEF PublishToken, StreamInv, Watches
  <2> QED  BY <1>0, <2>1, <2>2 DEF StreamInv
<1>3. CASE CheckStopped \/ PublishDone \/ FailGeneration
  <2>1. RunOver'
    BY <1>3 DEF CheckStopped, PublishDone, FailGeneration, WorkerAt, StreamInv, RunOver
  <2>2. /\ ended' = run /\ run' = run /\ UNCHANGED <<subs, reader>>
        /\ UNCHANGED chan \/ Publish("done")
    BY <1>3 DEF CheckStopped, PublishDone, FailGeneration, PublishIf, WorkerAt, StreamInv,
                RunOver
  <2>3. ASSUME NEW r \in Readers  PROVE Watches(r)'
    BY <2>2, EndPublished
  <2> QED  BY <1>0, <2>1, <2>3 DEF StreamInv
<1>4. ASSUME NEW r \in Readers, ReaderStep(r)  PROVE StreamInv'
  <2>1. UNCHANGED <<jobStatus, phase, run, ended>> /\ RunOver'
    BY <1>4 DEF ReaderStep, OpenStream, Subscribe, ReadEvent, PollStatus, LeaveStream,
                StreamInv, RunOver
  <2>2. ASSUME NEW s \in Readers, s # r  PROVE Watches(s)'
    <3>1. reader'[s] = reader[s] /\ chan'[s] = chan[s] /\ (s \in subs' => s \in subs)
      BY <1>4, <2>2 DEF ReaderStep, OpenStream, Subscribe, ReadEvent, PollStatus, LeaveStream,
                        CloseStream, StreamInv, StreamShapes
    <3> QED  BY <2>1, <3>1 DEF StreamInv, Watches
  <2>3. Watches(r)'
    <3>1. CASE OpenStream(r)
      BY <2>1, <3>1 DEF OpenStream, StreamInv, Watches, StreamShapes, StreamTypeOK, ReaderStates
    <3>2. CASE Subscribe(r)
      BY <2>1, <3>2 DEF Subscribe, StreamInv, Watches, StreamShapes, StreamTypeOK, ReaderStates
    <3>3. CASE ReadEvent(r)
      <4>1. chan[r] \in Seq(Events) /\ chan[r] # <<>> /\ chan'[r] = Tail(chan[r])
        BY <3>3 DEF ReadEvent, StreamInv, StreamShapes, StreamTypeOK, ReaderStates, Events
      <4>2. (\E i \in DOMAIN chan'[r] : chan'[r][i] = "done")
              => \E i \in DOMAIN chan[r] : chan[r][i] = "done"
        BY <4>1
      <4>3. Head(chan[r]) = "done" => \E i \in DOMAIN chan[r] : chan[r][i] = "done"
        BY <4>1
      <4>4. /\ reader'[r].watched = reader[r].watched
            /\ reader'[r].initial = reader[r].initial
            /\ \/ reader'[r].at = "open"
               \/ reader'[r].at = "told" /\ Head(chan[r]) = "done"
        BY <3>3 DEF ReadEvent, CloseStream, StreamInv, StreamShapes, ReaderStates
      <4> QED  BY <2>1, <4>2, <4>3, <4>4 DEF StreamInv, Watches
    <3>4. CASE PollStatus(r)
      <4>1. ended >= reader[r].watched
        BY <3>4 DEF PollStatus, StreamInv, Watches, RunOver, StreamShapes, StreamTypeOK, ReaderStates
      <4> QED  BY <2>1, <3>4, <4>1 DEF PollStatus, CloseStream, StreamInv, Watches, StreamShapes
    <3>5. CASE LeaveStream(r)
      BY <2>1, <3>5 DEF LeaveStream, CloseStream, StreamInv, Watches, StreamShapes
    <3> QED  BY <1>4, <3>1, <3>2, <3>3, <3>4, <3>5 DEF ReaderStep
  <2> QED  BY <1>0, <2>1, <2>2, <2>3 DEF StreamInv
<1>5. CASE UNCHANGED streamVars
  BY <1>5 DEF streamVars, StreamInv, StreamShapes, StreamTypeOK, ReaderStates, RunOver, Watches
<1> QED  BY <1>1, <1>2, <1>3, <1>4, <1>5 DEF StreamNext, ReaderStep

(* However events are dropped, readers unregistered, and the job stopped    *)
(* and replayed: nobody is told the end of a run that still goes on.        *)
THEOREM StreamsEndAfterRun == StreamSpec => []EndsAfterRun
<1>1. StreamInv => EndsAfterRun
  BY DEF StreamInv, Watches, EndsAfterRun
<1> QED  BY <1>1, StreamInvInit, StreamInvStep, PTL DEF StreamSpec

-----------------------------------------------------------------------------
(***************************************************************************)
(* Views                                                                   *)
(***************************************************************************)

Artifacts == [field : StageNumbers, tagged : BOOLEAN]

Makings ==
  [at : {"idle", "store", "record"}, stage : StageNumbers \cup {0}, output : Nat]

ViewShapes ==
  /\ outputs \in [StageNumbers -> Seq(Nat)]
  /\ stored \in Seq(Artifacts)
  /\ making \in Makings
  /\ making.at # "idle" => making.stage \in StageNumbers

IsOutput(a, s) == a \in DOMAIN stored /\ stored[a].field = s /\ stored[a].tagged

(* The runs of a stage are in the order in which their outputs were stored, *)
(* the run to be recorded comes last, and all are tagged with the stage.    *)
ViewsInv ==
  /\ ViewShapes
  /\ \A s \in StageNumbers : \A i \in DOMAIN outputs[s] :
       outputs[s][i] # 0 => IsOutput(outputs[s][i], s)
  /\ \A s \in StageNumbers : \A i, j \in DOMAIN outputs[s] :
       i < j /\ outputs[s][j] # 0 => outputs[s][i] < outputs[s][j]
  /\ making.at = "record" /\ making.output # 0 =>
       /\ IsOutput(making.output, making.stage)
       /\ \A i \in DOMAIN outputs[making.stage] :
            outputs[making.stage][i] < making.output

(* The strengthening holds at first.                                        *)
LEMMA ViewsInvInit == ViewsInit => ViewsInv
<1> SUFFICES ASSUME ViewsInit  PROVE ViewsInv
  OBVIOUS
<1>1. making \in Makings /\ making.at = "idle"
  BY DEF ViewsInit, Resting, Makings
<1>2. outputs \in [StageNumbers -> Seq(Nat)] /\ \A s \in StageNumbers : outputs[s] = <<>>
  BY DEF ViewsInit
<1>3. stored \in Seq(Artifacts)
  BY DEF ViewsInit
<1> QED  BY <1>1, <1>2, <1>3 DEF ViewsInv, ViewShapes

(* What a run stores comes behind all that is stored: the output, if there  *)
(* is one, last and with the stage's tag.                                   *)
LEMMA RunStored ==
  ASSUME ViewShapes, StoreRun
  PROVE  /\ stored' \in Seq(Artifacts) /\ Len(stored) <= Len(stored')
         /\ \A i \in DOMAIN stored : i \in DOMAIN stored' /\ stored'[i] = stored[i]
         /\ making' \in Makings /\ making'.at = "record" /\ making'.stage = making.stage
         /\ making'.output # 0 =>
              /\ making'.output > Len(stored)
              /\ IsOutput(making.output, making.stage)'
<1> DEFINE s == making.stage
           old == stored
           in == InputCopy(s)
           both == old \o in
<1>1. s \in StageNumbers /\ s # 0 /\ old \in Seq(Artifacts)
  BY ViewsAssumption DEF StoreRun, ViewShapes, StageNumbers
<1>2. in \in Seq(Artifacts)
  <2>1. CASE s = 1
    <3>1. in = <<>>
      BY <2>1 DEF InputCopy
    <3> QED  BY <3>1
  <2>2. CASE s # 1
    <3>1. s - 1 \in StageNumbers
      BY <1>1, <2>2, ViewsAssumption DEF StageNumbers
    <3>2. [field |-> s - 1, tagged |-> FALSE] \in Artifacts
      BY <3>1 DEF Artifacts
    <3>3. in = <<[field |-> s - 1, tagged |-> FALSE]>>
      BY <2>2 DEF InputCopy
    <3> QED  BY <3>2, <3>3
  <2> QED  BY <2>1, <2>2
<1>3. PICK out \in {<<>>, <<[field |-> s, tagged |-> TRUE]>>} :
        /\ stored' = stored \o InputCopy(s) \o out
        /\ making' = [making EXCEPT !.at = "record",
                        !.output = IF out = <<>> THEN 0 ELSE Len(stored')]
  BY DEF StoreRun
<1>4. out \in Seq(Artifacts) /\ (out = <<>> \/ (Len(out) = 1 /\ out[1].field = s /\ out[1].tagged))
  <2>1. [field |-> s, tagged |-> TRUE] \in Artifacts
    BY <1>1 DEF Artifacts
  <2>2. CASE out = <<>>
    BY <2>2
  <2>3. CASE out = <<[field |-> s, tagged |-> TRUE]>>
    <3>1. out \in Seq(Artifacts) /\ Len(out) = 1 /\ out[1] = [field |-> s, tagged |-> TRUE]
      BY <2>1, <2>3
    <3> QED  BY <3>1
  <2> QED  BY <1>3, <2>2, <2>3
<1>5. /\ both \in Seq(Artifacts) /\ Len(both) = Len(old) + Len(in)
      /\ \A i \in 1..Len(old) : both[i] = old[i]
  <2> HIDE DEF in, old
  <2> QED  BY <1>1, <1>2, ConcatProperties
<1>6. stored' = both \o out
  BY <1>3
<1>7. Len(old) \in Nat /\ Len(in) \in Nat /\ Len(both) \in Nat /\ Len(out) \in Nat
  BY <1>1, <1>2, <1>4, <1>5
<1> HIDE DEF in, old, both
<1>8. /\ stored' \in Seq(Artifacts) /\ Len(stored') = Len(both) + Len(out)
      /\ \A i \in 1..Len(both) + Len(out) :
           stored'[i] = IF i <= Len(both) THEN both[i] ELSE out[i - Len(both)]
  <2>1. /\ both \o out \in Seq(Artifacts) /\ Len(both \o out) = Len(both) + Len(out)
        /\ \A i \in 1..Len(both) + Len(out) :
             (both \o out)[i] = IF i <= Len(both) THEN both[i] ELSE out[i - Len(both)]
    <3>1. both \in Seq(Artifacts) /\ out \in Seq(Artifacts)
      BY <1>4, <1>5
    <3> QED  BY <3>1, ConcatProperties
  <2> QED  BY <1>6, <2>1
<1>9. \A i \in 1..Len(old) : i \in 1..Len(stored') /\ stored'[i] = old[i]
  BY <1>5, <1>7, <1>8
<1>10. \A i \in DOMAIN stored : i \in DOMAIN stored' /\ stored'[i] = stored[i]
  BY <1>1, <1>8, <1>9 DEF old
<1>11. making' \in Makings /\ making'.at = "record" /\ making'.stage = making.stage
       /\ making'.output = IF out = <<>> THEN 0 ELSE Len(stored')
  <2>1. making \in Makings /\ Len(stored') \in Nat
    BY <1>7, <1>8 DEF ViewShapes
  <2> DEFINE new == IF out = <<>> THEN 0 ELSE Len(stored')
  <2>2. new \in Nat
    BY <2>1
  <2>3. making' = [making EXCEPT !.at = "record", !.output = new]
    BY <1>3
  <2> HIDE DEF new
  <2>4. making' \in Makings /\ making'.at = "record" /\ making'.stage = making.stage
        /\ making'.output = new
    BY <2>1, <2>2, <2>3 DEF Makings
  <2> QED  BY <2>4 DEF new
<1>12. ASSUME making'.output # 0
       PROVE  making'.output > Len(stored) /\ IsOutput(making.output, making.stage)'
  <2>1. Len(out) = 1 /\ out[1].field = s /\ out[1].tagged /\ making'.output = Len(stored')
    BY <1>4, <1>11, <1>12
  <2>2. Len(stored') = Len(both) + 1
    BY <1>8, <2>1
  <2>3. stored'[Len(stored')] = out[1] /\ Len(stored') \in DOMAIN stored'
    BY <1>7, <1>8, <2>1, <2>2
  <2>4. Len(stored') > Len(stored)
    BY <1>5, <1>7, <2>2 DEF old
  <2> QED  BY <2>1, <2>3, <2>4, <1>11 DEF IsOutput
<1> QED  BY <1>5, <1>7, <1>8, <1>10, <1>11, <1>12 DEF old

(* What is stored stays the output of its stage.                            *)
LEMMA OutputStays ==
  ASSUME \A i \in DOMAIN stored : i \in DOMAIN stored' /\ stored'[i] = stored[i],
         NEW a, NEW s, IsOutput(a, s)
  PROVE  IsOutput(a, s)'
BY DEF IsOutput

(* Every step keeps the strengthening.                                      *)
LEMMA ViewsInvStep == ViewsInv /\ [ViewsNext]_viewVars => ViewsInv'
<1> SUFFICES ASSUME ViewsInv, [ViewsNext]_viewVars  PROVE ViewsInv'
  OBVIOUS
<1>0. ViewShapes
  BY DEF ViewsInv
<1>1. ASSUME NEW s \in StageNumbers, BeginStage(s)  PROVE ViewsInv'
  <2>1. UNCHANGED <<outputs, stored>>
    BY <1>1 DEF BeginStage
  <2>2. making' = making \/ making' = [at |-> "store", stage |-> s, output |-> 0]
    BY <1>1 DEF BeginStage
  <2>3. making.at = "idle"
    BY <1>1 DEF BeginStage
  <2>4. making' \in Makings /\ making'.at # "record"
        /\ (making'.at # "idle" => making'.stage \in StageNumbers)
    BY <1>0, <2>2, <2>3 DEF ViewShapes, Makings
  <2> QED  BY <1>0, <2>1, <2>4 DEF ViewsInv, ViewShapes, IsOutput
<1>2. ASSUME NEW s \in StageNumbers, ApproveStage(s) \/ ReplayStage(s)  PROVE ViewsInv'
  <2>1. UNCHANGED <<outputs, stored, making>>
    BY <1>2 DEF ApproveStage, ReplayStage
  <2> QED  BY <2>1 DEF ViewsInv, ViewShapes, IsOutput
<1>3. CASE DropRun \/ LoseRun
  <2>1. UNCHANGED <<outputs, stored>> /\ making' = Resting
    BY <1>3 DEF DropRun, LoseRun
  <2>2. making' \in Makings /\ making'.at = "idle"
    BY <2>1 DEF Resting, Makings
  <2> QED  BY <1>0, <2>1, <2>2 DEF ViewsInv, ViewShapes, IsOutput
<1>4. CASE StoreRun
  <2>1. /\ stored' \in Seq(Artifacts) /\ Len(stored) <= Len(stored')
        /\ \A i \in DOMAIN stored : i \in DOMAIN stored' /\ stored'[i] = stored[i]
        /\ making' \in Makings /\ making'.at = "record" /\ making'.stage = making.stage
        /\ making'.output # 0 =>
             /\ making'.output > Len(stored)
             /\ IsOutput(making.output, making.stage)'
    BY <1>0, <1>4, RunStored
  <2>2. outputs' = outputs /\ making.stage \in StageNumbers
    BY <1>0, <1>4 DEF StoreRun, ViewShapes
  <2>3. ViewShapes'
    BY <1>0, <2>1, <2>2 DEF ViewShapes
  <2>4. \A s \in StageNumbers : \A i \in DOMAIN outputs[s] :
          outputs[s][i] # 0 => IsOutput(outputs[s][i], s)'
    BY <2>1, <2>2, OutputStays DEF ViewsInv
  <2>5. ASSUME making'.output # 0
        PROVE  \A i \in DOMAIN outputs[making.stage] :
                 outputs[making.stage][i] < making'.output
    <3> SUFFICES ASSUME NEW i \in DOMAIN outputs[making.stage]
                 PROVE  outputs[making.stage][i] < making'.output
      OBVIOUS
    <3>1. outputs[making.stage][i] \in Nat /\ Len(stored) \in Nat /\ making'.output \in Nat
      BY <1>0, <2>1, <2>2 DEF ViewShapes, Makings
    <3>2. outputs[making.stage][i] <= Len(stored)
      <4>1. CASE outputs[making.stage][i] # 0
        <5>1. outputs[making.stage][i] \in DOMAIN stored /\ DOMAIN stored = 1..Len(stored)
          BY <1>0, <2>2, <4>1 DEF ViewsInv, IsOutput, ViewShapes
        <5> QED  BY <3>1, <5>1
      <4>2. CASE outputs[making.stage][i] = 0
        BY <3>1, <4>2
      <4> QED  BY <4>1, <4>2
    <3> QED  BY <2>1, <2>5, <3>1, <3>2
  <2> QED  BY <2>1, <2>2, <2>3, <2>4, <2>5 DEF ViewsInv, IsOutput
<1>5. CASE RecordRun
  <2> DEFINE s == making.stage
             new == making.output
  <2>1. s \in StageNumbers /\ new \in Nat /\ making.at = "record"
        /\ outputs' = [outputs EXCEPT ![s] = Append(@, new)]
        /\ making' = Resting /\ stored' = stored
    BY <1>0, <1>5 DEF RecordRun, ViewShapes, Makings
  <2>2. making' \in Makings /\ making'.at = "idle"
    BY <2>1 DEF Resting, Makings
  <2>3. /\ new # 0 => IsOutput(new, s)
        /\ new # 0 => \A i \in DOMAIN outputs[s] : outputs[s][i] < new
    BY <2>1 DEF ViewsInv
  <2> HIDE DEF s, new
  <2>4. outputs[s] \in Seq(Nat) /\ outputs'[s] = Append(outputs[s], new)
        /\ outputs' \in [StageNumbers -> Seq(Nat)]
        /\ \A t \in StageNumbers \ {s} : outputs'[t] = outputs[t]
    BY <1>0, <2>1 DEF ViewShapes
  <2>5. ViewShapes'
    BY <1>0, <2>1, <2>2, <2>4 DEF ViewShapes
  <2>6. DOMAIN outputs'[s] = 1..Len(outputs[s]) + 1 /\ DOMAIN outputs[s] = 1..Len(outputs[s])
        /\ Len(outputs[s]) \in Nat /\ outputs'[s][Len(outputs[s]) + 1] = new
        /\ \A i \in 1..Len(outputs[s]) : outputs'[s][i] = outputs[s][i]
    BY <2>1, <2>4
  <2>7. ASSUME NEW t \in StageNumbers, NEW i \in DOMAIN outputs'[t], outputs'[t][i] # 0
        PROVE  IsOutput(outputs[t][i], t)'
    <3>1. IsOutput(outputs'[t][i], t)
      <4>1. CASE t = s
        BY <2>3, <2>6, <2>7, <4>1 DEF ViewsInv
      <4>2. CASE t # s
        BY <2>4, <2>7, <4>2 DEF ViewsInv
      <4> QED  BY <4>1, <4>2
    <3> QED  BY <2>1, <3>1 DEF IsOutput
  <2>8. ASSUME NEW t \in StageNumbers, NEW i \in DOMAIN outputs'[t],
               NEW j \in DOMAIN outputs'[t], i < j, outputs'[t][j] # 0
        PROVE  outputs'[t][i] < outputs'[t][j]
    <3>1. CASE t # s
      BY <2>4, <2>8, <3>1 DEF ViewsInv
    <3>2. CASE t = s
      <4>1. i \in 1..Len(outputs[s]) /\ j \in 1..Len(outputs[s]) + 1
        BY <2>6, <2>8, <3>2
      <4>2. CASE j = Len(outputs[s]) + 1
        BY <2>3, <2>6, <2>8, <3>2, <4>1, <4>2
      <4>3. CASE j # Len(outputs[s]) + 1
        <5>1. j \in 1..Len(outputs[s])
          BY <2>6, <4>1, <4>3
        <5> QED  BY <2>1, <2>6, <2>8, <3>2, <4>1, <5>1 DEF ViewsInv
      <4> QED  BY <4>2, <4>3
    <3> QED  BY <3>1, <3>2
  <2> QED  BY <2>2, <2>5, <2>7, <2>8 DEF ViewsInv
<1>6. CASE UNCHANGED viewVars
  BY <1>6 DEF viewVars, ViewsInv, ViewShapes, IsOutput
<1> QED  BY <1>1, <1>2, <1>3, <1>4, <1>5, <1>6 DEF ViewsNext

(* The page never shows the copy of a body that a later stage stored as its *)
(* input instead of the body, however runs are lost, dropped or repeated.   *)
THEOREM PageShowsTheOutput == ViewsSpec => []PageShowsOutput
<1>1. ViewsInv => PageShowsOutput
  <2> SUFFICES ASSUME ViewsInv, AllRecorded, NEW s \in 1..LastBody, LatestOutput(s) # 0
               PROVE  PageShows(s) = LatestOutput(s)
    BY DEF PageShowsOutput
  <2> DEFINE last == LatestOutput(s)
             n == Len(outputs[s])
  <2>1. s \in StageNumbers
    BY ViewsAssumption DEF StageNumbers
  <2>2. outputs[s] \in Seq(Nat) /\ stored \in Seq(Artifacts)
    BY <2>1 DEF ViewsInv, ViewShapes
  <2>3. outputs[s] # <<>> /\ last = outputs[s][n]
    BY DEF LatestOutput
  <2>4. n \in DOMAIN outputs[s] /\ n \in Nat /\ DOMAIN outputs[s] = 1..n
    BY <2>2, <2>3
  <2>5. IsOutput(last, s) /\ last \in Nat
    BY <2>1, <2>2, <2>3, <2>4 DEF ViewsInv
  <2>6. last \in OfField(s) /\ stored[last].tagged
    BY <2>5 DEF IsOutput, OfField
  <2>7. ASSUME NEW b \in OfField(s) \ {last}  PROVE PreferArtifact(last, b) /\ ~PreferArtifact(b, last)
    <3>1. b \in DOMAIN stored /\ b \in Nat /\ stored[b] \in Artifacts /\ stored[b].field = s
      BY <2>2 DEF OfField
    <3>2. CASE stored[b].tagged
      <4>1. PICK i \in DOMAIN outputs[s] : outputs[s][i] = b
        BY <3>1, <3>2 DEF AllRecorded
      <4>2. i < n
        BY <2>3, <2>4, <4>1
      <4>3. b < last
        BY <2>1, <2>3, <2>4, <4>1, <4>2 DEF ViewsInv
      <4>4. last > b /\ ~(b > last)
        BY <2>5, <3>1, <4>3
      <4>5. ~(stored[last].tagged # stored[b].tagged)
        BY <2>6, <3>1, <3>2, <2>2 DEF Artifacts, OfField
      <4> QED  BY <4>4, <4>5 DEF PreferArtifact
    <3>3. CASE ~stored[b].tagged
      <4>1. stored[last].tagged # stored[b].tagged
        BY <2>6, <3>3
      <4> QED  BY <2>6, <3>3, <4>1 DEF PreferArtifact
    <3> QED  BY <3>2, <3>3
  <2> HIDE DEF last
  <2>8. PageShows(s) = CHOOSE a \in OfField(s) : \A b \in OfField(s) \ {a} : PreferArtifact(a, b)
    BY <2>6 DEF PageShows
  <2>9. PageShows(s) = last
    BY <2>6, <2>7, <2>8
  <2> QED  BY <2>9 DEF last
<1> QED  BY <1>1, ViewsInvInit, ViewsInvStep, PTL DEF ViewsSpec

(* What the agent may edit is the body that it quotes, in every state of    *)
(* the stages.                                                              *)
THEOREM EditsTheQuoted == ViewsSpec => []EditsWhatItQuotes
<1>1. EditsWhatItQuotes
  <2> SUFFICES ASSUME NEW s \in 1..LastBody, ResolvesTo(s)  PROVE Quoted = LatestOutput(s)
    BY DEF EditsWhatItQuotes
  <2> DEFINE found == {c \in 1..LastBody : StageText(c) # 0}
  <2>1. s \in found /\ StageText(s) = LatestOutput(s)
    BY DEF ResolvesTo, StageText
  <2>2. ASSUME NEW c \in found  PROVE s >= c
    <3> SUFFICES ASSUME ~(s >= c)  PROVE FALSE
      OBVIOUS
    <3>1. c \in s + 1..LastBody
      BY ViewsAssumption
    <3>2. stageStatus[c] \notin {"done", "waiting"} \/ LatestOutput(c) = 0
      BY <3>1 DEF ResolvesTo
    <3> QED  BY <3>2 DEF StageText
  <2>3. found \subseteq Nat
    OBVIOUS
  <2> HIDE DEF found
  <2>4. Max(found) = s
    <3>1. s >= s /\ \A x \in found : x >= s => x = s
      BY <2>1, <2>2, <2>3
    <3> QED  BY <2>1, <2>2, <3>1 DEF Max
  <2>5. Quoted = StageText(Max(found))
    BY <2>1 DEF Quoted, found
  <2> QED  BY <2>1, <2>4, <2>5
<1> QED  BY <1>1, PTL
=============================================================================
