-------------------------------- MODULE Chat --------------------------------
(***************************************************************************)
(* A chat with the agent, and the one tool of it that changes a document.  *)
(* update_document is entered twice: it reads the document's body, asks    *)
(* for the user's approval and pauses; when the user has decided, the      *)
(* handler appends the decision to the session and resumes the agent,      *)
(* which enters the tool again (server/api/rest/chat.go,                   *)
(* server/core/adk/tools/update_document.go, server/core/adk/runner.go).   *)
(* The edit is UpdateStageArtifactAt (server/core/stage_update.go).        *)
(*                                                                         *)
(* The session service and the runner are libraries: a session is read     *)
(* whole, events are appended to it one by one, and a run without a        *)
(* message enters the tool of the last decision.                           *)
(***************************************************************************)
EXTENDS Naturals, Sequences, FiniteSets

CONSTANTS
  Posts,         \* requests that run the agent: messages and decisions
  NumBodies,     \* stages that make a body, the most polished one last
  MaxWork        \* bound: stages finished or replayed by others

ASSUME ChatAssumption == NumBodies \in Nat \ {0} /\ MaxWork \in Nat /\ IsFiniteSet(Posts)

Bodies == 1..NumBodies

VARIABLES
  chat,        \* "alive"; "gone" when deleted; "bare" when made again by a run
  title,       \* "none", "message" or "user"
  cards,       \* the approvals asked for: [doc stage, text shown], oldest first
  inSession,   \* the cards that the session holds
  decided,     \* the cards with an approval
  job,         \* job[b]: "none", "pending", "empty" (done, no output), "done"
  body,        \* body[b]: the number of a run, or a card whose edit it is
  post,        \* post[p]: [at, untitled, card, stage]
  work,
  raced        \* a request was on its way when the chat was last deleted

chatVars == <<chat, title, cards, inSession, decided, job, body, post, work, raced>>
document == <<job, body>>

MadeBy(n) == [run |-> n, card |-> 0]
EditOf(c) == [run |-> 0, card |-> c]
BodyTexts == [run : 0..MaxWork, card : 0..Cardinality(Posts)]
PostSteps == {"new", "enter", "turn", "title", "decide", "resume", "tool", "save",
              "cascade", "over"}

ChatTypeOK ==
  /\ chat \in {"alive", "bare", "gone"}
  /\ title \in {"none", "message", "user"}
  /\ cards \in Seq([stage : Bodies, text : BodyTexts])
  /\ inSession \subseteq DOMAIN cards /\ decided \subseteq DOMAIN cards
  /\ chat = "gone" => inSession = {}
  /\ job \in [Bodies -> {"none", "pending", "empty", "done"}]
  /\ body \in [Bodies -> BodyTexts]
  /\ \A p \in Posts : /\ post[p].at \in PostSteps
                      /\ post[p].at = "save" => post[p].stage \in Bodies
  /\ work \in 0..MaxWork
  /\ raced \in BOOLEAN

Fresh(at) == [at |-> at, untitled |-> FALSE, card |-> 0, stage |-> 0]

ChatInit ==
  /\ chat = "alive" /\ title = "none"
  /\ cards = <<>> /\ inSession = {} /\ decided = {}
  /\ job = [b \in Bodies |-> IF b = 1 THEN "pending" ELSE "none"]
  /\ body = [b \in Bodies |-> MadeBy(0)]
  /\ post = [p \in Posts |-> Fresh("new")]
  /\ work = 0
  /\ raced = FALSE

-----------------------------------------------------------------------------
PostOver(p) == post' = [post EXCEPT ![p] = Fresh("over")]

PostAt(p, from, to) ==
  /\ post[p].at = from
  /\ IF to = "over" THEN PostOver(p) ELSE post' = [post EXCEPT ![p].at = to]

OnTheWay == \E p \in Posts : post[p].at \notin {"new", "over"}

(* Mutation: a session that is not there is not an error.                   *)
SendAnyway(p) ==
  /\ post[p].at = "new"
  /\ post' = [post EXCEPT ![p].at = "enter", ![p].untitled = (title = "none")]
  /\ UNCHANGED <<chat, title, cards, inSession, decided, document, work, raced>>

(* sendChatMessage reads the session                                        *)
SendMessage(p) ==
  /\ post[p].at = "new" /\ chat # "gone"
  /\ post' = [post EXCEPT ![p].at = "enter", ![p].untitled = (title = "none")]
  /\ UNCHANGED <<chat, title, cards, inSession, decided, document, work, raced>>

(* getOrCreateSession, for a message or to resume                           *)
EnterSession(p) ==
  /\ PostAt(p, "enter", "turn") \/ PostAt(p, "resume", "tool")
  /\ IF chat = "gone" THEN chat' = "bare" /\ title' = "none" ELSE UNCHANGED <<chat, title>>
  /\ UNCHANGED <<cards, inSession, decided, document, work, raced>>

(* ResolveCanonicalBody: the last body that is there, unless a later one is *)
(* being made                                                               *)
Resolves(b) ==
  /\ job[b] = "done"
  /\ \A c \in Bodies : c > b => job[c] \in {"none", "empty"}

(* The model proposes an edit; the run ends at the approval card.           *)
ProposeEdit(p) ==
  /\ PostAt(p, "turn", "title")
  /\ chat # "gone"
  /\ \E b \in Bodies :
       /\ Resolves(b)
       /\ cards' = Append(cards, [stage |-> b, text |-> body[b]])
       /\ inSession' = inSession \cup {Len(cards')}
  /\ UNCHANGED <<chat, title, decided, document, work, raced>>

(* the model answers without an edit, or the tool returns an error to it    *)
AnswerMessage(p) ==
  /\ PostAt(p, "turn", "title")
  /\ chat # "gone"
  /\ UNCHANGED <<chat, title, cards, inSession, decided, document, work, raced>>

(* the run fails: no session to append to, or no model                      *)
RunFails(p) ==
  /\ PostAt(p, "turn", "over") \/ PostAt(p, "tool", "over")
  /\ UNCHANGED <<chat, title, cards, inSession, decided, document, work, raced>>

(* the first message names the chat: by the copy read before the run        *)
TitleFromMessage(p) ==
  /\ PostAt(p, "title", "over")
  /\ title' = IF post[p].untitled /\ chat # "gone" THEN "message" ELSE title
  /\ UNCHANGED <<chat, cards, inSession, decided, document, work, raced>>

-----------------------------------------------------------------------------
(* Mutation: the stage shown is not attached to the decision.               *)
ApproveUnpinned(p) ==
  /\ post[p].at = "new" /\ chat # "gone"
  /\ \E c \in inSession : post' = [post EXCEPT ![p].at = "decide", ![p].card = c]
  /\ UNCHANGED <<chat, title, cards, inSession, decided, document, work, raced>>

(* confirmChatToolCall reads the session, and in it the stage of the card   *)
ApproveCard(p) ==
  /\ post[p].at = "new" /\ chat # "gone"
  /\ \E c \in inSession :
       post' = [post EXCEPT ![p].at = "decide", ![p].card = c, ![p].stage = cards[c].stage]
  /\ UNCHANGED <<chat, title, cards, inSession, decided, document, work, raced>>

(* a rejection is appended as well, but nothing is resumed                  *)
RejectCard(p) ==
  /\ PostAt(p, "new", "over")
  /\ inSession # {}
  /\ UNCHANGED <<chat, title, cards, inSession, decided, document, work, raced>>

AppendDecision(p) ==
  /\ post[p].at = "decide"
  /\ IF chat = "gone"
     THEN PostOver(p) /\ UNCHANGED decided
     ELSE post' = [post EXCEPT ![p].at = "resume"] /\ decided' = decided \cup {post[p].card}
  /\ UNCHANGED <<chat, title, cards, inSession, document, work, raced>>

(* the tool again: the stage of the decision, or else a fresh resolution;   *)
(* its job must be done                                                     *)
EnterTool(p) ==
  /\ post[p].at = "tool"
  /\ LET target == IF post[p].stage # 0 THEN {post[p].stage} ELSE {b \in Bodies : Resolves(b)}
         found == {b \in target : job[b] = "done"}
     IN  post' = [post EXCEPT ![p] =
           IF post[p].card \notin inSession \/ found = {} THEN Fresh("over")
           ELSE [@ EXCEPT !.at = "save", !.stage = CHOOSE b \in found : TRUE]]
  /\ UNCHANGED <<chat, title, cards, inSession, decided, document, work, raced>>

(* the file is overwritten, and the runs read in EnterTool written back     *)
SaveBody(p) ==
  /\ PostAt(p, "save", "cascade")
  /\ body' = [body EXCEPT ![post[p].stage] = EditOf(post[p].card)]
  /\ UNCHANGED <<chat, title, cards, inSession, decided, job, work, raced>>

Repended(b) ==
  [c \in Bodies |-> IF c > b /\ job[c] # "none" THEN "pending" ELSE job[c]]

CascadeFromBody(p) ==
  /\ PostAt(p, "cascade", "over")
  /\ job' = Repended(post[p].stage)
  /\ UNCHANGED <<chat, title, cards, inSession, decided, body, work, raced>>

-----------------------------------------------------------------------------
(* patchChat                                                                *)
RenameChat ==
  /\ chat # "gone" /\ title # "user"
  /\ title' = "user"
  /\ UNCHANGED <<chat, cards, inSession, decided, document, post, work, raced>>

(* Mutation: the events of a deleted chat stay.                             *)
DeleteRowOnly ==
  /\ chat # "gone"
  /\ chat' = "gone"
  /\ raced' = OnTheWay
  /\ UNCHANGED <<title, cards, inSession, decided, document, post, work>>

(* deleteChat                                                               *)
DeleteChat ==
  /\ chat # "gone"
  /\ chat' = "gone" /\ inSession' = {}
  /\ raced' = OnTheWay
  /\ UNCHANGED <<title, cards, decided, document, post, work>>

(* the worker makes a body, or skips its stage; the next stage follows      *)
MakeBody(b) ==
  /\ work < MaxWork /\ work' = work + 1
  /\ job[b] = "pending"
  /\ \E result \in {"done", "empty"} :
       /\ job' = [c \in Bodies |-> CASE c = b -> result
                                     [] c = b + 1 -> "pending"
                                     [] OTHER -> job[c]]
       /\ body' = [body EXCEPT ![b] = IF result = "done" THEN MadeBy(work') ELSE @]
  /\ UNCHANGED <<chat, title, cards, inSession, decided, post, raced>>

(* a user replays a stage                                                   *)
ReplayBody(b) ==
  /\ work < MaxWork /\ work' = work + 1
  /\ job[b] \in {"done", "empty"}
  /\ job' = [Repended(b) EXCEPT ![b] = "pending"]
  /\ UNCHANGED <<chat, title, cards, inSession, decided, body, post, raced>>

ChatNext ==
  \/ \E p \in Posts :
       \/ SendMessage(p) \/ EnterSession(p) \/ ProposeEdit(p) \/ AnswerMessage(p)
       \/ RunFails(p) \/ TitleFromMessage(p)
       \/ ApproveCard(p) \/ RejectCard(p) \/ AppendDecision(p)
       \/ EnterTool(p) \/ SaveBody(p) \/ CascadeFromBody(p)
  \/ RenameChat \/ DeleteChat
  \/ \E b \in Bodies : MakeBody(b) \/ ReplayBody(b)

ChatSpec == ChatInit /\ [][ChatNext]_chatVars

-----------------------------------------------------------------------------
(* Properties                                                               *)

(* A document's body is changed by the agent only after an approval, and in *)
(* the stage whose text the user saw, "even if the canonical body shifted   *)
(* in the meantime" (chat.go:465).                                          *)
OnlyApproved ==
  \A b \in Bodies : body[b].card # 0 =>
    /\ body[b].card \in decided
    /\ cards[body[b].card].stage = b

(* A chat that was deleted does not come back, unless a message was on its  *)
(* way, whose run makes the session again (chat.go:298, runner.go:219).     *)
DeletedStays == chat = "bare" => raced
=============================================================================
