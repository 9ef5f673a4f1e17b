-------------------------------- MODULE Chat ---------------------------------
(***************************************************************************)
(* One chat with the agent: the messages its user sends, each followed by  *)
(* an exchange that stores it, loads the latest messages, streams a reply  *)
(* from the language model, which is external, and stores it.  Exchanges   *)
(* of one chat run side by side; the chat may be deleted meanwhile.        *)
(***************************************************************************)
EXTENDS Naturals, Sequences

CONSTANTS
  Prompts,        \* the messages the user sends
  Opening,        \* the one the chat was started with
  ContextLength,  \* messages that are loaded, CHAT_CONTEXT_LENGTH
  MaxChatErrors   \* bound: statements that fail

ASSUME ChatAssumption ==
  /\ Opening \notin Prompts
  /\ ContextLength \in Nat \ {0}
  /\ MaxChatErrors \in Nat

VARIABLES
  chat,       \* the row: "none", "open" or "deleted"
  opening,    \* how far startChat is
  messages,   \* the rows of the chat in the order of createdAt
  exchange,   \* Prompts -> how far sendMessageStream is
  context,    \* Prompts -> the messages it has loaded
  reply,      \* Prompts -> the message the model has replied to, if any
  cards,      \* prompts whose cards the client has been sent
  disturbed,  \* history: prompts after which another message was stored before
              \* their context was loaded
  chatErrors  \* statements that have failed so far

chatVars == <<chat, opening, messages, exchange, context, reply, cards,
              disturbed, chatErrors>>

Message == [senderId: {"user", "system"}, prompt: Prompts \cup {Opening}]
FromUser(p) == [senderId |-> "user", prompt |-> p]
FromSystem(p) == [senderId |-> "system", prompt |-> p]

ChatTypeOK ==
  /\ chat \in {"none", "open", "deleted"}
  /\ opening \in {"new", "save", "stored", "failed"}
  /\ messages \in Seq(Message)
  /\ exchange \in [Prompts -> {"new", "save", "load", "stream", "reply", "failed",
                               "abandoned", "unanswered", "answered", "over"}]
  /\ context \in [Prompts -> Seq(Message)]
  /\ reply \in [Prompts -> {<<>>} \cup {<<m>> : m \in Message}]
  /\ cards \subseteq Prompts /\ disturbed \subseteq Prompts
  /\ chatErrors \in 0..MaxChatErrors

ChatInit ==
  /\ chat = "none" /\ opening = "new"
  /\ messages = <<>>
  /\ exchange = [p \in Prompts |-> "new"]
  /\ context = [p \in Prompts |-> <<>>]
  /\ reply = [p \in Prompts |-> <<>>]
  /\ cards = {} /\ disturbed = {}
  /\ chatErrors = 0

ExchangeAt(p, step) == exchange' = [exchange EXCEPT ![p] = step]

ChatError == chatErrors < MaxChatErrors /\ chatErrors' = chatErrors + 1

\* saveMessage; the insert fails when the chat is gone.
SaveMessage(message) ==
  /\ chat = "open"
  /\ messages' = Append(messages, message)
  /\ disturbed' = disturbed \cup {p \in Prompts : exchange[p] = "load"}
  /\ UNCHANGED chatErrors

SaveFails ==
  /\ \/ chat = "deleted" /\ UNCHANGED chatErrors
     \/ ChatError
  /\ UNCHANGED <<messages, disturbed>>

-----------------------------------------------------------------------------

\* startChat: the title falls back to a constant when the model fails.
CreateChat ==
  /\ opening = "new"
  /\ \/ chat' = "open" /\ opening' = "save" /\ UNCHANGED chatErrors
     \/ ChatError /\ opening' = "failed" /\ UNCHANGED chat
  /\ UNCHANGED <<messages, exchange, context, reply, cards, disturbed>>

\* The first message; nobody replies to it.
SaveOpening ==
  /\ opening = "save"
  /\ \/ SaveMessage(FromUser(Opening)) /\ opening' = "stored"
     \/ SaveFails /\ opening' = "failed"
  /\ UNCHANGED <<chat, exchange, context, reply, cards>>

\* deleteSingleChat; the messages lose their chat.
DeleteChat ==
  /\ chat = "open"
  /\ chat' = "deleted"
  /\ messages' = <<>>
  /\ UNCHANGED <<opening, exchange, context, reply, cards, disturbed, chatErrors>>

-----------------------------------------------------------------------------
(* sendMessageStream, one action per await. *)

\* A chat that is gone, or somebody else's, is refused.
FindChat(p) ==
  /\ exchange[p] = "new" /\ chat # "none"
  /\ \/ chat = "open" /\ ExchangeAt(p, "save")
     \/ ExchangeAt(p, "failed")
  /\ UNCHANGED <<chat, opening, messages, context, reply, cards, disturbed,
                 chatErrors>>

\* The client is then told that the bot is typing.
SavePrompt(p) ==
  /\ exchange[p] = "save"
  /\ \/ SaveMessage(FromUser(p)) /\ ExchangeAt(p, "load")
     \/ SaveFails /\ ExchangeAt(p, "failed")
  /\ UNCHANGED <<chat, opening, context, reply, cards>>

\* Faulty variant: the oldest messages are taken.
Earliest(count) == SubSeq(messages, 1, IF Len(messages) < count THEN Len(messages) ELSE count)

\* getMessagesWithCount, oldest first.
Latest(count) ==
  SubSeq(messages, IF Len(messages) < count THEN 1 ELSE Len(messages) - count + 1,
         Len(messages))

\* The preferred language is read before, and may fail to be.  An error here is
\* outside the try block: the client is told nothing more.
LoadContext(p) ==
  /\ exchange[p] = "load"
  /\ \/ /\ context' = [context EXCEPT ![p] = Latest(ContextLength)]
        /\ ExchangeAt(p, "stream")
        /\ UNCHANGED chatErrors
     \/ ChatError /\ ExchangeAt(p, "abandoned") /\ UNCHANGED context
  /\ UNCHANGED <<chat, opening, messages, reply, cards, disturbed>>

\* invokeWithHistoryStream replies to the last message it is given; without
\* one, or when the model fails before its first token, it says so instead.
Stream(p) ==
  /\ exchange[p] = "stream"
  /\ \/ context[p] # <<>> /\ reply' = [reply EXCEPT ![p] = <<context[p][Len(context[p])]>>]
     \/ UNCHANGED reply
  /\ ExchangeAt(p, "reply")
  /\ UNCHANGED <<chat, opening, messages, context, cards, disturbed, chatErrors>>

\* The finally block emits STREAM_END in the same step, with the id of the
\* stored reply or without one; a stored reply is then sent to the room.
SaveReply(p) ==
  /\ exchange[p] = "reply"
  /\ \/ SaveMessage(FromSystem(p)) /\ ExchangeAt(p, "answered")
     \/ SaveFails /\ ExchangeAt(p, "unanswered")
  /\ UNCHANGED <<chat, opening, context, reply, cards>>

\* Nobody waits for the cards: the user may have disabled them, the model may
\* find nothing for a card or fail.
EmitCards(p) ==
  /\ exchange[p] = "answered"
  /\ ExchangeAt(p, "over")
  /\ cards' \in {cards, cards \cup {p}}
  /\ UNCHANGED <<chat, opening, messages, context, reply, disturbed, chatErrors>>

ExchangeStep(p) ==
  SavePrompt(p) \/ LoadContext(p) \/ Stream(p) \/ SaveReply(p)

ChatNext ==
  \/ CreateChat \/ SaveOpening \/ DeleteChat
  \/ \E p \in Prompts : FindChat(p) \/ ExchangeStep(p) \/ EmitCards(p)

\* The event loop runs, the database answers and so does the model: the call
\* has no timeout.
ChatFairness == \A p \in Prompts : WF_chatVars(ExchangeStep(p))

ChatSpec == ChatInit /\ [][ChatNext]_chatVars /\ ChatFairness

-----------------------------------------------------------------------------

\* The exchange ended early, for one of two reasons ...
EndedEarly(p) ==
  /\ exchange[p] \in {"abandoned", "unanswered"}
  /\ chat = "deleted" \/ chatErrors > 0

\* ... or with a reply to that very message, unless the model failed or another
\* message came between.
RepliedTo(p) ==
  /\ exchange[p] \in {"answered", "over"}
  /\ p \in disturbed \/ reply[p] \in {<<>>, <<FromUser(p)>>}

\* sendMessageStream, "Emit stream_end so the client can finalize", and
\* getMessagesWithCount, "messages[messages.length-1] is always the current
\* user message": every message the bot types at is in the end answered, with
\* a reply to that very message unless the model failed or another message
\* came between; or the chat was deleted or a statement failed.
PromptIsAnswered ==
  \A p \in Prompts : exchange[p] = "load" ~> EndedEarly(p) \/ RepliedTo(p)

\* What of it is seen at once: no exchange ends in another way, and the cards
\* of a reply come after the reply was stored.
EndsWell ==
  \A p \in Prompts :
    /\ exchange[p] \in {"abandoned", "unanswered", "answered", "over"} =>
         EndedEarly(p) \/ RepliedTo(p)
    /\ p \in cards => exchange[p] = "over"

=============================================================================
