---------------------------- MODULE Conversations ----------------------------
(***************************************************************************)
(* The business partner, app/services/partner.py: chats append to          *)
(* conversations kept in the memory of the process, wait for a reply from  *)
(* a rule or a model, append it, and leave an entry in the business        *)
(* memory with the commit of their request.                                *)
(***************************************************************************)
EXTENDS Integers, Sequences

CONSTANTS
  Chats,      \* requests to POST /partner/chat, each handled once
  Threads,    \* conversation ids
  Engines,    \* "mock", "llm": is OPENAI_API_KEY set? settled at the start
  Window,     \* messages the model sees, 10 in the code
  MaxReboots

ASSUME ConversationAssumption ==
  Engines \subseteq {"mock", "llm"} /\ Window \in Nat \ {0} /\ MaxReboots \in Nat

VARIABLES
  engine,
  thread,     \* _conversations: the messages of each thread, << >> for none
  chat,       \* where each chat is, its thread, and what the model was shown
  remembered, \* committed memory entries: the tool each chat's entry is tagged with
  reboots,
  heard       \* history: the chats that spoke in the thread while this one was open

conversationVars == <<engine, thread, chat, remembered, reboots, heard>>

(* What the words of a message may touch, in the order they are tried.     *)
Topics == <<"greeting", "health_score", "revenue", "low_stock", "customers", "help">>
System == [role |-> "system", chat |-> "nobody"]
Said(role, q) == [role |-> role, chat |-> q]

ConversationInit ==
  /\ engine \in Engines
  /\ thread = [h \in Threads |-> << >>]
  /\ chat = [q \in Chats |-> [at |-> "new", thread |-> "none", tool |-> "none", shown |-> << >>]]
  /\ remembered = [q \in Chats |-> "nothing"]
  /\ reboots = 0
  /\ heard = [q \in Chats |-> {}]
----------------------------------------------------------------------------
(* Faulty: a conversation is begun whenever it is looked for.              *)
ConversationAnew(h) == <<System>>
(* _get_conversation: there from the first message on, never evicted.      *)
Conversation(h) == IF thread[h] = << >> THEN <<System>> ELSE thread[h]

Speak(q, h, messages) ==
  /\ thread' = [thread EXCEPT ![h] = messages]
  /\ heard' = [p \in Chats |-> IF p # q /\ chat[p].at = "reply" /\ chat[p].thread = h
                               THEN heard[p] \cup {q} ELSE heard[p]]

(* _mock_response: the first topic the words touch; a failing stock query  *)
(* passes the message on to the next one.                                  *)
Tools(topics, stockFails) ==
  LET tried == SelectSeq(Topics, LAMBDA t : t \in topics /\ ~(t = "low_stock" /\ stockFails))
  IN  IF tried = << >> THEN "fallback" ELSE tried[1]

(* chat, 96-104, up to the first await.  messages[-10:] loses the system   *)
(* prompt of a long conversation.                                          *)
Ask(q, h) ==
  LET messages == Append(Conversation(h), Said("user", q)) IN
  /\ chat[q].at = "new"
  /\ \E topics \in SUBSET {"greeting", "low_stock"}, fails \in BOOLEAN :
       chat' = [chat EXCEPT ![q] =
         [at |-> "reply", thread |-> h,
          tool |-> IF engine = "llm" THEN "llm" ELSE Tools(topics, fails),
          shown |-> IF engine = "llm"
                    THEN SubSeq(messages, IF Len(messages) > Window THEN Len(messages) - Window + 1
                                          ELSE 1, Len(messages))
                    ELSE << >>]]
  /\ Speak(q, h, messages)
  /\ UNCHANGED <<engine, remembered, reboots>>

(* Faulty: the reply is put right behind the question.                     *)
WithReplySorted(messages, q) ==
  LET i == CHOOSE i \in 1..Len(messages) : messages[i] = Said("user", q)
  IN  SubSeq(messages, 1, i) \o <<Said("assistant", q)>> \o SubSeq(messages, i + 1, Len(messages))
(* 107.                                                                    *)
WithReply(messages, q) == Append(messages, Said("assistant", q))

Reply(q) ==
  /\ chat[q].at = "reply"
  /\ chat' = [chat EXCEPT ![q].at = "remember", ![q].shown = << >>]
  /\ Speak(q, chat[q].thread, WithReply(thread[chat[q].thread], q))
  /\ UNCHANGED <<engine, remembered, reboots>>

(* Faulty: a failed chat is remembered all the same.                       *)
FailsRemembering(q) ==
  /\ chat[q].at = "reply" /\ engine = "llm"
  /\ chat' = [chat EXCEPT ![q].at = "failed"]
  /\ remembered' = [remembered EXCEPT ![q] = chat[q].tool]
  /\ UNCHANGED <<engine, thread, reboots, heard>>
(* The model fails, or langchain is missing: the fallback to the rules     *)
(* subscripts a dict and raises, and the question stays unanswered.        *)
ModelFails(q) ==
  /\ chat[q].at = "reply" /\ engine = "llm"
  /\ chat' = [chat EXCEPT ![q].at = "failed"]
  /\ UNCHANGED <<engine, thread, remembered, reboots, heard>>

(* memory.store and the commit, or its failure: the thread keeps the turn. *)
Remember(q) ==
  /\ chat[q].at = "remember"
  /\ \/ /\ remembered' = [remembered EXCEPT ![q] = chat[q].tool]
        /\ chat' = [chat EXCEPT ![q].at = "done"]
     \/ /\ chat' = [chat EXCEPT ![q].at = "failed"]
        /\ UNCHANGED remembered
  /\ UNCHANGED <<engine, thread, reboots, heard>>

(* A restart forgets every conversation; their ids stay with the clients.  *)
Reboot ==
  /\ reboots < MaxReboots
  /\ reboots' = reboots + 1
  /\ thread' = [h \in Threads |-> << >>]
  /\ chat' = [q \in Chats |-> IF chat[q].at = "new" THEN chat[q] ELSE [chat[q] EXCEPT !.at = "gone"]]
  /\ UNCHANGED <<engine, remembered, heard>>

ConversationNext ==
  \/ Reboot
  \/ \E q \in Chats :
       (\E h \in Threads : Ask(q, h)) \/ Reply(q) \/ ModelFails(q) \/ Remember(q)

ConversationSpec == ConversationInit /\ [][ConversationNext]_conversationVars
----------------------------------------------------------------------------
Positions(h, role, q) == {i \in 1..Len(thread[h]) : thread[h][i] = Said(role, q)}

ConversationTypeOK ==
  /\ engine \in {"mock", "llm"} /\ reboots \in 0..MaxReboots
  /\ \A h \in Threads : \A i \in 1..Len(thread[h]) :
       thread[h][i].role \in {"system", "user", "assistant"}
  /\ \A q \in Chats : chat[q].at \in {"new", "reply", "remember", "done", "failed", "gone"}

(* No turn is lost while the process lives (partner.py:40-51, 99, 107): a  *)
(* chat that asked has its question in the thread, exactly once, and one   *)
(* that was answered its answer, behind one system prompt.                 *)
TurnsAreKept ==
  \A q \in Chats : chat[q].at \notin {"new", "gone"} =>
    LET h == chat[q].thread IN
    /\ thread[h][1] = System
    /\ \E i \in 1..Len(thread[h]) :
         /\ Positions(h, "user", q) = {i}
         /\ chat[q].at \in {"remember", "done"} =>
              \E j \in i + 1 .. Len(thread[h]) : Positions(h, "assistant", q) = {j}

(* Between a question and its answer stand the messages of exactly the     *)
(* chats that spoke while it waited (partner.py:99-107): overlapping turns *)
(* interleave, and no other turn is ever torn apart.                       *)
OnlyOverlapsInterleave ==
  \A h \in Threads : \A q \in Chats :
    \A i \in Positions(h, "user", q), j \in Positions(h, "assistant", q) :
      {thread[h][k].chat : k \in i + 1 .. j - 1} = heard[q]

(* Every entry of the business memory about a chat is about one that was   *)
(* answered: its turn is in the thread, unless the process restarted.      *)
RememberedWereAnswered ==
  \A q \in Chats : remembered[q] # "nothing" =>
    chat[q].at = "gone" \/ Positions(chat[q].thread, "assistant", q) # {}

(* Threads and the memory entries about them agree (partner.py:40-51,      *)
(* 95-125): turns are whole, interleaved only by turns that overlapped.    *)
ThreadsAreCoherent == TurnsAreKept /\ OnlyOverlapsInterleave /\ RememberedWereAnswered
=============================================================================
