------------------------- MODULE AssistantHandlers --------------------------
(***************************************************************************)
(* Chat sessions of the research assistant (handlers/chat_session.rs) and  *)
(* the users' AI settings (handlers/user_ai_settings.rs).  None of these   *)
(* handlers looks at who may touch a session.  Each holds the connection   *)
(* throughout; its queries are no transaction, and `cut` says that only    *)
(* the first write was carried out.  Titles, roles, texts and times are    *)
(* left out.                                                               *)
(***************************************************************************)

CONSTANTS
    SessionIds,     \* ids of chat_session
    MessageIds,     \* ids of chat_message
    AiUsers,        \* user ids, the "" of unauthenticated callers among them
    Settings,       \* what the webapp stores for a user
    NoSession, NoSettings   \* no row

ASSUME AssistantAssumption ==
    /\ NoSession \notin SessionIds
    /\ NoSettings \notin Settings
    /\ SessionIds \cap MessageIds = {}

VARIABLES
    sessions,       \* chat_session
    message,        \* chat_message: the session of each, or NoSession
    spent,          \* ids handed out
    aiSettings      \* user_ai_settings, by the unique user id

assistantVars == <<sessions, message, spent, aiSettings>>

AssistantTypeOK ==
    /\ sessions \subseteq SessionIds
    /\ message \in [MessageIds -> SessionIds \cup {NoSession}]
    /\ spent \subseteq SessionIds \cup MessageIds
    /\ aiSettings \in [AiUsers -> Settings \cup {NoSettings}]

AssistantInit ==
    /\ sessions = {}
    /\ message = [m \in MessageIds |-> NoSession]
    /\ spent = {}
    /\ aiSettings = [u \in AiUsers |-> NoSettings]
-----------------------------------------------------------------------------
CreateSession(s) ==
    /\ s \in SessionIds \ spent
    /\ sessions' = sessions \cup {s}
    /\ spent' = spent \cup {s}
    /\ UNCHANGED <<message, aiSettings>>

\* The session must be there.  The second write, its updated_at, is left out.
AppendMessage(s, m) ==
    /\ s \in sessions
    /\ m \in MessageIds \ spent
    /\ message' = [message EXCEPT ![m] = s]
    /\ spent' = spent \cup {m}
    /\ UNCHANGED <<sessions, aiSettings>>

MessagesWithout(s) ==
    [m \in MessageIds |-> IF message[m] = s THEN NoSession ELSE message[m]]

\* Mutant: the session goes before its messages.
SessionThenMessages(s, cut) ==
    /\ sessions' = sessions \ {s}
    /\ message' = IF cut THEN message ELSE MessagesWithout(s)

MessagesThenSession(s, cut) ==
    /\ message' = MessagesWithout(s)
    /\ sessions' = IF cut THEN sessions ELSE sessions \ {s}

DeleteSession(s, cut) ==
    /\ s \in sessions
    /\ MessagesThenSession(s, cut)
    /\ UNCHANGED <<spent, aiSettings>>

\* list_session_messages: what a client reads of a session, or 404.
ListedMessages(s) == {m \in MessageIds : s \in sessions /\ message[m] = s}

UpsertAiSettings(u, v) ==
    /\ aiSettings' = [aiSettings EXCEPT ![u] = v]
    /\ UNCHANGED <<sessions, message, spent>>

\* Without a row there is nothing to do, and the answer is the same.
DeleteAiSettings(u) ==
    /\ aiSettings' = [aiSettings EXCEPT ![u] = NoSettings]
    /\ UNCHANGED <<sessions, message, spent>>

AssistantNext ==
    \/ \E s \in SessionIds :
         \/ CreateSession(s)
         \/ \E m \in MessageIds : AppendMessage(s, m)
         \/ \E cut \in BOOLEAN : DeleteSession(s, cut)
    \/ \E u \in AiUsers :
         \/ \E v \in Settings : UpsertAiSettings(u, v)
         \/ DeleteAiSettings(u)

AssistantSpec == AssistantInit /\ [][AssistantNext]_assistantVars
-----------------------------------------------------------------------------
\* Every stored message can be read, and deleted, through its session: a
\* deletion that is cut off can be repeated (delete_session deletes the messages
\* first), and no append gets in between.
MessagesReachable ==
    \A m \in MessageIds :
        message[m] # NoSession => \E s \in SessionIds : m \in ListedMessages(s)
=============================================================================
