----------------------------- MODULE MCSession -----------------------------
(* Small instances, for model checking, of what a host does with one        *)
(* conversation, with the list of conversations, and with the questions a   *)
(* server asks.  They share no state, so one of them moves in a behavior    *)
(* (part) and the others stay in their initial state.                       *)
EXTENDS ChatCommands, AskUserRemoteTool, ConversationWorkspace, TLC

CONSTANTS o1, o2, A, B, t1, t2, t3

VARIABLE part

-----------------------------------------------------------------------------
(* The hosts and servers of ChatCommands.                                   *)

\* Messages, while the host switches between conversations.
Sending == [commands |-> {"message"}, conversations |-> {A, B}, keys |-> {"k"},
            texts |-> {}, questions |-> {}, runs |-> {}, unstable |-> FALSE]

\* A composer whose user types on while the draft is sent.
Composing == [Sending EXCEPT !.commands = {"composer"}, !.conversations = {A},
                             !.texts = {"text"}, !.unstable = TRUE]

\* Questions that are replaced, withdrawn and asked again while answered.
Answering == [Sending EXCEPT !.commands = {"answer"}, !.questions = {"q1", "q2"}]

\* Runs that end while they are interrupted, and texts, which are not sent as
\* messages are: nothing recognizes the same text again.
Interrupting == [Sending EXCEPT !.commands = {"interrupt", "text"}, !.runs = {"r1", "r2"},
                                !.conversations = {A}]

AllSetups == {Sending, Composing, Answering, Interrupting}

-----------------------------------------------------------------------------
sessionVars == <<part, vars, askVars, wsVars>>

\* What does not move has one initial state.
SessionInit ==
    /\ part \in {"commands", "ask", "workspace"}
    /\ Init /\ (part # "commands" => setup = Sending)
    /\ AskInit
    /\ WsInit /\ (part # "workspace" => existing = {} /\ ~firstSelected)

SessionNext ==
    \/ part = "commands" /\ Next /\ UNCHANGED <<part, askVars, wsVars>>
    \/ part = "ask" /\ AskNext /\ UNCHANGED <<part, vars, wsVars>>
    \/ part = "workspace" /\ WsNext /\ UNCHANGED <<part, vars, askVars>>

SessionSpec == SessionInit /\ [][SessionNext]_sessionVars

\* Calls, tasks, which are also the requests, and conversations are
\* interchangeable.
Symmetry == UNION {Permutations(S) : S \in {Calls, Tasks, Chats}}

=============================================================================
