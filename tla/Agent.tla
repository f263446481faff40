------------------------------- MODULE Agent -------------------------------
(***************************************************************************)
(* MorphikAgent.run (core/agent.py).  One instance, made when the server   *)
(* starts, answers the questions of every user: they share its             *)
(* conversation_history.  A run asks the completion model again and again, *)
(* each time choosing whether a tool may, must or must not be called.      *)
(*                                                                         *)
(* The model behind the run answers as it likes, but calls no tool when    *)
(* the choice is "none", and its context window overflows exactly for the  *)
(* messages that hold a question too long for it.  Switching the default   *)
(* graph, and the texts made from an answer, are left out.                 *)
(***************************************************************************)
EXTENDS Naturals, FiniteSets, Sequences

CONSTANTS Runs,       \* the calls of POST /agent
          Searchers,  \* those that may need or call tools
          Window,     \* how many messages of the history a run sends (10 in the code)
          Keep        \* how many an overflow leaves (6 in the code)

ASSUME AgentAssumption ==
    /\ Searchers \subseteq Runs
    /\ Window \in Nat \ {0} /\ Keep \in Nat \ {0}

VARIABLES history,  \* conversation_history
          run       \* the calls

agentVars == <<history, run>>

MaxIterations == 10
Message == [run : Runs, role : {"user", "assistant"}]
RunPcs  == {"idle", "loop", "answered", "overflowed", "failed"}
RunType == [pc : RunPcs, big : BOOLEAN, requires : BOOLEAN, sent : SUBSET Message,
            choice : {"auto", "required", "none"}, iteration : 0..MaxIterations,
            tooled : BOOLEAN, found : BOOLEAN]

\* The last n messages.
Newest(s, n) == IF Len(s) > n THEN SubSeq(s, Len(s) - n + 1, Len(s)) ELSE s
Messages(s)  == {s[i] : i \in DOMAIN s}

\* Variant with a fault: the whole history is sent.
AllSent(s) == s

\* history_window.
Sent(s) == Newest(s, Window)

\* The question joins the history, and the newest messages are what is sent.
\* _requires_tool_usage reads the words of the question.
AskAgent(r) ==
    /\ run[r].pc = "idle"
    /\ history' = Append(history, [run |-> r, role |-> "user"])
    /\ \E big \in BOOLEAN, requires \in IF r \in Searchers THEN BOOLEAN ELSE {FALSE} :
          run' = [run EXCEPT ![r] =
             [@ EXCEPT !.pc = "loop", !.big = big, !.requires = requires,
                       !.sent = Messages(Sent(history')),
                       !.choice = IF requires THEN "required" ELSE "auto"]]

\* A completion request may be sent.
MaySend(r) == run[r].pc = "loop" /\ run[r].iteration < MaxIterations

\* Some message sent is too long for the model.
TooLong(r) == \E m \in run[r].sent : m.role = "user" /\ run[m.run].big

\* ContextWindowExceededError: only the newest messages are kept.
Overflow(r) ==
    /\ MaySend(r) /\ TooLong(r)
    /\ history' = Newest(history, Keep)
    /\ run' = [run EXCEPT ![r].pc = "overflowed", ![r].iteration = @ + 1]

\* Another error: a request that required a tool is sent again without.
CompletionError(r) ==
    /\ MaySend(r) /\ ~ TooLong(r)
    /\ run' = [run EXCEPT ![r] =
          [@ EXCEPT !.iteration = run[r].iteration + 1,
                    !.pc = IF run[r].choice = "required" THEN "loop" ELSE "failed",
                    !.choice = "auto"]]
    /\ UNCHANGED history

\* From the third request on, results end the search; from the fifth, anything does.
Synthesis(iteration, found) == iteration >= 3 /\ (found \/ iteration >= 5)

\* A tool is called; its result reads like a finding, or not.  Three results in
\* a row that read like errors set the choice to "none", which changes nothing:
\* the end of the loop body sets it again.
CallTool(r) ==
    /\ MaySend(r) /\ ~ TooLong(r)
    /\ r \in Searchers /\ run[r].choice # "none"
    /\ \E finding \in BOOLEAN :
          LET found == run[r].found \/ finding
          IN run' = [run EXCEPT ![r] =
                [@ EXCEPT !.iteration = run[r].iteration + 1, !.tooled = TRUE, !.found = found,
                          !.choice = IF Synthesis(run[r].iteration + 1, found) THEN "none" ELSE "auto"]]
    /\ UNCHANGED history

\* An answer without a tool, although the question needs one: once, it is refused.
DemandTool(r) ==
    /\ MaySend(r) /\ ~ TooLong(r)
    /\ run[r].requires /\ ~ run[r].tooled /\ run[r].iteration = 0
    /\ run' = [run EXCEPT ![r].iteration = @ + 1, ![r].choice = "required"]
    /\ UNCHANGED history

\* The final answer joins the history.
AnswerRun(r) ==
    /\ MaySend(r) /\ ~ TooLong(r)
    /\ ~ (run[r].requires /\ ~ run[r].tooled /\ run[r].iteration = 0)
    /\ history' = Append(history, [run |-> r, role |-> "assistant"])
    /\ run' = [run EXCEPT ![r].pc = "answered", ![r].iteration = @ + 1]

-----------------------------------------------------------------------------
AgentInit ==
    /\ history = <<>>
    /\ run = [r \in Runs |->
          [pc |-> "idle", big |-> FALSE, requires |-> FALSE, sent |-> {}, choice |-> "auto",
           iteration |-> 0, tooled |-> FALSE, found |-> FALSE]]

AgentNext ==
    \E r \in Runs :
        \/ AskAgent(r) \/ Overflow(r) \/ CompletionError(r)
        \/ CallTool(r) \/ DemandTool(r) \/ AnswerRun(r)

AgentSpec == AgentInit /\ [][AgentNext]_agentVars

AgentTypeOK ==
    /\ history \in Seq(Message)
    /\ run \in [Runs -> RunType]

\* A run sends at most six requests, whatever its tools return, and therefore
\* never gives up at max_iterations: from the fifth request on no tool may be
\* called, a required tool is demanded once and given up after one error
\* (the loop of run).
AgentStopsBySix == \A r \in Runs : run[r].iteration <= 6

\* A question too long for the model makes fewer later runs fail than the
\* window holds messages, whichever runs are under way when it is asked and
\* whether they answer or fail: it leaves the window that all users share
\* (history_window, and the cut of conversation_history).
OversizedFades ==
    \A r \in Runs :
        Cardinality({s \in Runs \ {r} : run[s].pc = "overflowed" /\ run[r].big
                                        /\ [run |-> r, role |-> "user"] \in run[s].sent}) < Window

\* Neither one run nor one question keeps the agent busy or useless for ever.
AgentRecovers == AgentStopsBySix /\ OversizedFades
=============================================================================
