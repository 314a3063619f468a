------------------------------ MODULE LangGraph ------------------------------
(***************************************************************************)
(* The checkpoints of the legacy backend's agent graphs, as its routers    *)
(* use langgraph.                                                          *)
(*                                                                         *)
(* A router's handler is an `async def' that calls graph.invoke without    *)
(* awaiting: the event loop runs nothing else until the graph has ended,   *)
(* has been suspended before a node of interrupt_before, or has raised.    *)
(* A request is therefore one step, and what several requests race for is  *)
(* the checkpoint between them.  A node is an operator from a state to the *)
(* set of the states it may return: what a language model or a service     *)
(* answers is any answer it may give.                                      *)
(*                                                                         *)
(*   invoke(initial)     runs from the entry point, whatever the           *)
(*                       checkpoint of that thread says;                   *)
(*   update_state(as_node=N), then invoke(None)                            *)
(*                       runs from the successor of N, whether or not the  *)
(*                       thread was suspended before N;                    *)
(*   invoke(None)        on a thread that has ended does nothing.          *)
(*                                                                         *)
(* The checkpointers are MemorySaver objects and the stores dictionaries:  *)
(* a restart of the process forgets them all and is a new behaviour.       *)
(***************************************************************************)
EXTENDS Naturals, Sequences, FiniteSets

CONSTANTS Thread,      \* thread identifiers (uuid4)
          Mixes        \* bound: the sets of parts one behaviour may use

VARIABLES thread,      \* the checkpoints
          parts        \* bound: the parts this behaviour uses

graphVars == <<thread, parts>>

None == "none"
END == "END"
Unborn == [kind |-> "unborn"]

Kind(t) == thread[t].kind
State(t) == thread[t].state
Of(kind) == {t \in Thread : Kind(t) = kind}

GraphInit == /\ thread = [t \in Thread |-> Unborn]
             /\ parts \in Mixes

\* bound: parts that share no state are not explored together.
Touch(part) == part \in parts /\ UNCHANGED parts

\* A request about to draw a fresh identifier.
Fresh(t, kind) == Kind(t) = "unborn" /\ kind \in parts

\* Its graph ran up to `next'; a client that was answered with an error never learns the
\* identifier.
Create(t, kind, next, state, told) ==
    /\ Touch(kind)
    /\ thread' = [thread EXCEPT ![t] =
                    [kind |-> kind, next |-> next, state |-> state, told |-> told]]

\* A request that names a thread it was told of.
Told(t, kind) == Kind(t) = kind /\ thread[t].told

Resume(t, next, state) ==
    /\ thread' = [thread EXCEPT ![t].next = next, ![t].state = state]
    /\ UNCHANGED parts

\* The states a node may reach from a set of states.
Then(states, Node(_)) == UNION {Node(s) : s \in states}

\* "awaiting" is the None of hitl_approved and its like.
Verdict(approved) == IF approved THEN "approved" ELSE "rejected"
=============================================================================
