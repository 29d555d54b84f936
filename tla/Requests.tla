------------------------------- MODULE Requests -------------------------------
(****************************************************************************)
(* What the components that serve requests have in common.  A slot is one   *)
(* request being served by some pod: it makes one database or network call  *)
(* per step, between two steps every other slot may run, and call[w] holds  *)
(* what the handler keeps in local variables between its awaits.            *)
(*                                                                          *)
(* world is chosen once.  In a calm world requests wait for each other, no  *)
(* answer is lost and nothing crashes: what a single-user test would see.   *)
(* In a serial world they still wait, but any of them may be cut short.  In *)
(* a racing world they interleave at every await as well.                   *)
(****************************************************************************)
CONSTANT Slots

VARIABLES world, call

Idle == [op |-> "idle"]

Worlds == {"calm", "serial", "racing"}
calm == world = "calm"
serial == world # "racing"

RequestsInit ==
    /\ world \in Worlds
    /\ call = [w \in Slots |-> Idle]

AtRest == \A w \in Slots : call[w] = Idle

\* A request may arrive at slot w.
MayStart(w) ==
    /\ call[w] = Idle
    /\ serial => AtRest

\* The handler in slot w goes on with what it keeps in next.
Continue(w, next) ==
    /\ call' = [call EXCEPT ![w] = next]
    /\ UNCHANGED world

Finish(w) == Continue(w, Idle)

\* The pod dies, a call fails or the answer is lost: the handler is gone.
Crash(w) ==
    /\ ~ calm
    /\ call[w] # Idle
    /\ Finish(w)

\* Nothing of a request changes.
NoRequest == UNCHANGED <<world, call>>
================================================================================
