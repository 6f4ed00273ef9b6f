-------------------------------- MODULE Calls --------------------------------
(***************************************************************************)
(* What the node client promises its callers: a call ends with an answer   *)
(* only if the node has carried it out, the node carries out a call at     *)
(* most once, and a call that ended as unreachable is never carried out    *)
(* afterwards.  A call that timed out may be.                              *)
(*                                                                         *)
(* There is no actor, stream or request id here.  NodeClient implements    *)
(* this specification; the refinement is stated there.                     *)
(***************************************************************************)
EXTENDS Naturals

CONSTANTS Caller, Nil

VARIABLES
  busy,      \* the callers in a call
  number,    \* number[c]: calls made by c so far
  result,    \* result[c]: how its last call ended, Nil while it runs
  live,      \* calls the node may still carry out
  done       \* calls the node has carried out

callsVars == <<busy, number, result, live, done>>

Init ==
  /\ busy = {}
  /\ number = [c \in Caller |-> 0]
  /\ result = [c \in Caller |-> Nil]
  /\ live = {} /\ done = {}

Current(c) == [caller |-> c, call |-> number[c]]

Begin(c) ==
  /\ c \notin busy
  /\ busy' = busy \cup {c}
  /\ number' = [number EXCEPT ![c] = @ + 1]
  /\ result' = [result EXCEPT ![c] = Nil]
  /\ live' = live \cup {[caller |-> c, call |-> number[c] + 1]}
  /\ UNCHANGED done

\* The node carries out a call, whether its caller still waits or not.
CarryOut(x) ==
  /\ x \in live
  /\ live' = live \ {x}
  /\ done' = done \cup {x}
  /\ UNCHANGED <<busy, number, result>>

\* The caller gets the node's answer to this very call.
Answer(c) ==
  /\ c \in busy /\ Current(c) \in done
  /\ busy' = busy \ {c}
  /\ result' = [result EXCEPT ![c] = result'[c]]
  /\ result'[c].kind \in {"ok", "rpc", "protocol"} /\ result'[c].cmd = Current(c)
  /\ UNCHANGED <<number, live, done>>

GiveUp(c) ==
  /\ c \in busy
  /\ busy' = busy \ {c}
  /\ result' = [result EXCEPT ![c] = [kind |-> "timeout", cmd |-> Nil]]
  /\ UNCHANGED <<number, live, done>>

\* The connection is lost: calls not carried out yet are lost with it, and
\* the callers of calls that are lost, or whose answer is, are told.
Lose(S, C) ==
  /\ S \subseteq live /\ C \subseteq busy
  /\ live' = live \ S
  /\ busy' = busy \ C
  /\ \A c \in C : Current(c) \notin live'
  /\ result' = [c \in Caller |->
                  IF c \in C THEN [kind |-> "unreachable", cmd |-> Nil]
                             ELSE result[c]]
  /\ UNCHANGED <<number, done>>

Next ==
  \/ \E c \in Caller : Begin(c) \/ Answer(c) \/ GiveUp(c)
  \/ \E x \in live : CarryOut(x)
  \/ \E S \in SUBSET live, C \in SUBSET busy : Lose(S, C)

Spec == Init /\ [][Next]_callsVars

=============================================================================
