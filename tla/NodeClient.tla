---------------------------- MODULE NodeClient ----------------------------
(***************************************************************************)
(* The node client (src/node.rs): callers hand commands to one actor, the  *)
(* actor multiplexes them over one message stream and pairs the responses  *)
(* with the callers by request id.  A caller gives up when its timeout     *)
(* fires; the actor reconnects when the stream breaks and then counts its  *)
(* request ids from 1 again.                                               *)
(*                                                                         *)
(* A command is the pair of its caller and the number of the call; the     *)
(* number stands for the oneshot channel the reply goes to.                *)
(***************************************************************************)
EXTENDS Naturals, Sequences, FiniteSets, Functions

CONSTANTS
  Caller,
  CMD_QUEUE,       \* capacity of the command and of the request channel
  RECONNECT_MAX,   \* cap of the backoff, in units of its first value
  Body,            \* what a response of the node may hold, see BodyKinds
  MaxCalls,        \* bound on the calls each caller makes
  MaxGeneration,   \* bound on the connections that may break
  Nil

BodyKinds == {"reply", "rpc_error", "other_variant", "empty"}

ASSUME ClientAssumption ==
  /\ Body \subseteq BodyKinds
  /\ {CMD_QUEUE, RECONNECT_MAX} \subseteq Nat \ {0}
  /\ {MaxCalls, MaxGeneration} \subseteq Nat

VARIABLES
  stage,      \* stage[c]: where caller c is in call
  calls,      \* calls[c]: calls made by c so far
  outcome,    \* outcome[c]: how its last call ended
  cmds,       \* the command channel
  actor,      \* where the actor is
  backoff,
  generation,
  held,       \* the command the serve loop is sending, Nil if none
  pending,    \* request id -> command
  next_id,
  up,         \* the transport still takes requests
  out,        \* the request channel
  working,    \* requests the node has read and not answered
  responses,  \* the response stream
  taken       \* history: the commands the node has read

callerVars == <<stage, calls, outcome>>
actorVars == <<actor, backoff, generation, held, pending, next_id>>
streamVars == <<up, out, working, responses, taken>>
vars == <<callerVars, cmds, actorVars, streamVars>>

Command == [caller : Caller, call : 1..MaxCalls]
ASSUME NilAssumption == Nil \notin Command

Request == [id : Nat, cmd : Command]
Eof == [id |-> 0, cmd |-> Nil, body |-> "eof"]
Pushed == [id |-> 0, cmd |-> Nil, body |-> "notification"]

Response == [id : Nat, cmd : Command, body : Body] \cup {Eof, Pushed}

Outcome == [kind : {"ok", "rpc", "protocol", "timeout", "unreachable"},
            cmd : Command \cup {Nil}]

NoPending == [i \in {} |-> Nil]

----------------------------------------------------------------------------
(* Callers *)

\* The command of the call that c is making, or made last.
OwnCmd(c) == [caller |-> c, call |-> calls[c]]

\* The caller is still there to take the reply of this command.
Awaits(cmd) == stage[cmd.caller] = "wait" /\ calls[cmd.caller] = cmd.call

\* reply.send for every command of a set: a caller that has gone away has
\* dropped its end.
Reply(S, result) ==
  /\ stage' = [c \in Caller |-> IF \E x \in S : x.caller = c /\ Awaits(x)
                                THEN "idle" ELSE stage[c]]
  /\ outcome' = [c \in Caller |-> IF \E x \in S : x.caller = c /\ Awaits(x)
                                  THEN result ELSE outcome[c]]
  /\ UNCHANGED calls

\* What a method returns for the payload it gets.
rpc_method(resp) ==
  CASE resp.body = "reply" -> [kind |-> "ok", cmd |-> resp.cmd]
    [] resp.body = "rpc_error" -> [kind |-> "rpc", cmd |-> resp.cmd]
    [] OTHER -> [kind |-> "protocol", cmd |-> resp.cmd]

Failed(kind) == [kind |-> kind, cmd |-> Nil]

Call(c) ==
  /\ stage[c] = "idle" /\ calls[c] < MaxCalls
  /\ stage' = [stage EXCEPT ![c] = "send"]
  /\ calls' = [calls EXCEPT ![c] = @ + 1]
  /\ outcome' = [outcome EXCEPT ![c] = Nil]
  /\ UNCHANGED <<cmds, actorVars, streamVars>>

\* The send to the command channel waits for room; only then does the timeout
\* start.
Enqueue(c) ==
  /\ stage[c] = "send" /\ Len(cmds) < CMD_QUEUE
  /\ cmds' = Append(cmds, OwnCmd(c))
  /\ stage' = [stage EXCEPT ![c] = "wait"]
  /\ UNCHANGED <<calls, outcome, actorVars, streamVars>>

\* Times out only while the queue is not being served.
MutTimeOut(c) ==
  /\ stage[c] = "wait" /\ actor # "serve"
  /\ stage' = [stage EXCEPT ![c] = "idle"]
  /\ outcome' = [outcome EXCEPT ![c] = Failed("timeout")]
  /\ UNCHANGED <<calls, cmds, actorVars, streamVars>>

TimeOut(c) ==
  /\ stage[c] = "wait"
  /\ stage' = [stage EXCEPT ![c] = "idle"]
  /\ outcome' = [outcome EXCEPT ![c] = Failed("timeout")]
  /\ UNCHANGED <<calls, cmds, actorVars, streamVars>>

----------------------------------------------------------------------------
(* actor: connecting *)

\* Doubles without the cap.
MutNextBackoff(b) == 2 * b

NextBackoff(b) == IF 2 * b < RECONNECT_MAX THEN 2 * b ELSE RECONNECT_MAX

\* A failed connect fails the queued callers and sleeps.
ConnectFails ==
  /\ actor = "connect"
  /\ Reply(Range(cmds), Failed("unreachable"))
  /\ cmds' = <<>>
  /\ actor' = "sleep"
  /\ UNCHANGED <<backoff, generation, held, pending, next_id, streamVars>>

Wake ==
  /\ actor = "sleep"
  /\ actor' = "connect"
  /\ backoff' = NextBackoff(backoff)
  /\ UNCHANGED <<callerVars, cmds, generation, held, pending, next_id, streamVars>>

ConnectOk ==
  /\ actor = "connect" /\ generation <= MaxGeneration
  /\ actor' = "open"
  /\ backoff' = 1
  /\ generation' = generation + 1
  /\ UNCHANGED <<callerVars, cmds, held, pending, next_id, streamVars>>

----------------------------------------------------------------------------
(* serve: one connection *)

\* The message stream opens with a request channel, a pending table and ids
\* of its own, or serve returns to the connect loop.
OpenStream ==
  /\ actor = "open"
  /\ \/ /\ actor' = "serve"
        /\ up' = TRUE /\ out' = <<>> /\ working' = {} /\ responses' = <<>>
        /\ pending' = NoPending /\ next_id' = 1
        /\ UNCHANGED taken
     \/ /\ actor' = "connect" /\ generation <= MaxGeneration
        /\ UNCHANGED <<streamVars, pending, next_id>>
  /\ UNCHANGED <<callerVars, cmds, backoff, generation, held>>

TakeCmd ==
  /\ actor = "serve" /\ held = Nil /\ cmds # <<>>
  /\ held' = Head(cmds)
  /\ cmds' = Tail(cmds)
  /\ UNCHANGED <<callerVars, actor, backoff, generation, pending, next_id, streamVars>>

\* Numbers a request by the size of the pending table.
MutRequestId == Cardinality(DOMAIN pending) + 1

RequestId == next_id

\* The send to the request channel waits for room, and the loop with it.
SendRequest ==
  /\ actor = "serve" /\ held # Nil /\ up /\ Len(out) < CMD_QUEUE
  /\ out' = Append(out, [id |-> RequestId, cmd |-> held])
  /\ pending' = [i \in DOMAIN pending \cup {RequestId} |->
                   IF i = RequestId THEN held ELSE pending[i]]
  /\ next_id' = next_id + 1
  /\ held' = Nil
  /\ UNCHANGED <<callerVars, cmds, actor, backoff, generation, up, working, responses,
                 taken>>

\* Fails only the command in hand.
MutFailAll(also) == also

fail_all(also) == Range(pending) \cup also

\* Queues a pending command again, for the next stream.
MutStreamLost(also) ==
  /\ Reply(fail_all(also), Failed("unreachable"))
  /\ pending' = NoPending /\ next_id' = 1
  /\ held' = Nil
  /\ actor' = "connect"
  /\ up' = FALSE /\ out' = <<>> /\ working' = {} /\ responses' = <<>>
  /\ \E x \in fail_all(also) : cmds' = IF cmds = <<>> THEN <<x>> ELSE cmds
  /\ UNCHANGED <<backoff, generation, taken>>

\* Every caller is failed, and serve returns to the connect loop without a
\* sleep; what was left of the stream is dropped with it.
StreamLost(also) ==
  /\ Reply(fail_all(also), Failed("unreachable"))
  /\ pending' = NoPending /\ next_id' = 1
  /\ held' = Nil
  /\ actor' = "connect"
  /\ up' = FALSE /\ out' = <<>> /\ working' = {} /\ responses' = <<>>
  /\ UNCHANGED <<cmds, backoff, generation, taken>>

SendFails ==
  /\ actor = "serve" /\ held # Nil /\ ~up
  /\ StreamLost({held})

\* Drops a pending entry only if its caller still waits.
MutAnswered(id) == {i \in DOMAIN pending : i = id /\ Awaits(pending[i])}

Answered(id) == {i \in DOMAIN pending : i = id}

\* route: the response goes to the caller its id was given to; a push and a
\* response nobody waits for do not touch the pending table.
Route ==
  /\ actor = "serve" /\ held = Nil
  /\ responses # <<>> /\ Head(responses) # Eof
  /\ LET resp == Head(responses)
         ids  == Answered(resp.id)
     IN /\ Reply({pending[i] : i \in ids}, rpc_method(resp))
        /\ pending' = [i \in DOMAIN pending \ ids |-> pending[i]]
  /\ responses' = Tail(responses)
  /\ UNCHANGED <<cmds, actor, backoff, generation, held, next_id, up, out, working,
                 taken>>

StreamEnds ==
  /\ actor = "serve" /\ held = Nil
  /\ responses # <<>> /\ Head(responses) = Eof
  /\ StreamLost({})

----------------------------------------------------------------------------
(* The node, at the other end of the stream *)

NodeReads ==
  /\ up /\ out # <<>>
  /\ working' = working \cup {Head(out)}
  /\ out' = Tail(out)
  /\ taken' = taken \cup {Head(out).cmd}
  /\ UNCHANGED <<callerVars, cmds, actorVars, up, responses>>

\* Answers come in any order; not every request gets one.
NodeAnswers ==
  /\ up
  /\ \E r \in working, b \in Body :
       /\ working' = working \ {r}
       /\ responses' = Append(responses, [id |-> r.id, cmd |-> r.cmd, body |-> b])
  /\ UNCHANGED <<callerVars, cmds, actorVars, up, out, taken>>

NodePushes ==
  /\ up /\ actor = "serve" /\ Pushed \notin Range(responses)
  /\ responses' = Append(responses, Pushed)
  /\ UNCHANGED <<callerVars, cmds, actorVars, up, out, working, taken>>

StreamBreaks ==
  /\ up /\ actor = "serve" /\ generation <= MaxGeneration
  /\ up' = FALSE
  /\ out' = <<>> /\ working' = {}
  /\ responses' = Append(responses, Eof)
  /\ UNCHANGED <<callerVars, cmds, actorVars, taken>>

----------------------------------------------------------------------------

Init ==
  /\ stage = [c \in Caller |-> "idle"]
  /\ calls = [c \in Caller |-> 0]
  /\ outcome = [c \in Caller |-> Nil]
  /\ cmds = <<>>
  /\ actor = "connect" /\ backoff = 1 /\ generation = 0
  /\ held = Nil /\ pending = NoPending /\ next_id = 1
  /\ up = FALSE /\ out = <<>> /\ working = {} /\ responses = <<>>
  /\ taken = {}

Actor ==
  \/ ConnectFails \/ Wake \/ ConnectOk \/ OpenStream
  \/ TakeCmd \/ SendRequest \/ SendFails \/ Route \/ StreamEnds

Next ==
  \/ \E c \in Caller : Call(c) \/ Enqueue(c) \/ TimeOut(c)
  \/ Actor
  \/ NodeReads \/ NodeAnswers \/ NodePushes \/ StreamBreaks

Spec == Init /\ [][Next]_vars

\* The runtime runs the callers' timers and the actor.  A caller waiting for
\* room in the channel is served in its turn (the channel is first come, first
\* served), and a stream of responses does not keep the serve loop from its
\* commands (select! picks a ready branch at random).
StalledSpec ==
  /\ Spec
  /\ \A c \in Caller : WF_vars(TimeOut(c)) /\ SF_vars(Enqueue(c))
  /\ WF_vars(Actor) /\ WF_vars(TakeCmd)

\* The node may be slow to answer, or never answer, but it reads what is sent.
FairSpec == StalledSpec /\ WF_vars(NodeReads)

----------------------------------------------------------------------------
(* Properties *)

\* Every variable has its type and both channels keep to their capacity.
TypeOK ==
  /\ stage \in [Caller -> {"idle", "send", "wait"}]
  /\ calls \in [Caller -> 0..MaxCalls]
  /\ outcome \in [Caller -> Outcome \cup {Nil}]
  /\ cmds \in Seq(Command) /\ Len(cmds) <= CMD_QUEUE
  /\ actor \in {"connect", "sleep", "open", "serve"}
  /\ backoff \in 1..RECONNECT_MAX /\ generation \in Nat
  /\ held \in Command \cup {Nil}
  /\ DOMAIN pending \subseteq 1..(next_id - 1) /\ Range(pending) \subseteq Command
  /\ next_id \in Nat \ {0}
  /\ up \in BOOLEAN
  /\ out \in Seq(Request) /\ Len(out) <= CMD_QUEUE
  /\ working \subseteq Request /\ responses \in Seq(Response)
  /\ taken \subseteq Command

\* A caller only ever gets the response to the call it is making: late
\* responses, ids reused by the next stream and timed-out calls never put
\* another caller's, or an earlier call's, response in its hands.
AnswersOwnCall ==
  \A c \in Caller :
    outcome[c] # Nil /\ outcome[c].cmd # Nil =>
      outcome[c].cmd = OwnCmd(c)

\* A caller that waits is known to the actor: its command is queued, being
\* sent, or pending on the live stream, so that a response or the end of the
\* stream reaches it.
NoOrphanedCaller ==
  \A c \in Caller :
    stage[c] = "wait" =>
      \/ OwnCmd(c) \in Range(cmds) \/ OwnCmd(c) = held
      \/ actor = "serve" /\ OwnCmd(c) \in Range(pending)

\* A pending entry stands for a request the node still has or has answered on
\* this stream: entries of callers that timed out go when the late response
\* comes, so the table does not grow beyond what the node owes.
PendingIsOwed ==
  up => \A i \in DOMAIN pending :
          \E r \in Range(out) \cup working \cup Range(responses) :
            r.id = i /\ r.cmd = pending[i]

\* Every call ends: the node timeout is "per-request" (README.md:62).
EveryCallEnds == \A c \in Caller : stage[c] # "idle" ~> stage[c] = "idle"

----------------------------------------------------------------------------
(* What the client implements *)

InCall == {c \in Caller : stage[c] # "idle"}

\* The commands that can still reach the node.
Unsent ==
  {OwnCmd(c) : c \in {d \in Caller : stage[d] = "send"}}
    \cup Range(cmds) \cup ({held} \ {Nil}) \cup {r.cmd : r \in Range(out)}

Abstract == INSTANCE Calls WITH
              busy <- InCall, number <- calls, result <- outcome,
              live <- Unsent, done <- taken

\* The callers, the actor and the stream implement Calls: through timeouts,
\* reconnects and late answers a command reaches the node at most once, an
\* answer is the node's answer to this very call, and a command whose caller
\* was told "connection to node lost" (node.rs:390) is not sent later.
ImplementsCalls == Abstract!Spec

=============================================================================
