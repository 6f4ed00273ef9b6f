-------------------------- MODULE NodeClientProofs --------------------------
(***************************************************************************)
(* Proofs about NodeClient, for every number of callers, of calls and of   *)
(* connections and every capacity of the channels: what a caller is handed *)
(* is the answer to its own call, no waiting caller is lost, and the       *)
(* client implements Calls.                                                *)
(*                                                                         *)
(* ClientInv adds to the type invariant what the actor's bookkeeping keeps *)
(* to: ids of the live stream are below next_id and name one command each, *)
(* a command is in one place on its way to the node, and nothing of a      *)
(* stream outlives it.                                                     *)
(***************************************************************************)
EXTENDS NodeClient, TLAPS

\* Between two streams nothing of the old one is left.
NoStream ==
  /\ held = Nil /\ pending = NoPending
  /\ up = FALSE /\ out = <<>> /\ working = {} /\ responses = <<>>

\* The messages of the stream, in either direction.
OnStream == Range(out) \cup working \cup Range(responses)

\* An id was given out on this stream, and as long as it is pending it means
\* one command.
IdsMatch ==
  \A r \in OnStream : r.id < next_id /\ (r.id \in DOMAIN pending => r.cmd = pending[r.id])

Once(s) == \A i, j \in DOMAIN s : s[i] = s[j] => i = j

OnceCmd(s) == \A i, j \in DOMAIN s : s[i].cmd = s[j].cmd => i = j

\* No command is in two places on its way to the node or comes by twice.
OnceEach ==
  /\ Once(cmds) /\ OnceCmd(out)
  /\ held \notin Range(cmds)
  /\ \A r \in Range(out) : r.cmd \notin Range(cmds) /\ r.cmd # held
  /\ \A x \in taken : /\ x \notin Range(cmds) /\ x # held
                      /\ \A r \in Range(out) : r.cmd # x
  /\ \A i \in DOMAIN pending : pending[i] \notin Range(cmds) /\ pending[i] # held

\* All commands known to the actor or the node.
Known ==
  Range(cmds) \cup ({held} \ {Nil}) \cup {r.cmd : r \in Range(out)}
    \cup Range(pending) \cup taken

\* A known command was issued, and one that is still to be queued is not known.
IssuedOnce ==
  /\ \A x \in Known : x.call <= calls[x.caller]
  /\ \A c \in Caller : stage[c] = "send" => OwnCmd(c) \notin Known
  /\ \A c \in Caller : stage[c] # "idle" => calls[c] > 0

\* What the node works on or has answered it has read.
ReadFirst ==
  \A r \in working \cup Range(responses) : r.cmd # Nil => r.cmd \in taken

ClientInv ==
  /\ TypeOK
  /\ actor # "serve" => NoStream
  /\ IdsMatch /\ OnceEach /\ IssuedOnce /\ ReadFirst
  /\ AnswersOwnCall /\ NoOrphanedCaller

----------------------------------------------------------------------------
(* Sequences *)

\* What Append adds.
LEMMA AppendFacts ==
  ASSUME NEW S, NEW s \in Seq(S), NEW x \in S
  PROVE  /\ Append(s, x) \in Seq(S) /\ Len(Append(s, x)) = Len(s) + 1
         /\ Range(Append(s, x)) = Range(s) \cup {x}
         /\ Once(s) /\ x \notin Range(s) => Once(Append(s, x))
         /\ OnceCmd(s) /\ (\A y \in Range(s) : y.cmd # x.cmd) => OnceCmd(Append(s, x))
  <1> DEFINE t == Append(s, x)
  <1>1. /\ t \in Seq(S) /\ Len(t) = Len(s) + 1 /\ DOMAIN t = 1 .. Len(s) + 1
        /\ DOMAIN s = 1 .. Len(s) /\ Len(s) \in Nat
        /\ t[Len(s) + 1] = x /\ \A i \in 1 .. Len(s) : t[i] = s[i]
    OBVIOUS
  <1> HIDE DEF t
  <1>2. Range(t) = Range(s) \cup {x}
    <2>1. \A i \in DOMAIN t : t[i] \in Range(s) \cup {x} BY <1>1 DEF Range
    <2>2. \A i \in DOMAIN s : s[i] \in Range(t) BY <1>1 DEF Range
    <2>3. x \in Range(t) BY <1>1 DEF Range
    <2> QED BY <2>1, <2>2, <2>3 DEF Range
  <1>3. Once(s) /\ x \notin Range(s) => Once(t) BY <1>1 DEF Once, Range
  <1>4. OnceCmd(s) /\ (\A y \in Range(s) : y.cmd # x.cmd) => OnceCmd(t)
    BY <1>1 DEF OnceCmd, Range
  <1> QED BY <1>1, <1>2, <1>3, <1>4 DEF t

\* What Tail leaves.
LEMMA TailFacts ==
  ASSUME NEW S, NEW s \in Seq(S), s # <<>>
  PROVE  /\ Head(s) \in S /\ Tail(s) \in Seq(S) /\ Len(Tail(s)) <= Len(s)
         /\ Range(s) = {Head(s)} \cup Range(Tail(s))
         /\ Once(s) => Once(Tail(s)) /\ Head(s) \notin Range(Tail(s))
         /\ OnceCmd(s) => /\ OnceCmd(Tail(s))
                          /\ \A y \in Range(Tail(s)) : y.cmd # Head(s).cmd
  <1> DEFINE t == Tail(s)
             h == Head(s)
  <1>1. /\ t \in Seq(S) /\ Len(s) \in Nat \ {0} /\ Len(t) = Len(s) - 1
        /\ DOMAIN t = 1 .. Len(s) - 1 /\ DOMAIN s = 1 .. Len(s)
        /\ h = s[1] /\ h \in S
        /\ \A i \in 1 .. Len(s) - 1 : t[i] = s[i + 1]
    OBVIOUS
  <1> HIDE DEF t, h
  <1>2. Range(s) = {h} \cup Range(t)
    <2>1. ASSUME NEW i \in DOMAIN s PROVE s[i] \in {h} \cup Range(t)
      <3>1. CASE i = 1 BY <1>1, <3>1
      <3>2. CASE i # 1
        <4>1. i - 1 \in DOMAIN t /\ t[i - 1] = s[i] BY <1>1, <3>2
        <4> QED BY <4>1 DEF Range
      <3> QED BY <3>1, <3>2
    <2>2. \A i \in DOMAIN t : t[i] \in Range(s) BY <1>1 DEF Range
    <2>3. h \in Range(s) BY <1>1 DEF Range
    <2> QED BY <2>1, <2>2, <2>3 DEF Range
  <1>3. ASSUME Once(s) PROVE Once(t) /\ h \notin Range(t)
    <2>1. \A i, j \in 1 .. Len(s) - 1 : s[i + 1] = s[j + 1] => i = j
      BY <1>1, <1>3 DEF Once
    <2>2. \A i \in 1 .. Len(s) - 1 : s[i + 1] # s[1] BY <1>1, <1>3 DEF Once
    <2>3. \A i, j \in DOMAIN t : t[i] = t[j] => i = j BY <1>1, <2>1
    <2>4. \A i \in DOMAIN t : t[i] # h BY <1>1, <2>2
    <2>5. Once(t) BY <2>3 DEF Once
    <2>6. h \notin Range(t) BY <2>4 DEF Range
    <2> QED BY <2>5, <2>6
  <1>4. ASSUME OnceCmd(s)
        PROVE  OnceCmd(t) /\ \A y \in Range(t) : y.cmd # h.cmd
    <2>1. \A i, j \in 1 .. Len(s) - 1 : s[i + 1].cmd = s[j + 1].cmd => i = j
      BY <1>1, <1>4 DEF OnceCmd
    <2>2. \A i \in 1 .. Len(s) - 1 : s[i + 1].cmd # s[1].cmd
      BY <1>1, <1>4 DEF OnceCmd
    <2>3. \A i, j \in DOMAIN t : t[i].cmd = t[j].cmd => i = j BY <1>1, <2>1
    <2>4. \A i \in DOMAIN t : t[i].cmd # h.cmd BY <1>1, <2>2
    <2>5. OnceCmd(t) BY <2>3 DEF OnceCmd
    <2>6. \A y \in Range(t) : y.cmd # h.cmd BY <2>4 DEF Range
    <2> QED BY <2>5, <2>6
  <1> QED BY <1>1, <1>2, <1>3, <1>4 DEF t, h

\* An empty channel.
LEMMA EmptyFacts == Range(<<>>) = {} /\ Once(<<>>) /\ OnceCmd(<<>>)
  BY DEF Range, Once, OnceCmd

----------------------------------------------------------------------------
(* Callers *)

\* A step of Calls, or none.
StepOfCalls == [Abstract!Next]_(Abstract!callsVars)

\* The type invariant about what a connection holds.
LEMMA TypeFacts ==
  ASSUME TypeOK
  PROVE  /\ cmds \in Seq(Command) /\ out \in Seq(Request)
         /\ responses \in Seq(Response)
         /\ held \in Command \cup {Nil} /\ Nil \notin Command
         /\ Range(pending) \subseteq Command /\ working \subseteq Request
         /\ next_id \in Nat \ {0} /\ DOMAIN pending \subseteq 1 .. next_id - 1
         /\ Range(cmds) \subseteq Command /\ Range(out) \subseteq Request
         /\ Range(responses) \subseteq Response /\ taken \subseteq Command
         /\ Known \subseteq Command
  <1>1. /\ cmds \in Seq(Command) /\ out \in Seq(Request)
        /\ responses \in Seq(Response)
        /\ held \in Command \cup {Nil} /\ Nil \notin Command
        /\ Range(pending) \subseteq Command /\ working \subseteq Request
        /\ next_id \in Nat \ {0} /\ DOMAIN pending \subseteq 1 .. next_id - 1
        /\ taken \subseteq Command
    BY NilAssumption DEF TypeOK
  <1>2. \A S : \A s \in Seq(S) : Range(s) \subseteq S BY DEF Range
  <1>3. /\ Range(cmds) \subseteq Command /\ Range(out) \subseteq Request
        /\ Range(responses) \subseteq Response
    BY <1>1, <1>2
  <1>4. \A r \in Range(out) : r.cmd \in Command BY <1>3 DEF Request
  <1> QED BY <1>1, <1>3, <1>4 DEF Known

\* A caller in a call has a command.
LEMMA OwnCmdType ==
  ASSUME TypeOK, IssuedOnce, NEW c \in Caller, stage[c] # "idle"
  PROVE  OwnCmd(c) \in Command /\ OwnCmd(c) # Nil
  <1>1. calls[c] \in 1 .. MaxCalls
    BY ClientAssumption DEF TypeOK, IssuedOnce
  <1> QED BY <1>1, NilAssumption DEF OwnCmd, Command

\* Nothing that Calls speaks of changes.
LEMMA Stutter ==
  ASSUME UNCHANGED <<stage, calls, outcome, taken>>, Unsent' = Unsent
  PROVE  StepOfCalls
  <1>1. InCall' = InCall BY DEF InCall
  <1> QED BY <1>1 DEF StepOfCalls, Abstract!callsVars

\* A reply ends the calls of the callers that still wait for it, and no other.
LEMMA ReplyFacts ==
  ASSUME TypeOK, NEW S \in SUBSET Command, NEW r \in Outcome, Reply(S, r),
         r.cmd = Nil \/ \A x \in S : x = r.cmd,
         AnswersOwnCall
  PROVE  /\ stage' \in [Caller -> {"idle", "send", "wait"}]
         /\ outcome' \in [Caller -> Outcome \cup {Nil}]
         /\ calls' = calls
         /\ AnswersOwnCall'
         /\ \A c \in Caller :
              IF stage[c] = "wait" /\ OwnCmd(c) \in S
              THEN stage'[c] = "idle" /\ outcome'[c] = r
              ELSE stage'[c] = stage[c] /\ outcome'[c] = outcome[c]
  <1>1. /\ stage \in [Caller -> {"idle", "send", "wait"}]
        /\ outcome \in [Caller -> Outcome \cup {Nil}]
    BY DEF TypeOK
  <1>2. ASSUME NEW c \in Caller
        PROVE  (\E x \in S : x.caller = c /\ Awaits(x))
                 <=> stage[c] = "wait" /\ OwnCmd(c) \in S
    <2>1. \A x \in S : x = [caller |-> x.caller, call |-> x.call] BY DEF Command
    <2>2. OwnCmd(c).caller = c /\ OwnCmd(c).call = calls[c] BY DEF OwnCmd
    <2> QED BY <2>1, <2>2 DEF Awaits, OwnCmd
  <1>3. /\ stage' = [c \in Caller |-> IF stage[c] = "wait" /\ OwnCmd(c) \in S
                                      THEN "idle" ELSE stage[c]]
        /\ outcome' = [c \in Caller |-> IF stage[c] = "wait" /\ OwnCmd(c) \in S
                                        THEN r ELSE outcome[c]]
        /\ calls' = calls
    BY <1>2 DEF Reply
  <1>4. \A c \in Caller : OwnCmd(c)' = OwnCmd(c) BY <1>3 DEF OwnCmd
  <1>5. AnswersOwnCall' BY <1>1, <1>3, <1>4 DEF AnswersOwnCall
  <1> QED BY <1>1, <1>3, <1>5

\* A step that drops commands and tells callers is a loss of Calls.
LEMMA LoseStep ==
  ASSUME TypeOK, NEW S, NEW C,
         S \subseteq Unsent, C \subseteq InCall, Unsent' = Unsent \ S,
         \A c \in C : stage'[c] = "idle" /\ outcome'[c] = Failed("unreachable")
                       /\ OwnCmd(c) \notin Unsent',
         \A c \in Caller \ C : stage'[c] = stage[c] /\ outcome'[c] = outcome[c],
         outcome' \in [Caller -> Outcome \cup {Nil}],
         calls' = calls, taken' = taken
  PROVE  StepOfCalls
  <1>1. InCall' = InCall \ C BY DEF InCall
  <1>2. outcome' = [c \in Caller |->
                     IF c \in C THEN [kind |-> "unreachable", cmd |-> Nil]
                                ELSE outcome[c]]
    BY DEF Failed, InCall
  <1>3. Abstract!Lose(S, C)
    BY <1>1, <1>2 DEF Abstract!Lose, Abstract!Current, OwnCmd
  <1> QED BY <1>3 DEF StepOfCalls, Abstract!Next

\* A caller begins a call: its command is new to everyone.
LEMMA CallInv ==
  ASSUME ClientInv, NEW c \in Caller, Call(c)
  PROVE  ClientInv' /\ StepOfCalls
  <1>1. /\ stage[c] = "idle" /\ calls[c] < MaxCalls
        /\ stage' = [stage EXCEPT ![c] = "send"]
        /\ calls' = [calls EXCEPT ![c] = @ + 1]
        /\ outcome' = [outcome EXCEPT ![c] = Nil]
        /\ UNCHANGED <<cmds, actor, backoff, generation, held, pending, next_id,
                       up, out, working, responses, taken>>
    BY DEF Call, actorVars, streamVars
  <1>2. /\ stage \in [Caller -> {"idle", "send", "wait"}]
        /\ calls \in [Caller -> 0 .. MaxCalls] /\ MaxCalls \in Nat
        /\ outcome \in [Caller -> Outcome \cup {Nil}]
    BY ClientAssumption DEF ClientInv, TypeOK
  <1>3. TypeOK' BY <1>1, <1>2 DEF ClientInv, TypeOK
  <1>4. (actor # "serve" => NoStream)' /\ IdsMatch' /\ OnceEach' /\ ReadFirst'
    BY <1>1 DEF ClientInv, NoStream, IdsMatch, OnStream, OnceEach, ReadFirst
  <1>5. Known' = Known BY <1>1 DEF Known
  <1>6. \A d \in Caller : d # c => OwnCmd(d)' = OwnCmd(d) BY <1>1, <1>2 DEF OwnCmd
  <1>7. OwnCmd(c)' = [caller |-> c, call |-> calls[c] + 1] BY <1>1, <1>2 DEF OwnCmd
  <1>8. \A x \in Known : x.caller \in Caller /\ x.call \in 1 .. MaxCalls
    BY TypeFacts DEF ClientInv, Command
  <1>9. OwnCmd(c)' \notin Known
    BY <1>2, <1>7, <1>8 DEF ClientInv, IssuedOnce
  <1>10. IssuedOnce'
    BY <1>1, <1>2, <1>5, <1>6, <1>8, <1>9 DEF ClientInv, IssuedOnce
  <1>11. AnswersOwnCall' BY <1>1, <1>2, <1>6 DEF ClientInv, AnswersOwnCall
  <1>12. NoOrphanedCaller' BY <1>1, <1>2, <1>6 DEF ClientInv, NoOrphanedCaller
  <1>13. InCall' = InCall \cup {c} /\ c \notin InCall BY <1>1, <1>2 DEF InCall
  <1>14. Unsent' = Unsent \cup {OwnCmd(c)'}
    <2>1. {OwnCmd(d)' : d \in {d \in Caller : stage'[d] = "send"}} =
            {OwnCmd(d) : d \in {d \in Caller : stage[d] = "send"}} \cup {OwnCmd(c)'}
      BY <1>1, <1>2, <1>6
    <2> QED BY <1>1, <2>1 DEF Unsent
  <1>15. Abstract!Begin(c) BY <1>1, <1>7, <1>13, <1>14 DEF Abstract!Begin
  <1> QED
    BY <1>3, <1>4, <1>10, <1>11, <1>12, <1>15
    DEF ClientInv, StepOfCalls, Abstract!Next

\* A command enters the channel.
LEMMA EnqueueInv ==
  ASSUME ClientInv, NEW c \in Caller, Enqueue(c)
  PROVE  ClientInv' /\ StepOfCalls
  <1>1. /\ stage[c] = "send" /\ Len(cmds) < CMD_QUEUE
        /\ stage' = [stage EXCEPT ![c] = "wait"]
        /\ cmds' = Append(cmds, OwnCmd(c))
        /\ UNCHANGED <<calls, outcome, actor, backoff, generation, held, pending,
                       next_id, up, out, working, responses, taken>>
    BY DEF Enqueue, actorVars, streamVars
  <1>2. /\ stage \in [Caller -> {"idle", "send", "wait"}]
        /\ calls \in [Caller -> 0 .. MaxCalls] /\ MaxCalls \in Nat
    BY ClientAssumption DEF ClientInv, TypeOK
  <1>3. OwnCmd(c) \in Command BY <1>1, OwnCmdType DEF ClientInv
  <1>4. OwnCmd(c) \notin Known BY <1>1 DEF ClientInv, IssuedOnce
  <1>5. /\ cmds' \in Seq(Command) /\ Len(cmds') = Len(cmds) + 1
        /\ Range(cmds') = Range(cmds) \cup {OwnCmd(c)}
        /\ Once(cmds) /\ OwnCmd(c) \notin Range(cmds) => Once(cmds')
    BY <1>1, <1>3, TypeFacts, AppendFacts DEF ClientInv
  <1>6. Len(cmds) \in Nat /\ CMD_QUEUE \in Nat
    BY TypeFacts, ClientAssumption DEF ClientInv
  <1>7. Len(cmds') <= CMD_QUEUE BY <1>1, <1>5, <1>6
  <1>8. TypeOK' BY <1>1, <1>2, <1>5, <1>7 DEF ClientInv, TypeOK
  <1>9. (actor # "serve" => NoStream)' /\ IdsMatch' /\ ReadFirst' /\ AnswersOwnCall'
    BY <1>1 DEF ClientInv, NoStream, IdsMatch, OnStream, ReadFirst, AnswersOwnCall,
                OwnCmd
  <1>10. OnceEach'
    <2>1. /\ OwnCmd(c) \notin Range(cmds) /\ OwnCmd(c) # held
          /\ \A r \in Range(out) : r.cmd # OwnCmd(c)
          /\ OwnCmd(c) \notin taken /\ \A i \in DOMAIN pending : pending[i] # OwnCmd(c)
      BY <1>3, <1>4, NilAssumption DEF Known, Range
    <2> QED BY <1>1, <1>5, <2>1 DEF ClientInv, OnceEach
  <1>11. \A d \in Caller : OwnCmd(d)' = OwnCmd(d) /\ OwnCmd(d).caller = d
    BY <1>1 DEF OwnCmd
  <1>12. Known' = Known \cup {OwnCmd(c)} BY <1>1, <1>5 DEF Known
  <1>13. IssuedOnce'
    <2>1. OwnCmd(c).call <= calls[OwnCmd(c).caller] BY <1>2 DEF OwnCmd
    <2>2. \A d \in Caller : stage'[d] = "send" => d # c /\ OwnCmd(d) # OwnCmd(c)
      BY <1>1, <1>2, <1>11
    <2> QED BY <1>1, <1>2, <1>11, <1>12, <2>1, <2>2 DEF ClientInv, IssuedOnce
  <1>14. NoOrphanedCaller'
    BY <1>1, <1>2, <1>5, <1>11 DEF ClientInv, NoOrphanedCaller
  <1>15. Unsent' = Unsent
    <2>1. {OwnCmd(d)' : d \in {d \in Caller : stage'[d] = "send"}} \cup {OwnCmd(c)} =
            {OwnCmd(d) : d \in {d \in Caller : stage[d] = "send"}}
      BY <1>1, <1>2, <1>11
    <2> QED BY <1>1, <1>5, <2>1 DEF Unsent
  <1>16. InCall' = InCall BY <1>1, <1>2 DEF InCall
  <1>17. StepOfCalls BY <1>1, <1>15, <1>16 DEF StepOfCalls, Abstract!callsVars
  <1> QED
    BY <1>8, <1>9, <1>10, <1>13, <1>14, <1>17 DEF ClientInv

\* A caller gives up; its command stays where it is.
LEMMA TimeOutInv ==
  ASSUME ClientInv, NEW c \in Caller, TimeOut(c)
  PROVE  ClientInv' /\ StepOfCalls
  <1>1. /\ stage[c] = "wait"
        /\ stage' = [stage EXCEPT ![c] = "idle"]
        /\ outcome' = [outcome EXCEPT ![c] = Failed("timeout")]
        /\ UNCHANGED <<calls, cmds, actor, backoff, generation, held, pending,
                       next_id, up, out, working, responses, taken>>
    BY DEF TimeOut, actorVars, streamVars
  <1>2. /\ stage \in [Caller -> {"idle", "send", "wait"}]
        /\ outcome \in [Caller -> Outcome \cup {Nil}]
    BY DEF ClientInv, TypeOK
  <1>3. Failed("timeout") \in Outcome /\ Failed("timeout").cmd = Nil
    BY DEF Failed, Outcome
  <1>4. TypeOK' BY <1>1, <1>2, <1>3 DEF ClientInv, TypeOK
  <1>5. \A d \in Caller : OwnCmd(d)' = OwnCmd(d) BY <1>1 DEF OwnCmd
  <1>6. (actor # "serve" => NoStream)' /\ IdsMatch' /\ OnceEach' /\ ReadFirst'
    BY <1>1 DEF ClientInv, NoStream, IdsMatch, OnStream, OnceEach, ReadFirst
  <1>7. Known' = Known BY <1>1 DEF Known
  <1>8. IssuedOnce' BY <1>1, <1>2, <1>5, <1>7 DEF ClientInv, IssuedOnce
  <1>9. AnswersOwnCall' BY <1>1, <1>2, <1>3, <1>5 DEF ClientInv, AnswersOwnCall
  <1>10. NoOrphanedCaller' BY <1>1, <1>2, <1>5 DEF ClientInv, NoOrphanedCaller
  <1>11. InCall' = InCall \ {c} /\ c \in InCall BY <1>1, <1>2 DEF InCall
  <1>12. Unsent' = Unsent
    <2>1. {OwnCmd(d)' : d \in {d \in Caller : stage'[d] = "send"}} =
            {OwnCmd(d) : d \in {d \in Caller : stage[d] = "send"}}
      BY <1>1, <1>2, <1>5
    <2> QED BY <1>1, <2>1 DEF Unsent
  <1>13. Abstract!GiveUp(c) BY <1>1, <1>11, <1>12 DEF Abstract!GiveUp, Failed
  <1> QED
    BY <1>4, <1>6, <1>8, <1>9, <1>10, <1>13
    DEF ClientInv, StepOfCalls, Abstract!Next

----------------------------------------------------------------------------
(* The connect loop *)

\* A failed connect empties the channel and tells the callers that wait.
LEMMA ConnectFailsInv ==
  ASSUME ClientInv, ConnectFails
  PROVE  ClientInv' /\ StepOfCalls
  <1>1. PICK S : S = Range(cmds) OBVIOUS
  <1>2. PICK C : C = {c \in Caller : stage[c] = "wait" /\ OwnCmd(c) \in S} OBVIOUS
  <1>3. /\ actor = "connect" /\ cmds' = <<>> /\ actor' = "sleep"
        /\ UNCHANGED <<backoff, generation, held, pending, next_id,
                       up, out, working, responses, taken>>
    BY DEF ConnectFails, streamVars
  <1>4. Reply(S, Failed("unreachable")) BY <1>1 DEF ConnectFails, Reply
  <1>5. /\ Failed("unreachable") \in Outcome /\ Failed("unreachable").cmd = Nil
    BY DEF Failed, Outcome
  <1>6. S \in SUBSET Command BY <1>1, TypeFacts DEF ClientInv
  <1>7. /\ stage' \in [Caller -> {"idle", "send", "wait"}]
        /\ outcome' \in [Caller -> Outcome \cup {Nil}]
        /\ calls' = calls /\ AnswersOwnCall'
        /\ \A c \in Caller :
             IF c \in C THEN stage'[c] = "idle" /\ outcome'[c] = Failed("unreachable")
                        ELSE stage'[c] = stage[c] /\ outcome'[c] = outcome[c]
    BY <1>2, <1>4, <1>5, <1>6, ReplyFacts DEF ClientInv
  <1>8. Range(cmds') = {} /\ Once(cmds') BY <1>3, EmptyFacts
  <1>9. cmds' \in Seq(Command) /\ Len(cmds') <= CMD_QUEUE
    BY <1>3, ClientAssumption
  <1>10. TypeOK' BY <1>3, <1>7, <1>9 DEF ClientInv, TypeOK
  <1>11. NoStream BY <1>3 DEF ClientInv
  <1>12. (actor # "serve" => NoStream)' /\ IdsMatch' /\ ReadFirst'
    BY <1>3, <1>11 DEF ClientInv, NoStream, IdsMatch, OnStream, ReadFirst
  <1>13. OnceEach' BY <1>3, <1>8 DEF ClientInv, OnceEach
  <1>14. \A c \in Caller : OwnCmd(c)' = OwnCmd(c) /\ OwnCmd(c).caller = c
    BY <1>7 DEF OwnCmd
  <1>15. Known' \subseteq Known BY <1>3, <1>8 DEF Known
  <1>16. IssuedOnce' BY <1>2, <1>7, <1>14, <1>15 DEF ClientInv, IssuedOnce
  <1>17. NoOrphanedCaller'
    BY <1>1, <1>2, <1>3, <1>7, <1>11, <1>14, NilAssumption
    DEF ClientInv, NoOrphanedCaller, NoStream
  <1>18. {OwnCmd(c)' : c \in {d \in Caller : stage'[d] = "send"}} =
           {OwnCmd(c) : c \in {d \in Caller : stage[d] = "send"}}
    BY <1>2, <1>7, <1>14
  <1>19. /\ held' = Nil /\ held = Nil /\ Range(out) = {} /\ Range(out') = {}
    BY <1>3, <1>11, EmptyFacts DEF NoStream
  <1>20. /\ Unsent' = {OwnCmd(c) : c \in {d \in Caller : stage[d] = "send"}}
         /\ Unsent = {OwnCmd(c) : c \in {d \in Caller : stage[d] = "send"}} \cup S
    BY <1>1, <1>8, <1>18, <1>19 DEF Unsent
  <1>21. \A c \in {d \in Caller : stage[d] = "send"} : OwnCmd(c) \notin S
    BY <1>1 DEF ClientInv, IssuedOnce, Known
  <1>22. Unsent' = Unsent \ S /\ S \subseteq Unsent BY <1>20, <1>21
  <1>23. \A c \in C : OwnCmd(c) \notin Unsent' BY <1>2, <1>14, <1>20
  <1>24. C \subseteq InCall /\ \A c \in Caller \ C : stage'[c] = stage[c]
    BY <1>2, <1>7 DEF InCall
  <1>25. StepOfCalls
    BY <1>2, <1>3, <1>7, <1>22, <1>23, <1>24, LoseStep DEF ClientInv
  <1> QED
    BY <1>7, <1>10, <1>12, <1>13, <1>16, <1>17, <1>25 DEF ClientInv

\* A pause, a connect and a fresh stream change nothing a caller sees.
LEMMA ConnectInv ==
  ASSUME ClientInv, Wake \/ ConnectOk \/ OpenStream
  PROVE  ClientInv' /\ StepOfCalls
  <1>1. /\ UNCHANGED <<stage, calls, outcome, cmds, held, taken>>
        /\ actor # "serve" /\ actor' \in {"connect", "open", "serve"}
        /\ generation' \in {generation, generation + 1}
        /\ backoff' \in {1, NextBackoff(backoff), backoff}
    BY DEF Wake, ConnectOk, OpenStream, callerVars, streamVars
  <1>2. NoStream BY <1>1 DEF ClientInv
  <1>3. /\ out' = <<>> /\ working' = {} /\ responses' = <<>> /\ pending' = NoPending
        /\ next_id' \in {next_id, 1} /\ up' \in BOOLEAN
        /\ actor' # "serve" => up' = FALSE
    <2>1. CASE Wake BY <1>2, <2>1 DEF Wake, streamVars, NoStream
    <2>2. CASE ConnectOk BY <1>2, <2>2 DEF ConnectOk, streamVars, NoStream
    <2>3. CASE OpenStream BY <1>2, <2>3 DEF OpenStream, streamVars, NoStream
    <2> QED BY <2>1, <2>2, <2>3
  <1>4. Range(<<>>) = {} /\ OnceCmd(<<>>) BY EmptyFacts
  <1>5. /\ DOMAIN NoPending = {} /\ Range(NoPending) = {} BY DEF NoPending, Range
  <1>6. backoff' \in 1 .. RECONNECT_MAX /\ generation' \in Nat
    BY <1>1, ClientAssumption DEF ClientInv, TypeOK, NextBackoff
  <1>7. out' \in Seq(Request) /\ Len(out') <= CMD_QUEUE /\ responses' \in Seq(Response)
    BY <1>3, ClientAssumption
  <1>8. TypeOK' BY <1>1, <1>3, <1>5, <1>6, <1>7 DEF ClientInv, TypeOK
  <1>9. (actor # "serve" => NoStream)' BY <1>1, <1>2, <1>3 DEF NoStream
  <1>10. IdsMatch' /\ ReadFirst' BY <1>3, <1>4 DEF IdsMatch, OnStream, ReadFirst
  <1>11. out = <<>> /\ pending = NoPending BY <1>2 DEF NoStream
  <1>12. OnceEach' BY <1>1, <1>3, <1>11 DEF ClientInv, OnceEach
  <1>13. Known' = Known BY <1>1, <1>3, <1>11 DEF Known
  <1>14. \A c \in Caller : OwnCmd(c)' = OwnCmd(c) BY <1>1 DEF OwnCmd
  <1>15. IssuedOnce' BY <1>1, <1>13, <1>14 DEF ClientInv, IssuedOnce
  <1>16. AnswersOwnCall' BY <1>1, <1>14 DEF ClientInv, AnswersOwnCall
  <1>17. NoOrphanedCaller' BY <1>1, <1>14 DEF ClientInv, NoOrphanedCaller
  <1>18. Unsent' = Unsent BY <1>1, <1>3, <1>11, <1>14 DEF Unsent
  <1>19. StepOfCalls BY <1>1, <1>18, Stutter
  <1> QED
    BY <1>8, <1>9, <1>10, <1>12, <1>15, <1>16, <1>17, <1>19 DEF ClientInv

----------------------------------------------------------------------------
(* The serve loop *)

\* The actor takes the next command from the channel.
LEMMA TakeCmdInv ==
  ASSUME ClientInv, TakeCmd
  PROVE  ClientInv' /\ StepOfCalls
  <1>1. /\ actor = "serve" /\ held = Nil /\ cmds # <<>>
        /\ held' = Head(cmds) /\ cmds' = Tail(cmds)
        /\ UNCHANGED <<stage, calls, outcome, actor, backoff, generation, pending,
                       next_id, up, out, working, responses, taken>>
    BY DEF TakeCmd, callerVars, streamVars
  <1>2. cmds \in Seq(Command) /\ Len(cmds) <= CMD_QUEUE /\ CMD_QUEUE \in Nat
    BY ClientAssumption DEF ClientInv, TypeOK
  <1>3. /\ held' \in Command /\ cmds' \in Seq(Command) /\ Len(cmds') <= Len(cmds)
        /\ Range(cmds) = {held'} \cup Range(cmds')
        /\ Once(cmds) => Once(cmds') /\ held' \notin Range(cmds')
    BY <1>1, <1>2, TailFacts
  <1>4. Len(cmds') <= CMD_QUEUE
    <2>1. Len(cmds) \in Nat /\ Len(cmds') \in Nat BY <1>2, <1>3
    <2> QED BY <1>2, <1>3, <2>1
  <1>5. TypeOK' BY <1>1, <1>3, <1>4 DEF ClientInv, TypeOK
  <1>6. (actor # "serve" => NoStream)' BY <1>1
  <1>7. \A c \in Caller : OwnCmd(c)' = OwnCmd(c) BY <1>1 DEF OwnCmd
  <1>8. IdsMatch' /\ ReadFirst' /\ AnswersOwnCall'
    BY <1>1, <1>7 DEF ClientInv, IdsMatch, OnStream, ReadFirst, AnswersOwnCall
  <1>9. OnceEach' BY <1>1, <1>3 DEF ClientInv, OnceEach
  <1>10. Known' = Known BY <1>1, <1>3, NilAssumption DEF Known
  <1>11. IssuedOnce' BY <1>1, <1>7, <1>10 DEF ClientInv, IssuedOnce
  <1>12. NoOrphanedCaller'
    <2>1. ASSUME NEW c \in Caller, stage[c] = "wait"
          PROVE  \/ OwnCmd(c) \in Range(cmds') \/ OwnCmd(c) = held'
                 \/ OwnCmd(c) \in Range(pending)
      <3>1. OwnCmd(c) # Nil BY <2>1, OwnCmdType DEF ClientInv
      <3> QED BY <1>1, <1>3, <2>1, <3>1 DEF ClientInv, NoOrphanedCaller
    <2> QED BY <1>1, <1>7, <2>1 DEF NoOrphanedCaller
  <1>13. Unsent' = Unsent BY <1>1, <1>3, <1>7, NilAssumption DEF Unsent
  <1>14. StepOfCalls BY <1>1, <1>13, Stutter
  <1> QED
    BY <1>5, <1>6, <1>8, <1>9, <1>11, <1>12, <1>14 DEF ClientInv

\* The command goes to the request channel under an id of its own.
LEMMA SendRequestInv ==
  ASSUME ClientInv, SendRequest
  PROVE  ClientInv' /\ StepOfCalls
  <1> DEFINE req == [id |-> next_id, cmd |-> held]
  <1>1. /\ actor = "serve" /\ held # Nil /\ up /\ Len(out) < CMD_QUEUE
        /\ out' = Append(out, req) /\ next_id' = next_id + 1 /\ held' = Nil
        /\ pending' = [i \in DOMAIN pending \cup {next_id} |->
                         IF i = next_id THEN held ELSE pending[i]]
        /\ UNCHANGED <<stage, calls, outcome, cmds, actor, backoff, generation, up,
                       working, responses, taken>>
    BY DEF SendRequest, RequestId, callerVars
  <1>2. /\ out \in Seq(Request) /\ held \in Command /\ next_id \in Nat \ {0}
        /\ DOMAIN pending \subseteq 1 .. next_id - 1 /\ next_id \notin DOMAIN pending
        /\ Range(pending) \subseteq Command
    BY <1>1, TypeFacts DEF ClientInv
  <1>3. req \in Request /\ req.cmd = held /\ req.id = next_id BY <1>2 DEF Request
  <1>4. /\ out' \in Seq(Request) /\ Len(out') = Len(out) + 1
        /\ Range(out') = Range(out) \cup {req}
        /\ OnceCmd(out) /\ (\A y \in Range(out) : y.cmd # held) => OnceCmd(out')
    <2> HIDE DEF req
    <2> QED BY <1>1, <1>2, <1>3, AppendFacts
  <1>5. Len(out') <= CMD_QUEUE
    <2>1. Len(out) \in Nat /\ CMD_QUEUE \in Nat BY <1>2, ClientAssumption
    <2> QED BY <1>1, <1>4, <2>1
  <1>6. /\ DOMAIN pending' = DOMAIN pending \cup {next_id}
        /\ pending'[next_id] = held
        /\ \A i \in DOMAIN pending : pending'[i] = pending[i]
    BY <1>1, <1>2
  <1>7. Range(pending') = Range(pending) \cup {held} BY <1>6 DEF Range
  <1> HIDE DEF req
  <1>8. DOMAIN pending' \subseteq 1 .. next_id' - 1 /\ next_id' \in Nat \ {0}
    BY <1>1, <1>2, <1>6
  <1>9. TypeOK' BY <1>1, <1>2, <1>4, <1>5, <1>7, <1>8 DEF ClientInv, TypeOK
  <1>10. (actor # "serve" => NoStream)' BY <1>1
  <1>11. IdsMatch'
    <2>1. OnStream' = OnStream \cup {req} BY <1>1, <1>4 DEF OnStream
    <2>2. \A r \in OnStream : r.id \in Nat
      BY TypeFacts DEF ClientInv, OnStream, Request, Response, Eof, Pushed
    <2>3. ASSUME NEW r \in OnStream
          PROVE  /\ r.id < next_id'
                 /\ r.id \in DOMAIN pending' => r.cmd = pending'[r.id]
      <3>1. r.id < next_id /\ (r.id \in DOMAIN pending => r.cmd = pending[r.id])
        BY DEF ClientInv, IdsMatch
      <3> QED BY <1>1, <1>2, <1>6, <2>2, <3>1
    <2>4. req.id < next_id' /\ req.cmd = pending'[req.id] BY <1>1, <1>2, <1>3, <1>6
    <2> QED BY <2>1, <2>3, <2>4 DEF IdsMatch
  <1>12. OnceEach'
    <2>1. \A y \in Range(out) : y.cmd # held BY DEF ClientInv, OnceEach
    <2>2. \A i \in DOMAIN pending' : pending'[i] \in Command
      BY <1>7, <1>2 DEF Range
    <2>3. Nil \notin Range(cmds) /\ Nil \notin taken
      BY TypeFacts DEF ClientInv
    <2>4. \A r \in Range(out') : r.cmd # Nil
      BY <1>2, <1>3, <1>4, TypeFacts DEF ClientInv, Request
    <2> QED BY <1>1, <1>3, <1>4, <1>6, <2>1, <2>2, <2>3, <2>4, NilAssumption
            DEF ClientInv, OnceEach
  <1>13. Known' = Known
    <2>1. {r.cmd : r \in Range(out')} = {r.cmd : r \in Range(out)} \cup {held}
      BY <1>3, <1>4
    <2> QED BY <1>1, <1>7, <2>1 DEF Known
  <1>14. \A c \in Caller : OwnCmd(c)' = OwnCmd(c) BY <1>1 DEF OwnCmd
  <1>15. IssuedOnce' BY <1>1, <1>13, <1>14 DEF ClientInv, IssuedOnce
  <1>16. ReadFirst' /\ AnswersOwnCall'
    BY <1>1, <1>14 DEF ClientInv, ReadFirst, AnswersOwnCall
  <1>17. NoOrphanedCaller'
    BY <1>1, <1>7, <1>14 DEF ClientInv, NoOrphanedCaller
  <1>18. Unsent' = Unsent
    <2>1. {r.cmd : r \in Range(out')} = {r.cmd : r \in Range(out)} \cup {held}
      BY <1>3, <1>4
    <2> QED BY <1>1, <1>14, <2>1 DEF Unsent
  <1>19. StepOfCalls BY <1>1, <1>18, Stutter
  <1> QED
    BY <1>9, <1>10, <1>11, <1>12, <1>15, <1>16, <1>17, <1>19 DEF ClientInv

\* The stream is lost: everyone who waits for it is told, and the commands in
\* the channel wait for the next one.
LEMMA StreamLostInv ==
  ASSUME ClientInv, SendFails \/ StreamEnds
  PROVE  ClientInv' /\ StepOfCalls
  <1>1. PICK T : T = Range(pending) \cup ({held} \ {Nil}) OBVIOUS
  <1>2. PICK C : C = {c \in Caller : stage[c] = "wait" /\ OwnCmd(c) \in T} OBVIOUS
  <1>3. PICK S : S = ({held} \ {Nil}) \cup {r.cmd : r \in Range(out)} OBVIOUS
  <1>4. /\ Reply(T, Failed("unreachable"))
        /\ pending' = NoPending /\ next_id' = 1 /\ held' = Nil /\ actor' = "connect"
        /\ up' = FALSE /\ out' = <<>> /\ working' = {} /\ responses' = <<>>
        /\ UNCHANGED <<cmds, backoff, generation, taken>>
    <2>1. CASE SendFails
      <3>1. fail_all({held}) = T BY <1>1, <2>1 DEF SendFails, fail_all
      <3> QED BY <2>1, <3>1 DEF SendFails, StreamLost, Reply
    <2>2. CASE StreamEnds
      <3>1. fail_all({}) = T BY <1>1, <2>2 DEF StreamEnds, fail_all
      <3> QED BY <2>2, <3>1 DEF StreamEnds, StreamLost, Reply
    <2> QED BY <2>1, <2>2
  <1>5. /\ Failed("unreachable") \in Outcome /\ Failed("unreachable").cmd = Nil
    BY DEF Failed, Outcome
  <1>6. T \in SUBSET Command BY <1>1, TypeFacts DEF ClientInv
  <1>7. /\ stage' \in [Caller -> {"idle", "send", "wait"}]
        /\ outcome' \in [Caller -> Outcome \cup {Nil}]
        /\ calls' = calls /\ AnswersOwnCall'
        /\ \A c \in Caller :
             IF c \in C THEN stage'[c] = "idle" /\ outcome'[c] = Failed("unreachable")
                        ELSE stage'[c] = stage[c] /\ outcome'[c] = outcome[c]
    BY <1>2, <1>4, <1>5, <1>6, ReplyFacts DEF ClientInv
  <1>8. Range(out') = {} /\ Range(responses') = {} /\ OnceCmd(out')
    BY <1>4, EmptyFacts
  <1>9. DOMAIN pending' = {} /\ Range(pending') = {} BY <1>4 DEF NoPending, Range
  <1>10. out' \in Seq(Request) /\ Len(out') <= CMD_QUEUE /\ responses' \in Seq(Response)
    BY <1>4, ClientAssumption
  <1>11. TypeOK'
    <2>1. /\ next_id' \in Nat \ {0} /\ held' \in Command \cup {Nil}
          /\ DOMAIN pending' \subseteq 1 .. next_id' - 1 /\ working' \subseteq Request
      BY <1>4, <1>9
    <2>2. up' \in BOOLEAN BY <1>4
    <2> QED BY <1>4, <1>7, <1>9, <1>10, <2>1, <2>2 DEF ClientInv, TypeOK
  <1>12. (actor # "serve" => NoStream)' BY <1>4 DEF NoStream
  <1>13. IdsMatch' /\ ReadFirst' BY <1>4, <1>8 DEF IdsMatch, OnStream, ReadFirst
  <1>14. OnceEach'
    <2>1. Nil \notin Range(cmds) /\ Nil \notin taken BY TypeFacts DEF ClientInv
    <2> QED BY <1>4, <1>8, <1>9, <2>1 DEF ClientInv, OnceEach
  <1>15. \A c \in Caller : OwnCmd(c)' = OwnCmd(c) /\ OwnCmd(c).caller = c
    BY <1>7 DEF OwnCmd
  <1>16. Known' \subseteq Known BY <1>4, <1>8, <1>9 DEF Known
  <1>17. IssuedOnce' BY <1>2, <1>7, <1>15, <1>16 DEF ClientInv, IssuedOnce
  <1>18. NoOrphanedCaller'
    <2>1. ASSUME NEW c \in Caller, stage'[c] = "wait" PROVE OwnCmd(c) \in Range(cmds)
      <3>1. c \notin C /\ stage[c] = "wait" BY <1>7, <2>1
      <3>2. OwnCmd(c) \notin T BY <1>2, <3>1
      <3>3. OwnCmd(c) # Nil BY <3>1, OwnCmdType DEF ClientInv
      <3> QED BY <1>1, <3>1, <3>2, <3>3 DEF ClientInv, NoOrphanedCaller
    <2> QED BY <1>4, <1>15, <2>1 DEF NoOrphanedCaller
  <1>19. {OwnCmd(c)' : c \in {d \in Caller : stage'[d] = "send"}} =
           {OwnCmd(c) : c \in {d \in Caller : stage[d] = "send"}}
    BY <1>2, <1>7, <1>15
  <1>20. PICK Q : Q = {OwnCmd(c) : c \in {d \in Caller : stage[d] = "send"}} OBVIOUS
  <1>21. Unsent' = Q \cup Range(cmds) /\ Unsent = Q \cup Range(cmds) \cup S
    BY <1>3, <1>4, <1>8, <1>19, <1>20 DEF Unsent
  <1>22. \A x \in S : x \in Known BY <1>3 DEF Known
  <1>23. \A x \in S : x \notin Q BY <1>20, <1>22 DEF ClientInv, IssuedOnce
  <1>24. \A x \in S : x \notin Range(cmds) BY <1>3 DEF ClientInv, OnceEach
  <1>25. Unsent' = Unsent \ S /\ S \subseteq Unsent BY <1>21, <1>23, <1>24
  <1>26. \A x \in T : x \notin Range(cmds) BY <1>1 DEF ClientInv, OnceEach, Range
  <1>27. \A c \in C : OwnCmd(c) \notin Q BY <1>2, <1>15, <1>20
  <1>28. \A c \in C : OwnCmd(c) \notin Unsent' BY <1>2, <1>21, <1>26, <1>27
  <1>29. C \subseteq InCall /\ C \subseteq Caller BY <1>2 DEF InCall
  <1>30. StepOfCalls
    BY <1>4, <1>7, <1>25, <1>28, <1>29, LoseStep DEF ClientInv
  <1> QED
    BY <1>7, <1>11, <1>12, <1>13, <1>14, <1>17, <1>18, <1>30 DEF ClientInv

\* A response goes to the caller its id was given to, if that one still waits.
LEMMA RouteInv ==
  ASSUME ClientInv, Route
  PROVE  ClientInv' /\ StepOfCalls
  <1>1. PICK resp : resp = Head(responses) OBVIOUS
  <1>2. PICK T : T = {pending[i] : i \in {j \in DOMAIN pending : j = resp.id}} OBVIOUS
  <1>3. /\ actor = "serve" /\ held = Nil /\ responses # <<>>
        /\ Reply(T, rpc_method(resp))
        /\ pending' = [i \in DOMAIN pending \ {resp.id} |-> pending[i]]
        /\ responses' = Tail(responses)
        /\ UNCHANGED <<cmds, actor, backoff, generation, held, next_id,
                       up, out, working, taken>>
    <2>1. Answered(resp.id) = {j \in DOMAIN pending : j = resp.id} BY DEF Answered
    <2>2. /\ Reply({pending[i] : i \in Answered(resp.id)}, rpc_method(resp))
          /\ pending' = [i \in DOMAIN pending \ Answered(resp.id) |-> pending[i]]
      BY <1>1 DEF Route
    <2>3. Reply(T, rpc_method(resp)) BY <1>2, <2>1, <2>2 DEF Reply
    <2>4. DOMAIN pending \ Answered(resp.id) = DOMAIN pending \ {resp.id} BY <2>1
    <2> QED BY <2>2, <2>3, <2>4 DEF Route
  <1>4. /\ resp \in Response /\ responses' \in Seq(Response)
        /\ Range(responses) = {resp} \cup Range(responses')
    BY <1>1, <1>3, TypeFacts, TailFacts DEF ClientInv
  <1>5. /\ \A x \in T : x = pending[resp.id] /\ resp.id \in DOMAIN pending
        /\ resp.id \in DOMAIN pending => T = {pending[resp.id]}
    BY <1>2
  <1>6. \A x \in T : x = resp.cmd /\ x \in taken /\ x \in Command
    <2>1. resp \in OnStream /\ resp \in Range(responses) BY <1>4 DEF OnStream
    <2>2. resp.id \in DOMAIN pending => resp.cmd = pending[resp.id]
      BY <2>1 DEF ClientInv, IdsMatch
    <2>3. \A i \in DOMAIN pending : pending[i] \in Command
      BY TypeFacts DEF ClientInv, Range
    <2>4. resp.cmd # Nil => resp.cmd \in taken BY <2>1 DEF ClientInv, ReadFirst
    <2> QED BY <1>5, <2>2, <2>3, <2>4, NilAssumption
  <1>7. /\ rpc_method(resp) \in Outcome /\ rpc_method(resp).cmd = resp.cmd
        /\ rpc_method(resp).kind \in {"ok", "rpc", "protocol"}
    <2>1. resp.cmd \in Command \cup {Nil} BY <1>4 DEF Response, Eof, Pushed
    <2>2. \E k \in {"ok", "rpc", "protocol"} :
            rpc_method(resp) = [kind |-> k, cmd |-> resp.cmd]
      BY DEF rpc_method
    <2> QED BY <2>1, <2>2 DEF Outcome
  <1>8. PICK r : r = rpc_method(resp) OBVIOUS
  <1>9. T \in SUBSET Command /\ r \in Outcome /\ \A x \in T : x = r.cmd
    BY <1>6, <1>7, <1>8
  <1>10. Reply(T, r) BY <1>3, <1>8
  <1>11. /\ stage' \in [Caller -> {"idle", "send", "wait"}]
         /\ outcome' \in [Caller -> Outcome \cup {Nil}]
         /\ calls' = calls /\ AnswersOwnCall'
         /\ \A c \in Caller :
              IF stage[c] = "wait" /\ OwnCmd(c) \in T
              THEN stage'[c] = "idle" /\ outcome'[c] = r
              ELSE stage'[c] = stage[c] /\ outcome'[c] = outcome[c]
    BY <1>9, <1>10, ReplyFacts DEF ClientInv
  <1>12. /\ DOMAIN pending' = DOMAIN pending \ {resp.id}
         /\ \A i \in DOMAIN pending' : pending'[i] = pending[i]
    BY <1>3
  <1>13. Range(pending') \subseteq Range(pending) BY <1>12 DEF Range
  <1>14. TypeOK' BY <1>3, <1>4, <1>11, <1>12, <1>13 DEF ClientInv, TypeOK
  <1>15. (actor # "serve" => NoStream)' BY <1>3
  <1>16. IdsMatch' /\ ReadFirst'
    <2>1. OnStream' \subseteq OnStream BY <1>3, <1>4 DEF OnStream
    <2> QED BY <1>3, <1>4, <1>12, <2>1 DEF ClientInv, IdsMatch, ReadFirst
  <1>17. OnceEach' BY <1>3, <1>12 DEF ClientInv, OnceEach
  <1>18. Known' \subseteq Known BY <1>3, <1>13 DEF Known
  <1>19. \A c \in Caller : OwnCmd(c)' = OwnCmd(c) /\ OwnCmd(c).caller = c
    BY <1>11 DEF OwnCmd
  <1>20. IssuedOnce' BY <1>11, <1>18, <1>19 DEF ClientInv, IssuedOnce
  <1>21. NoOrphanedCaller'
    <2>1. ASSUME NEW c \in Caller, stage'[c] = "wait"
          PROVE  OwnCmd(c) \in Range(cmds) \/ OwnCmd(c) \in Range(pending')
      <3>1. stage[c] = "wait" /\ OwnCmd(c) \notin T BY <1>11, <2>1
      <3>2. OwnCmd(c) # Nil BY <3>1, OwnCmdType DEF ClientInv
      <3>3. CASE OwnCmd(c) \in Range(pending)
        <4>1. PICK i \in DOMAIN pending : pending[i] = OwnCmd(c) BY <3>3 DEF Range
        <4>2. i # resp.id BY <1>2, <3>1, <4>1
        <4> QED BY <1>12, <4>1, <4>2 DEF Range
      <3> QED BY <1>3, <3>1, <3>2, <3>3 DEF ClientInv, NoOrphanedCaller
    <2> QED BY <1>3, <1>19, <2>1 DEF NoOrphanedCaller
  <1>22. Unsent' = Unsent
    <2>1. {OwnCmd(c)' : c \in {d \in Caller : stage'[d] = "send"}} =
            {OwnCmd(c) : c \in {d \in Caller : stage[d] = "send"}}
      BY <1>11, <1>19
    <2> QED BY <1>3, <2>1 DEF Unsent
  <1>23. StepOfCalls
    <2>1. CASE \E c \in Caller : stage[c] = "wait" /\ OwnCmd(c) \in T
      <3>1. PICK c \in Caller : stage[c] = "wait" /\ OwnCmd(c) \in T BY <2>1
      <3>2. \A d \in Caller : OwnCmd(d) \in T => d = c BY <1>9, <1>19, <3>1
      <3>3. InCall' = InCall \ {c} /\ c \in InCall BY <1>11, <3>1, <3>2 DEF InCall
      <3>4. OwnCmd(c) \in taken /\ r.cmd = OwnCmd(c) BY <1>6, <1>9, <3>1
      <3>5. outcome \in [Caller -> Outcome \cup {Nil}] BY DEF ClientInv, TypeOK
      <3>6. outcome'[c] = r /\ outcome' = [outcome EXCEPT ![c] = outcome'[c]]
        BY <1>11, <3>1, <3>2, <3>5
      <3>7. Abstract!Answer(c)
        BY <1>3, <1>7, <1>8, <1>11, <1>22, <3>3, <3>4, <3>6
        DEF Abstract!Answer, Abstract!Current, OwnCmd
      <3> QED BY <3>7 DEF StepOfCalls, Abstract!Next
    <2>2. CASE ~ \E c \in Caller : stage[c] = "wait" /\ OwnCmd(c) \in T
      <3>1. /\ stage \in [Caller -> {"idle", "send", "wait"}]
            /\ outcome \in [Caller -> Outcome \cup {Nil}]
        BY DEF ClientInv, TypeOK
      <3>2. stage' = stage /\ outcome' = outcome BY <1>11, <2>2, <3>1
      <3> QED BY <1>3, <1>11, <1>22, <3>2, Stutter
    <2> QED BY <2>1, <2>2
  <1> QED
    BY <1>11, <1>14, <1>15, <1>16, <1>17, <1>20, <1>21, <1>23 DEF ClientInv

----------------------------------------------------------------------------
(* The node *)

\* The node reads a request: the command will not be sent again.
LEMMA NodeReadsInv ==
  ASSUME ClientInv, NodeReads
  PROVE  ClientInv' /\ StepOfCalls
  <1>1. PICK req : req = Head(out) OBVIOUS
  <1>2. PICK x : x = req.cmd OBVIOUS
  <1>3. /\ up /\ out # <<>> /\ working' = working \cup {req} /\ out' = Tail(out)
        /\ taken' = taken \cup {x}
        /\ UNCHANGED <<stage, calls, outcome, cmds, actor, backoff, generation, held,
                       pending, next_id, up, responses>>
    BY <1>1, <1>2 DEF NodeReads, callerVars, actorVars
  <1>4. /\ req \in Request /\ out' \in Seq(Request) /\ Len(out') <= Len(out)
        /\ Range(out) = {req} \cup Range(out')
        /\ OnceCmd(out) => OnceCmd(out') /\ \A y \in Range(out') : y.cmd # x
    BY <1>1, <1>2, <1>3, TypeFacts, TailFacts DEF ClientInv
  <1>5. x \in Command BY <1>2, <1>4 DEF Request
  <1>6. Len(out') <= CMD_QUEUE
    <2>1. /\ Len(out) \in Nat /\ Len(out') \in Nat /\ Len(out) <= CMD_QUEUE
          /\ CMD_QUEUE \in Nat
      BY <1>4, TypeFacts, ClientAssumption DEF ClientInv, TypeOK
    <2> QED BY <1>4, <2>1
  <1>7. TypeOK' BY <1>3, <1>4, <1>5, <1>6 DEF ClientInv, TypeOK
  <1>8. (actor # "serve" => NoStream)' BY <1>3 DEF ClientInv, NoStream
  <1>9. OnStream' = OnStream BY <1>3, <1>4 DEF OnStream
  <1>10. IdsMatch' BY <1>3, <1>9 DEF ClientInv, IdsMatch
  <1>11. ReadFirst' BY <1>2, <1>3 DEF ClientInv, ReadFirst
  <1>12. x \notin Range(cmds) /\ x # held /\ \A y \in Range(out') : y.cmd # x
    BY <1>2, <1>4 DEF ClientInv, OnceEach
  <1>13. OnceEach' BY <1>3, <1>4, <1>12 DEF ClientInv, OnceEach
  <1>14. {r.cmd : r \in Range(out)} = {r.cmd : r \in Range(out')} \cup {x}
    BY <1>2, <1>4
  <1>15. Known' = Known BY <1>3, <1>14 DEF Known
  <1>16. \A c \in Caller : OwnCmd(c)' = OwnCmd(c) BY <1>3 DEF OwnCmd
  <1>17. IssuedOnce' BY <1>3, <1>15, <1>16 DEF ClientInv, IssuedOnce
  <1>18. AnswersOwnCall' /\ NoOrphanedCaller'
    BY <1>3, <1>16 DEF ClientInv, AnswersOwnCall, NoOrphanedCaller
  <1>19. PICK Q : Q = {OwnCmd(c) : c \in {d \in Caller : stage[d] = "send"}} OBVIOUS
  <1>20. x \notin Q
    <2>1. x \in Known BY <1>14 DEF Known
    <2> QED BY <1>19, <2>1 DEF ClientInv, IssuedOnce
  <1>21. x \notin {r.cmd : r \in Range(out')} BY <1>12
  <1>22. Unsent = Q \cup Range(cmds) \cup ({held} \ {Nil}) \cup {r.cmd : r \in Range(out)}
    BY <1>19 DEF Unsent
  <1>23. Unsent' = Q \cup Range(cmds) \cup ({held} \ {Nil}) \cup {r.cmd : r \in Range(out')}
    BY <1>3, <1>16, <1>19 DEF Unsent
  <1>24. x \in Unsent /\ Unsent' = Unsent \ {x}
    BY <1>12, <1>14, <1>20, <1>21, <1>22, <1>23
  <1>25. InCall' = InCall BY <1>3 DEF InCall
  <1>26. Abstract!CarryOut(x) BY <1>3, <1>24, <1>25 DEF Abstract!CarryOut
  <1>27. StepOfCalls BY <1>24, <1>26 DEF StepOfCalls, Abstract!Next
  <1> QED
    BY <1>7, <1>8, <1>10, <1>11, <1>13, <1>17, <1>18, <1>27 DEF ClientInv

\* The node answers or pushes: only the stream of responses grows.
LEMMA NodeSendsInv ==
  ASSUME ClientInv, NodeAnswers \/ NodePushes
  PROVE  ClientInv' /\ StepOfCalls
  <1>1. /\ up
        /\ UNCHANGED <<stage, calls, outcome, cmds, actor, backoff, generation, held,
                       pending, next_id, up, out, taken>>
    BY DEF NodeAnswers, NodePushes, callerVars, actorVars
  <1>2. PICK resp \in Response :
          /\ responses' = Append(responses, resp) /\ working' \subseteq working
          /\ resp = Pushed \/ \E r \in working : resp.id = r.id /\ resp.cmd = r.cmd
    <2>1. CASE NodeAnswers
      <3>1. PICK r \in working, b \in Body :
              /\ working' = working \ {r}
              /\ responses' = Append(responses, [id |-> r.id, cmd |-> r.cmd, body |-> b])
        BY <2>1 DEF NodeAnswers
      <3>2. r.id \in Nat /\ r.cmd \in Command BY TypeFacts DEF ClientInv, Request
      <3>3. [id |-> r.id, cmd |-> r.cmd, body |-> b] \in Response BY <3>2 DEF Response
      <3> QED BY <3>1, <3>3
    <2>2. CASE NodePushes BY <2>2 DEF NodePushes, Response
    <2> QED BY <2>1, <2>2
  <1>3. responses' \in Seq(Response) /\ Range(responses') = Range(responses) \cup {resp}
    BY <1>2, TypeFacts, AppendFacts DEF ClientInv
  <1>4. TypeOK' BY <1>1, <1>2, <1>3 DEF ClientInv, TypeOK
  <1>5. (actor # "serve" => NoStream)' BY <1>1 DEF ClientInv, NoStream
  <1>6. /\ resp.id < next_id
        /\ resp.id \in DOMAIN pending => resp.cmd = pending[resp.id]
        /\ resp.cmd # Nil => resp.cmd \in taken
    <2>1. CASE resp = Pushed
      <3>1. resp.id = 0 /\ resp.cmd = Nil BY <2>1 DEF Pushed
      <3> QED BY <3>1, TypeFacts DEF ClientInv
    <2>2. CASE \E r \in working : resp.id = r.id /\ resp.cmd = r.cmd
      BY <2>2 DEF ClientInv, IdsMatch, OnStream, ReadFirst
    <2> QED BY <1>2, <2>1, <2>2
  <1>7. OnStream' \subseteq OnStream \cup {resp} BY <1>1, <1>2, <1>3 DEF OnStream
  <1>8. IdsMatch' BY <1>1, <1>6, <1>7 DEF ClientInv, IdsMatch
  <1>9. ReadFirst' BY <1>1, <1>2, <1>3, <1>6 DEF ClientInv, ReadFirst
  <1>10. OnceEach' BY <1>1 DEF ClientInv, OnceEach
  <1>11. \A c \in Caller : OwnCmd(c)' = OwnCmd(c) BY <1>1 DEF OwnCmd
  <1>12. Known' = Known /\ Unsent' = Unsent BY <1>1, <1>11 DEF Known, Unsent
  <1>13. IssuedOnce' BY <1>1, <1>11, <1>12 DEF ClientInv, IssuedOnce
  <1>14. AnswersOwnCall' /\ NoOrphanedCaller'
    BY <1>1, <1>11 DEF ClientInv, AnswersOwnCall, NoOrphanedCaller
  <1>15. StepOfCalls BY <1>1, <1>12, Stutter
  <1> QED
    BY <1>4, <1>5, <1>8, <1>9, <1>10, <1>13, <1>14, <1>15 DEF ClientInv

\* The transport breaks: requests it has not delivered are lost.
LEMMA StreamBreaksInv ==
  ASSUME ClientInv, StreamBreaks
  PROVE  ClientInv' /\ StepOfCalls
  <1>1. PICK S : S = {r.cmd : r \in Range(out)} OBVIOUS
  <1>2. /\ actor = "serve" /\ up' = FALSE /\ out' = <<>> /\ working' = {}
        /\ responses' = Append(responses, Eof)
        /\ UNCHANGED <<stage, calls, outcome, cmds, actor, backoff, generation, held,
                       pending, next_id, taken>>
    BY DEF StreamBreaks, callerVars, actorVars
  <1>3. Eof \in Response /\ Eof.id = 0 /\ Eof.cmd = Nil BY DEF Response, Eof
  <1>4. responses' \in Seq(Response) /\ Range(responses') = Range(responses) \cup {Eof}
    BY <1>2, <1>3, TypeFacts, AppendFacts DEF ClientInv
  <1>5. Range(out') = {} /\ OnceCmd(out') BY <1>2, EmptyFacts
  <1>6. TypeOK'
    <2>1. out' \in Seq(Request) /\ Len(out') <= CMD_QUEUE /\ working' \subseteq Request
      BY <1>2, ClientAssumption
    <2>2. up' \in BOOLEAN BY <1>2
    <2> QED BY <1>2, <1>4, <2>1, <2>2 DEF ClientInv, TypeOK
  <1>7. (actor # "serve" => NoStream)' BY <1>2
  <1>8. OnStream' \subseteq OnStream \cup {Eof} BY <1>2, <1>4, <1>5 DEF OnStream
  <1>9. IdsMatch'
    <2>1. 0 < next_id /\ 0 \notin DOMAIN pending BY TypeFacts DEF ClientInv
    <2> QED BY <1>2, <1>3, <1>8, <2>1 DEF ClientInv, IdsMatch
  <1>10. ReadFirst' BY <1>2, <1>3, <1>4 DEF ClientInv, ReadFirst
  <1>11. OnceEach' BY <1>2, <1>5 DEF ClientInv, OnceEach
  <1>12. \A c \in Caller : OwnCmd(c)' = OwnCmd(c) BY <1>2 DEF OwnCmd
  <1>13. Known' \subseteq Known BY <1>2, <1>5 DEF Known
  <1>14. IssuedOnce' BY <1>2, <1>12, <1>13 DEF ClientInv, IssuedOnce
  <1>15. AnswersOwnCall' /\ NoOrphanedCaller'
    BY <1>2, <1>12 DEF ClientInv, AnswersOwnCall, NoOrphanedCaller
  <1>16. PICK Q : Q = {OwnCmd(c) : c \in {d \in Caller : stage[d] = "send"}} OBVIOUS
  <1>17. /\ Unsent = Q \cup Range(cmds) \cup ({held} \ {Nil}) \cup S
         /\ Unsent' = Q \cup Range(cmds) \cup ({held} \ {Nil})
    BY <1>1, <1>2, <1>5, <1>12, <1>16 DEF Unsent
  <1>18. \A x \in S : x \notin Q BY <1>1, <1>16 DEF ClientInv, IssuedOnce, Known
  <1>19. \A x \in S : x \notin Range(cmds) /\ x # held
    BY <1>1 DEF ClientInv, OnceEach
  <1>20. S \subseteq Unsent /\ Unsent' = Unsent \ S BY <1>17, <1>18, <1>19
  <1>21. outcome' \in [Caller -> Outcome \cup {Nil}] BY <1>2 DEF ClientInv, TypeOK
  <1>22. PICK C : C = {} OBVIOUS
  <1>23. /\ C \subseteq InCall
         /\ \A c \in C : stage'[c] = "idle" /\ outcome'[c] = Failed("unreachable")
                         /\ OwnCmd(c) \notin Unsent'
         /\ \A c \in Caller \ C : stage'[c] = stage[c] /\ outcome'[c] = outcome[c]
         /\ calls' = calls /\ taken' = taken
    BY <1>2, <1>22
  <1>24. StepOfCalls BY <1>20, <1>21, <1>23, LoseStep DEF ClientInv
  <1> QED
    BY <1>6, <1>7, <1>9, <1>10, <1>11, <1>14, <1>15, <1>24 DEF ClientInv

----------------------------------------------------------------------------
(* What the node owes *)

\* A step on which the pending table and the messages of the stream stay.
LEMMA OwedStays ==
  ASSUME PendingIsOwed, up' => up, pending' = pending,
         \A r \in OnStream : \E s \in OnStream' : s.id = r.id /\ s.cmd = r.cmd
  PROVE  PendingIsOwed'
  <1>1. PendingIsOwed <=> (up => \A i \in DOMAIN pending :
                             \E r \in OnStream : r.id = i /\ r.cmd = pending[i])
    BY DEF PendingIsOwed, OnStream
  <1>2. PendingIsOwed' <=> (up' => \A i \in DOMAIN pending' :
                              \E r \in OnStream' : r.id = i /\ r.cmd = pending'[i])
    BY DEF PendingIsOwed, OnStream
  <1> QED BY <1>1, <1>2

\* A request becomes pending as it enters the request channel.
LEMMA SendRequestOwed ==
  ASSUME ClientInv, PendingIsOwed, SendRequest
  PROVE  PendingIsOwed'
  <1> DEFINE m == [id |-> next_id, cmd |-> held]
  <1>1. /\ held # Nil /\ up /\ out' = Append(out, m)
        /\ DOMAIN pending' = DOMAIN pending \cup {next_id}
        /\ \A i \in DOMAIN pending' :
             pending'[i] = IF i = next_id THEN held ELSE pending[i]
        /\ UNCHANGED <<up, working, responses>>
    BY DEF SendRequest, RequestId
  <1>2. m \in Request /\ out \in Seq(Request)
    BY <1>1, TypeFacts DEF ClientInv, Request
  <1>3. m.id = next_id /\ m.cmd = held OBVIOUS
  <1> HIDE DEF m
  <1>4. Range(out') = Range(out) \cup {m}
    <2>1. Range(Append(out, m)) = Range(out) \cup {m} BY <1>2, AppendFacts
    <2> QED BY <1>1, <2>1
  <1>5. ASSUME NEW i \in DOMAIN pending'
        PROVE  \E r \in Range(out') \cup working' \cup Range(responses') :
                 r.id = i /\ r.cmd = pending'[i]
    <2>1. CASE i = next_id BY <2>1, <1>1, <1>3, <1>4
    <2>2. CASE i # next_id
      <3>1. i \in DOMAIN pending /\ pending'[i] = pending[i] BY <2>2, <1>1
      <3>2. PICK r \in Range(out) \cup working \cup Range(responses) :
              r.id = i /\ r.cmd = pending[i]
        BY <3>1, <1>1 DEF PendingIsOwed
      <3> QED BY <3>1, <3>2, <1>1, <1>4
    <2> QED BY <2>1, <2>2
  <1> QED BY <1>5 DEF PendingIsOwed

\* route takes the entry of the response it hands over, and no other.
LEMMA RouteOwed ==
  ASSUME ClientInv, PendingIsOwed, Route
  PROVE  PendingIsOwed'
  <1> DEFINE resp == Head(responses)
  <1>1. /\ responses # <<>> /\ responses' = Tail(responses)
        /\ DOMAIN pending' = DOMAIN pending \ {resp.id}
        /\ \A i \in DOMAIN pending' : pending'[i] = pending[i]
        /\ UNCHANGED <<up, out, working>>
    BY DEF Route, Answered
  <1> HIDE DEF resp
  <1>2. Range(responses) = {resp} \cup Range(responses')
    BY <1>1, TypeFacts, TailFacts DEF ClientInv, resp
  <1>3. ASSUME up', NEW i \in DOMAIN pending'
        PROVE  \E r \in Range(out') \cup working' \cup Range(responses') :
                 r.id = i /\ r.cmd = pending'[i]
    <2>1. PICK r \in Range(out) \cup working \cup Range(responses) :
            r.id = i /\ r.cmd = pending[i]
      BY <1>1, <1>3 DEF PendingIsOwed
    <2>2. r # resp BY <1>1, <2>1
    <2> QED BY <1>1, <1>2, <2>1, <2>2
  <1> QED BY <1>3 DEF PendingIsOwed

\* The node moves a request on, and never loses one while the stream is up.
LEMMA NodeOwed ==
  ASSUME ClientInv, PendingIsOwed, NodeReads \/ NodeAnswers \/ NodePushes
  PROVE  PendingIsOwed'
  <1>1. UNCHANGED <<up, pending>>
    BY DEF NodeReads, NodeAnswers, NodePushes, actorVars
  <1>2. CASE NodeReads
    <2>1. /\ out # <<>> /\ out' = Tail(out) /\ working' = working \cup {Head(out)}
          /\ responses' = responses
      BY <1>2 DEF NodeReads
    <2>2. Range(out) = {Head(out)} \cup Range(out')
      BY <2>1, TypeFacts, TailFacts DEF ClientInv
    <2>3. OnStream \subseteq OnStream' BY <2>1, <2>2 DEF OnStream
    <2> QED BY <1>1, <2>3, OwedStays
  <1>3. CASE NodeAnswers
    <2>1. PICK r \in working, b \in Body :
            /\ working' = working \ {r}
            /\ responses' = Append(responses, [id |-> r.id, cmd |-> r.cmd, body |-> b])
            /\ out' = out
      BY <1>3 DEF NodeAnswers
    <2> DEFINE m == [id |-> r.id, cmd |-> r.cmd, body |-> b]
    <2>2. m \in Response /\ m.id = r.id /\ m.cmd = r.cmd
      BY TypeFacts DEF ClientInv, Request, Response
    <2> HIDE DEF m
    <2>3. Range(responses') = Range(responses) \cup {m}
      BY <2>1, <2>2, TypeFacts, AppendFacts DEF ClientInv, m
    <2>4. \A s \in OnStream : s # r => s \in OnStream' BY <2>1, <2>3 DEF OnStream
    <2>5. m \in OnStream' BY <2>3 DEF OnStream
    <2> QED BY <1>1, <2>2, <2>4, <2>5, OwedStays
  <1>4. CASE NodePushes
    <2>1. /\ responses' = Append(responses, Pushed) /\ out' = out
          /\ working' = working
      BY <1>4 DEF NodePushes
    <2>2. Range(responses') = Range(responses) \cup {Pushed}
      BY <2>1, TypeFacts, AppendFacts DEF ClientInv, Response
    <2>3. OnStream \subseteq OnStream' BY <2>1, <2>2 DEF OnStream
    <2> QED BY <1>1, <2>3, OwedStays
  <1> QED BY <1>2, <1>3, <1>4

\* Every step keeps the pending table to what the node owes.
LEMMA NextOwed ==
  ASSUME ClientInv, PendingIsOwed, [Next]_vars
  PROVE  PendingIsOwed'
  <1>1. ASSUME UNCHANGED <<pending, up, out, working, responses>>
        PROVE  PendingIsOwed'
    BY <1>1 DEF PendingIsOwed
  <1>2. ASSUME NEW c \in Caller, Call(c) \/ Enqueue(c) \/ TimeOut(c)
        PROVE  PendingIsOwed'
    BY <1>1, <1>2 DEF Call, Enqueue, TimeOut, actorVars, streamVars
  <1>3. CASE ConnectFails \/ Wake \/ ConnectOk \/ TakeCmd
    BY <1>1, <1>3 DEF ConnectFails, Wake, ConnectOk, TakeCmd, streamVars
  <1>4. CASE OpenStream
    <2>1. CASE pending' = NoPending BY <2>1 DEF PendingIsOwed, NoPending
    <2>2. CASE UNCHANGED <<streamVars, pending>>
      BY <1>1, <2>2 DEF streamVars
    <2> QED BY <1>4, <2>1, <2>2 DEF OpenStream
  <1>5. CASE SendRequest BY <1>5, SendRequestOwed
  <1>6. CASE SendFails \/ StreamEnds
    BY <1>6 DEF SendFails, StreamEnds, StreamLost, PendingIsOwed
  <1>7. CASE Route BY <1>7, RouteOwed
  <1>8. CASE NodeReads \/ NodeAnswers \/ NodePushes BY <1>8, NodeOwed
  <1>9. CASE StreamBreaks BY <1>9 DEF StreamBreaks, PendingIsOwed
  <1>10. CASE UNCHANGED vars BY <1>1, <1>10 DEF vars, actorVars, streamVars
  <1> QED
    BY <1>2, <1>3, <1>4, <1>5, <1>6, <1>7, <1>8, <1>9, <1>10 DEF Next, Actor

----------------------------------------------------------------------------
(* Theorems *)

\* The client starts without a stream and without callers.
LEMMA InitClient ==
  ASSUME Init
  PROVE  ClientInv /\ Abstract!Init
  <1>1. /\ stage = [c \in Caller |-> "idle"] /\ calls = [c \in Caller |-> 0]
        /\ outcome = [c \in Caller |-> Nil] /\ cmds = <<>>
        /\ actor = "connect" /\ backoff = 1 /\ generation = 0
        /\ held = Nil /\ pending = NoPending /\ next_id = 1
        /\ up = FALSE /\ out = <<>> /\ working = {} /\ responses = <<>> /\ taken = {}
    BY DEF Init
  <1>2. Range(<<>>) = {} /\ Once(<<>>) /\ OnceCmd(<<>>) BY EmptyFacts
  <1>3. DOMAIN NoPending = {} /\ Range(NoPending) = {} BY DEF NoPending, Range
  <1>4. TypeOK
    <2>1. /\ cmds \in Seq(Command) /\ out \in Seq(Request) /\ responses \in Seq(Response)
          /\ Len(cmds) <= CMD_QUEUE /\ Len(out) <= CMD_QUEUE
          /\ backoff \in 1 .. RECONNECT_MAX /\ calls \in [Caller -> 0 .. MaxCalls]
          /\ DOMAIN pending \subseteq 1 .. next_id - 1
      BY <1>1, <1>3, ClientAssumption
    <2>2. up \in BOOLEAN BY <1>1
    <2> QED BY <1>1, <1>3, <2>1, <2>2 DEF TypeOK
  <1>5. NoStream BY <1>1 DEF NoStream
  <1>6. IdsMatch /\ ReadFirst BY <1>1, <1>2 DEF IdsMatch, OnStream, ReadFirst
  <1>7. OnceEach BY <1>1, <1>2, <1>3 DEF OnceEach
  <1>8. Known = {} BY <1>1, <1>2, <1>3 DEF Known
  <1>9. IssuedOnce BY <1>1, <1>8 DEF IssuedOnce
  <1>10. AnswersOwnCall /\ NoOrphanedCaller
    BY <1>1 DEF AnswersOwnCall, NoOrphanedCaller
  <1>11. Unsent = {} /\ InCall = {} BY <1>1, <1>2 DEF Unsent, InCall
  <1>12. Abstract!Init BY <1>1, <1>11 DEF Abstract!Init
  <1> QED BY <1>4, <1>5, <1>6, <1>7, <1>9, <1>10, <1>12 DEF ClientInv

\* Every step keeps the invariant and is a step of Calls, or none.
LEMMA NextClient ==
  ASSUME ClientInv, [Next]_vars
  PROVE  ClientInv' /\ StepOfCalls
  <1>1. ASSUME NEW c \in Caller, Call(c) \/ Enqueue(c) \/ TimeOut(c)
        PROVE  ClientInv' /\ StepOfCalls
    BY <1>1, CallInv, EnqueueInv, TimeOutInv
  <1>2. CASE ConnectFails BY <1>2, ConnectFailsInv
  <1>3. CASE Wake \/ ConnectOk \/ OpenStream BY <1>3, ConnectInv
  <1>4. CASE TakeCmd BY <1>4, TakeCmdInv
  <1>5. CASE SendRequest BY <1>5, SendRequestInv
  <1>6. CASE SendFails \/ StreamEnds BY <1>6, StreamLostInv
  <1>7. CASE Route BY <1>7, RouteInv
  <1>8. CASE NodeReads BY <1>8, NodeReadsInv
  <1>9. CASE NodeAnswers \/ NodePushes BY <1>9, NodeSendsInv
  <1>10. CASE StreamBreaks BY <1>10, StreamBreaksInv
  <1>11. CASE UNCHANGED vars
    <2>1. UNCHANGED <<stage, calls, outcome, cmds, actor, backoff, generation, held,
                      pending, next_id, up, out, working, responses, taken>>
      BY <1>11 DEF vars, callerVars, actorVars, streamVars
    <2>2. \A c \in Caller : OwnCmd(c)' = OwnCmd(c) BY <2>1 DEF OwnCmd
    <2>3. TypeOK' BY <2>1 DEF ClientInv, TypeOK
    <2>4. (actor # "serve" => NoStream)' BY <2>1 DEF ClientInv, NoStream
    <2>5. IdsMatch' /\ OnceEach' /\ ReadFirst'
      BY <2>1 DEF ClientInv, IdsMatch, OnStream, OnceEach, ReadFirst
    <2>6. Known' = Known /\ Unsent' = Unsent BY <2>1, <2>2 DEF Known, Unsent
    <2>7. IssuedOnce' BY <2>1, <2>2, <2>6 DEF ClientInv, IssuedOnce
    <2>8. AnswersOwnCall' /\ NoOrphanedCaller'
      BY <2>1, <2>2 DEF ClientInv, AnswersOwnCall, NoOrphanedCaller
    <2>9. StepOfCalls BY <2>1, <2>6, Stutter
    <2> QED BY <2>3, <2>4, <2>5, <2>7, <2>8, <2>9 DEF ClientInv
  <1> QED
    BY <1>1, <1>2, <1>3, <1>4, <1>5, <1>6, <1>7, <1>8, <1>9, <1>10, <1>11
    DEF Next, Actor

\* The actor's bookkeeping holds in every reachable state.
THEOREM ClientInvariance == Spec => []ClientInv
  <1>1. Init => ClientInv BY InitClient
  <1>2. ClientInv /\ [Next]_vars => ClientInv' BY NextClient
  <1> QED BY <1>1, <1>2, PTL DEF Spec

\* The channels keep to their capacity, the backoff to its cap, and the ids of
\* pending requests below next_id.
THEOREM ClientTypeCorrect == Spec => []TypeOK
  <1>1. ClientInv => TypeOK BY DEF ClientInv
  <1> QED BY <1>1, ClientInvariance, PTL

\* route never hands a caller the response to another call, however late the
\* response and however often the ids start again at 1.
THEOREM OwnAnswers == Spec => []AnswersOwnCall
  <1>1. ClientInv => AnswersOwnCall BY DEF ClientInv
  <1> QED BY <1>1, ClientInvariance, PTL

\* No caller waits for a command the actor does not have any more.
THEOREM NoCallerLost == Spec => []NoOrphanedCaller
  <1>1. ClientInv => NoOrphanedCaller BY DEF ClientInv
  <1> QED BY <1>1, ClientInvariance, PTL

\* The pending table never holds an entry the node does not owe: each stands
\* for a request on its way, in work or answered on this very stream, also when
\* its caller has timed out.
THEOREM PendingBounded == Spec => []PendingIsOwed
  <1>1. Init => PendingIsOwed BY DEF Init, PendingIsOwed
  <1>2. ClientInv /\ PendingIsOwed /\ [Next]_vars => PendingIsOwed' BY NextOwed
  <1> QED BY <1>1, <1>2, ClientInvariance, PTL DEF Spec

\* call, actor, serve, route and fail_all implement Calls.
THEOREM ClientImplementsCalls == Spec => ImplementsCalls
  <1>1. Init => Abstract!Init BY InitClient
  <1>2. ClientInv /\ [Next]_vars => [Abstract!Next]_(Abstract!callsVars)
    BY NextClient DEF StepOfCalls
  <1> QED
    BY <1>1, <1>2, ClientInvariance, PTL DEF Spec, ImplementsCalls, Abstract!Spec

=============================================================================
