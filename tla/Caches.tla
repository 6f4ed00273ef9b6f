------------------------------- MODULE Caches -------------------------------
(***************************************************************************)
(* The TTL cells (src/cache.rs) and the handlers that answer from them:    *)
(* /info, /market and /ai/providers of src/api/handlers.rs.  Requests run  *)
(* concurrently: two of them may miss the same cell, and the one whose     *)
(* answer is older may store it last.  An /info is put together from cells *)
(* of its own, so what it serves has been cached twice.                    *)
(*                                                                         *)
(* A response is a function from the calls it is made of to what each gave *)
(* and how long ago.  Time is a tick at which every age grows.  A call     *)
(* ends within CallTimeout, as `call` of src/node.rs and the HTTP client   *)
(* make it do.                                                             *)
(***************************************************************************)
EXTENDS Integers

CONSTANTS
  Req,                  \* concurrent requests
  Ttl,                  \* of each cell
  CallTimeout,
  Versions,             \* node versions, <<major, minor, patch>> or Nil
  SERVICE_PROVIDERS_MIN_NODE,
  Downgrades,           \* the node may be replaced by an older one
  Nil

Cells == {"info", "hashrate", "block_reward", "market", "node_version", "ai_providers"}
Endpoints == {"info", "market", "ai_providers"}

ASSUME CachesAssumption ==
  /\ Ttl \in [Cells -> Nat \ {0}] /\ CallTimeout \in Nat
  /\ Nil \in Versions /\ Downgrades \in BOOLEAN

VARIABLES
  endpoint,   \* what is asked for; the endpoints share no cell
  version,    \* what the node runs; Nil is a version string with no number
  broken,     \* the request the node does not know has reached it
  cells,      \* the slot of each cell: when it was stored, and the parts
  req         \* where each request is, and what it holds

vars == <<endpoint, version, broken, cells, req>>

----------------------------------------------------------------------------
(* TtlCell *)

\* Serves a value on its last instant too.
MutFresh(cell) == cells[cell] # Nil /\ cells[cell].elapsed <= Ttl[cell]

fresh(cell) == cells[cell] # Nil /\ cells[cell].elapsed < Ttl[cell]

store(cell, parts) == cells' = [cells EXCEPT ![cell] = [elapsed |-> 0, parts |-> parts]]

----------------------------------------------------------------------------
(* What the cells hold *)

\* The calls that fill a cell; those of one cell are sent together.
Calls(cell) ==
  CASE cell = "info" -> {"dag", "supply"}
    [] cell = "ai_providers" -> {"cohort", "window"}
    [] OTHER -> {cell}

\* get_or_init: a failed call gives a zero, and the zero is stored as an answer
\* is.
BestEffort(cell) == cell \in {"hashrate", "block_reward"}

\* The versions are compared as tuples.
Less(v, w) ==
  \/ v[1] < w[1]
  \/ v[1] = w[1] /\ v[2] < w[2]
  \/ v[1] = w[1] /\ v[2] = w[2] /\ v[3] < w[3]

\* Lets a node through that gives no version.
MutTooOld(v) == v # Nil /\ Less(v, SERVICE_PROVIDERS_MIN_NODE)

TooOld(v) == v # Nil => Less(v, SERVICE_PROVIDERS_MIN_NODE)

\* A node of that version knows getServiceProviders.
Knows(v) == v # Nil /\ ~Less(v, SERVICE_PROVIDERS_MIN_NODE)

----------------------------------------------------------------------------
(* The handlers *)

NoParts == [c \in {} |-> Nil]

\* The parts of f and those of g, f's where both have one.
Merged(f, g) ==
  [c \in DOMAIN f \cup DOMAIN g |-> IF c \in DOMAIN f THEN f[c] ELSE g[c]]

Idle == [pc |-> "idle", cell |-> Nil, since |-> 0, wait |-> {}, parts |-> NoParts]

At(pc, cell, parts) ==
  [pc |-> pc, cell |-> cell, since |-> 0, wait |-> {}, parts |-> parts]

\* Where a request goes with the value of a cell.
With(cell, parts) ==
  CASE cell = "hashrate"     -> At("look", "block_reward", parts)
    [] cell = "block_reward" -> At("store", "info", parts)
    [] cell = "node_version" -> IF TooOld(parts["node_version"].value)
                                THEN At("unavailable", Nil, parts)
                                ELSE At("look", "ai_providers", NoParts)
    [] OTHER                 -> At("ok", Nil, parts)

Start(r) ==
  /\ req[r] = Idle
  /\ req' = [req EXCEPT ![r] =
       At("look", IF endpoint = "ai_providers" THEN "node_version" ELSE endpoint, NoParts)]
  /\ UNCHANGED <<endpoint, version, broken, cells>>

\* A fresh cell is used; else its calls are sent.
Look(r) ==
  LET cell == req[r].cell
  IN /\ req[r].pc = "look"
     /\ req' = [req EXCEPT ![r] =
          IF fresh(cell) THEN With(cell, Merged(cells[cell].parts, @.parts))
          ELSE [@ EXCEPT !.pc = "ask", !.wait = Calls(cell)]]
     /\ UNCHANGED <<endpoint, version, broken, cells>>

Got(r, call, value) ==
  req' = [req EXCEPT ![r].wait = @ \ {call},
                     ![r].parts = Merged([c \in {call} |-> [value |-> value, age |-> 0]], @)]

\* A node that does not know getServiceProviders drops the stream.
Answer(r, call) ==
  /\ req[r].pc = "ask" /\ call \in req[r].wait
  /\ IF req[r].cell = "ai_providers" /\ ~Knows(version)
     THEN broken' = TRUE /\ req' = [req EXCEPT ![r] = At("failed", Nil, NoParts)]
     ELSE broken' = broken /\ Got(r, call, IF call = "node_version" THEN version ELSE Nil)
  /\ UNCHANGED <<endpoint, version, cells>>

\* A call fails or times out.  Errors are not cached, but zeros are.
CallFails(r, call) ==
  /\ req[r].pc = "ask" /\ call \in req[r].wait
  /\ IF BestEffort(req[r].cell) THEN Got(r, call, Nil)
     ELSE req' = [req EXCEPT ![r] = At("failed", Nil, NoParts)]
  /\ UNCHANGED <<endpoint, version, broken, cells>>

\* All calls of the cell have been answered.  build_info goes on to the cells
\* it needs before the info cell is stored.
Resume(r) ==
  LET cell == req[r].cell
      parts == req[r].parts
  IN /\ req[r].pc = "ask" /\ req[r].wait = {}
     /\ IF cell = "info"
        THEN req' = [req EXCEPT ![r] = At("look", "hashrate", parts)] /\ UNCHANGED cells
        ELSE /\ store(cell, [c \in Calls(cell) |-> parts[c]])
             /\ req' = [req EXCEPT ![r] = With(cell, parts)]
     /\ UNCHANGED <<endpoint, version, broken>>

StoreInfo(r) ==
  /\ req[r].pc = "store"
  /\ store("info", req[r].parts)
  /\ req' = [req EXCEPT ![r] = At("ok", Nil, @.parts)]
  /\ UNCHANGED <<endpoint, version, broken>>

Done(r) ==
  /\ req[r].pc \in {"ok", "failed", "unavailable"}
  /\ req' = [req EXCEPT ![r] = Idle]
  /\ UNCHANGED <<endpoint, version, broken, cells>>

----------------------------------------------------------------------------

Aged(parts) == [c \in DOMAIN parts |-> [parts[c] EXCEPT !.age = @ + 1]]

\* Time passes while requests wait for calls, or there are none.  A slot past
\* its TTL is as good as an empty one, for good.
Tick ==
  /\ \A r \in Req : req[r] = Idle \/ (req[r].pc = "ask" /\ req[r].since < CallTimeout)
  /\ cells' = [c \in Cells |->
       IF cells[c] = Nil \/ cells[c].elapsed = Ttl[c] THEN Nil
       ELSE [elapsed |-> cells[c].elapsed + 1, parts |-> Aged(cells[c].parts)]]
  /\ req' = [r \in Req |-> IF req[r] = Idle THEN Idle
       ELSE [req[r] EXCEPT !.since = @ + 1, !.parts = Aged(@)]]
  /\ UNCHANGED <<endpoint, version, broken>>

\* The node is restarted with another version.
Replace(v) ==
  /\ v # version /\ endpoint = "ai_providers"
  /\ Knows(v) \/ ~Knows(version) \/ Downgrades
  /\ version' = v
  /\ UNCHANGED <<endpoint, broken, cells, req>>

Init ==
  /\ endpoint \in Endpoints
  /\ version \in IF endpoint = "ai_providers" THEN Versions ELSE {Nil}
  /\ broken = FALSE
  /\ cells = [c \in Cells |-> Nil]
  /\ req = [r \in Req |-> Idle]

Next ==
  \/ Tick
  \/ \E v \in Versions : Replace(v)
  \/ \E r \in Req :
       \/ Start(r) \/ Look(r) \/ Resume(r) \/ StoreInfo(r) \/ Done(r)
       \/ \E call \in req[r].wait : Answer(r, call) \/ CallFails(r, call)

Spec == Init /\ [][Next]_vars

----------------------------------------------------------------------------
(* Properties *)

\* How old a part of a response may be: the TTLs it has passed through, and
\* the calls that were waited for on the way.
Bound(part) ==
  CASE part \in {"dag", "supply"} -> Ttl["info"] + 3 * CallTimeout
    [] part = "hashrate" -> Ttl["hashrate"] + Ttl["info"] + 2 * CallTimeout
    [] part = "block_reward" -> Ttl["block_reward"] + Ttl["info"] + CallTimeout
    [] part \in {"cohort", "window"} -> Ttl["ai_providers"] + CallTimeout
    [] OTHER -> Ttl[part] + CallTimeout

\* Nothing a handler returns is older than the TTLs it was cached under and
\* the calls awaited on the way allow, also when concurrent misses store their
\* answers in the wrong order: the figures of /info (a zero stored for a call
\* that failed included), the providers, and the version a node is refused on.
StalenessBound ==
  \A r \in Req : req[r].pc \in {"ok", "unavailable"} =>
    \A part \in DOMAIN req[r].parts : req[r].parts[part].age < Bound(part)

\* getServiceProviders is not sent to a node that does not know it: it is
\* "never sent: it would drop the gRPC stream" (README.md:92).
NeverSentToOldNode == ~broken

=============================================================================
