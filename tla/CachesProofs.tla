---------------------------- MODULE CachesProofs ----------------------------
(***************************************************************************)
(* Proofs about Caches, for every number of concurrent requests, every TTL *)
(* and every call timeout: no part of a response is older than its bound,  *)
(* and a node that is only ever upgraded is not sent a request it does not *)
(* know.                                                                   *)
(*                                                                         *)
(* The bounds hold because of what is known at each await of a handler:    *)
(* which parts it holds by then and how long each has been under way.      *)
(***************************************************************************)
EXTENDS Caches, TLAPS

PartNames == {"dag", "supply", "hashrate", "block_reward", "market", "node_version",
              "cohort", "window"}

Part == [value : Versions, age : Nat]

\* What a request or a cell can hold.
AllParts == UNION {[S -> Part] : S \in SUBSET PartNames}

ReqRec ==
  [pc : {"idle", "look", "ask", "store", "ok", "failed", "unavailable"},
   cell : Cells \cup {Nil}, since : Nat, wait : SUBSET PartNames, parts : AllParts]

InfoParts == {"dag", "supply", "hashrate", "block_reward"}

\* The parts a request has when it comes to a cell.
Holds(cell) ==
  IF cell = "hashrate" THEN {"dag", "supply"}
  ELSE IF cell = "block_reward" THEN {"dag", "supply", "hashrate"}
  ELSE {}

\* How old they are at most by then.
Waited(cell, part) ==
  IF cell = "hashrate" THEN CallTimeout
  ELSE IF part = "hashrate" THEN Ttl["hashrate"] - 1 + CallTimeout
  ELSE 2 * CallTimeout

\* The parts a cell keeps.
Contents(cell) == IF cell = "info" THEN InfoParts ELSE Calls(cell)

\* How old they are at most when they are stored.
Slack(cell, part) ==
  IF cell # "info" THEN CallTimeout
  ELSE IF part = "hashrate" THEN Ttl["hashrate"] - 1 + 2 * CallTimeout
  ELSE IF part = "block_reward" THEN Ttl["block_reward"] - 1 + CallTimeout
  ELSE 3 * CallTimeout

\* What is known of request q at each of its awaits.
ReqOK(q) ==
  /\ q.pc \in {"look", "ask"} => q.cell \in Cells
  /\ q.pc = "look" =>
       /\ q.since = 0 /\ DOMAIN q.parts = Holds(q.cell)
       /\ \A x \in DOMAIN q.parts : q.parts[x].age <= Waited(q.cell, x)
  /\ q.pc = "ask" =>
       /\ q.since <= CallTimeout /\ q.wait \subseteq Calls(q.cell)
       /\ DOMAIN q.parts = Holds(q.cell) \cup (Calls(q.cell) \ q.wait)
       /\ \A x \in DOMAIN q.parts :
            q.parts[x].age <= q.since + (IF x \in Calls(q.cell) THEN 0 ELSE Waited(q.cell, x))
  /\ q.pc = "store" =>
       /\ DOMAIN q.parts = InfoParts
       /\ \A x \in DOMAIN q.parts : q.parts[x].age <= Slack("info", x)
  /\ q.pc \in {"ok", "unavailable"} =>
       \A x \in DOMAIN q.parts : q.parts[x].age < Bound(x)

\* What is known of the slot of a cell.
SlotOK(cell, slot) ==
  slot # Nil => /\ slot \in [elapsed : Nat, parts : AllParts]
                /\ DOMAIN slot.parts = Contents(cell)
                /\ \A x \in DOMAIN slot.parts :
                     slot.parts[x].age <= slot.elapsed + Slack(cell, x)

AgesInv ==
  /\ endpoint \in Endpoints /\ version \in Versions
  /\ req \in [Req -> ReqRec] /\ \A r \in Req : ReqOK(req[r])
  /\ DOMAIN cells = Cells /\ \A c \in Cells : SlotOK(c, cells[c])

\* A version that lets a request through is one the node has, or had before an
\* upgrade.
Reliable(parts) == TooOld(parts["node_version"].value) \/ Knows(version)

\* What is known of request q once the version it waited for is there.
VersionOK(q) ==
  /\ q.pc \in {"look", "ask"} /\ q.cell = "ai_providers" => Knows(version)
  /\ q.pc = "ask" /\ q.cell = "node_version" /\ q.wait = {} => Reliable(q.parts)

VersionInv ==
  /\ broken = FALSE
  /\ cells["node_version"] # Nil => Reliable(cells["node_version"].parts)
  /\ \A r \in Req : VersionOK(req[r])

----------------------------------------------------------------------------
(* Definitions by cases *)

\* The calls of each cell.
LEMMA CallsFacts ==
  /\ Calls("info") = {"dag", "supply"} /\ Calls("ai_providers") = {"cohort", "window"}
  /\ \A cell \in Cells \ {"info", "ai_providers"} : Calls(cell) = {cell}
  /\ \A cell \in Cells : /\ Calls(cell) \subseteq PartNames
                         /\ Calls(cell) \cap Holds(cell) = {}
  <1>1. Calls("info") = {"dag", "supply"} BY Zenon DEF Calls
  <1>2. Calls("ai_providers") = {"cohort", "window"} BY Zenon DEF Calls
  <1>3. \A cell \in Cells \ {"info", "ai_providers"} : Calls(cell) = {cell}
    BY Zenon DEF Calls
  <1>4. \A cell \in Cells : /\ Calls(cell) \subseteq PartNames
                            /\ Calls(cell) \cap Holds(cell) = {}
    BY <1>1, <1>2, <1>3, SMT DEF Cells, PartNames, Holds
  <1> QED BY <1>1, <1>2, <1>3, <1>4

\* Where each cell's value leads.
LEMMA WithFacts ==
  ASSUME NEW parts
  PROVE  /\ With("hashrate", parts) = At("look", "block_reward", parts)
         /\ With("block_reward", parts) = At("store", "info", parts)
         /\ With("node_version", parts) = IF TooOld(parts["node_version"].value)
                                          THEN At("unavailable", Nil, parts)
                                          ELSE At("look", "ai_providers", NoParts)
         /\ \A cell \in {"info", "market", "ai_providers"} :
              With(cell, parts) = At("ok", Nil, parts)
  <1>1. With("hashrate", parts) = At("look", "block_reward", parts) BY Zenon DEF With
  <1>2. With("block_reward", parts) = At("store", "info", parts) BY Zenon DEF With
  <1>3. With("node_version", parts) = IF TooOld(parts["node_version"].value)
                                      THEN At("unavailable", Nil, parts)
                                      ELSE At("look", "ai_providers", NoParts)
    BY Zenon DEF With
  <1>4. \A cell \in {"info", "market", "ai_providers"} :
          With(cell, parts) = At("ok", Nil, parts)
    BY Zenon DEF With
  <1> QED BY <1>1, <1>2, <1>3, <1>4

\* The bound of each part.
LEMMA BoundFacts ==
  /\ Bound("dag") = Ttl["info"] + 3 * CallTimeout
  /\ Bound("supply") = Ttl["info"] + 3 * CallTimeout
  /\ Bound("hashrate") = Ttl["hashrate"] + Ttl["info"] + 2 * CallTimeout
  /\ Bound("block_reward") = Ttl["block_reward"] + Ttl["info"] + CallTimeout
  /\ Bound("cohort") = Ttl["ai_providers"] + CallTimeout
  /\ Bound("window") = Ttl["ai_providers"] + CallTimeout
  /\ Bound("market") = Ttl["market"] + CallTimeout
  /\ Bound("node_version") = Ttl["node_version"] + CallTimeout
  BY Zenon DEF Bound

\* The times are positive numbers.
LEMMA Times ==
  /\ CallTimeout \in Nat
  /\ \A cell \in Cells : Ttl[cell] \in Nat /\ Ttl[cell] >= 1
  BY CachesAssumption

\* What the sets of parts are.
LEMMA PartsFacts ==
  ASSUME NEW p
  PROVE  p \in AllParts <=> DOMAIN p \subseteq PartNames /\ p \in [DOMAIN p -> Part]
  BY DEF AllParts

\* A request as the handlers make it.
LEMMA AtFacts ==
  ASSUME NEW pc \in {"look", "store", "ok", "failed", "unavailable"},
         NEW cell \in Cells \cup {Nil}, NEW parts \in AllParts
  PROVE  /\ At(pc, cell, parts) \in ReqRec
         /\ At(pc, cell, parts).pc = pc /\ At(pc, cell, parts).cell = cell
         /\ At(pc, cell, parts).since = 0 /\ At(pc, cell, parts).parts = parts
  BY DEF At, ReqRec

\* No parts at all.
LEMMA NoPartsFacts == NoParts \in AllParts /\ DOMAIN NoParts = {}
  BY PartsFacts DEF NoParts

\* An idle request is idle.
LEMMA IdleFacts == Idle \in ReqRec /\ Idle.pc = "idle"
  BY NoPartsFacts DEF Idle, ReqRec

\* Merging keeps the parts of both, the first one's first.
LEMMA MergedFacts ==
  ASSUME NEW f \in AllParts, NEW g \in AllParts
  PROVE  /\ Merged(f, g) \in AllParts
         /\ DOMAIN Merged(f, g) = DOMAIN f \cup DOMAIN g
         /\ \A x \in DOMAIN f : Merged(f, g)[x] = f[x]
         /\ \A x \in DOMAIN g \ DOMAIN f : Merged(f, g)[x] = g[x]
  <1>1. /\ DOMAIN f \subseteq PartNames /\ f \in [DOMAIN f -> Part]
        /\ DOMAIN g \subseteq PartNames /\ g \in [DOMAIN g -> Part]
    BY PartsFacts
  <1>2. /\ DOMAIN Merged(f, g) = DOMAIN f \cup DOMAIN g
        /\ Merged(f, g) \in [DOMAIN f \cup DOMAIN g -> Part]
        /\ \A x \in DOMAIN f : Merged(f, g)[x] = f[x]
        /\ \A x \in DOMAIN g \ DOMAIN f : Merged(f, g)[x] = g[x]
    BY <1>1 DEF Merged
  <1>3. Merged(f, g) \in AllParts BY <1>1, <1>2, PartsFacts
  <1> QED BY <1>2, <1>3

\* A tick ages every part by one.
LEMMA AgedFacts ==
  ASSUME NEW p \in AllParts
  PROVE  /\ Aged(p) \in AllParts /\ DOMAIN Aged(p) = DOMAIN p
         /\ \A x \in DOMAIN p : /\ Aged(p)[x].age = p[x].age + 1
                                /\ Aged(p)[x].value = p[x].value
                                /\ p[x].age \in Nat
  <1>1. DOMAIN p \subseteq PartNames /\ p \in [DOMAIN p -> Part] BY PartsFacts
  <1>2. \A x \in DOMAIN p : p[x] \in Part BY <1>1
  <1>3. \A x \in DOMAIN p : /\ [p[x] EXCEPT !.age = @ + 1] \in Part
                            /\ [p[x] EXCEPT !.age = @ + 1].age = p[x].age + 1
                            /\ [p[x] EXCEPT !.age = @ + 1].value = p[x].value
                            /\ p[x].age \in Nat
    BY <1>2 DEF Part
  <1>4. DOMAIN Aged(p) = DOMAIN p /\ Aged(p) \in [DOMAIN p -> Part]
    BY <1>3 DEF Aged
  <1>5. Aged(p) \in AllParts BY <1>1, <1>4, PartsFacts
  <1> QED BY <1>3, <1>4, <1>5 DEF Aged

\* The limits are numbers.
LEMMA LimitTypes ==
  ASSUME NEW cell \in Cells
  PROVE  /\ \A x \in Holds(cell) : Waited(cell, x) \in Nat
         /\ \A x \in Contents(cell) : Slack(cell, x) \in Nat
  BY Times DEF Holds, Waited, Contents, Slack, Cells

\* The ages of parts are numbers.
LEMMA AgeType ==
  ASSUME NEW p \in AllParts
  PROVE  \A x \in DOMAIN p : p[x].age \in Nat
  BY PartsFacts DEF Part

\* A value of a cell, fresh or just asked for, takes a request where it may go.
LEMMA WithOK ==
  ASSUME NEW cell \in Cells, NEW p \in AllParts,
         DOMAIN p = Holds(cell) \cup Contents(cell),
         \A x \in Contents(cell) : p[x].age <= Ttl[cell] - 1 + Slack(cell, x),
         \A x \in Holds(cell) : p[x].age <= Waited(cell, x) + CallTimeout
  PROVE  With(cell, p) \in ReqRec /\ ReqOK(With(cell, p))
  <1>1. /\ CallTimeout \in Nat /\ \A c \in Cells : Ttl[c] \in Nat /\ Ttl[c] >= 1
        /\ \A x \in DOMAIN p : p[x].age \in Nat
    BY Times, AgeType
  <1>2. CASE cell = "hashrate"
    <2>1. With(cell, p) = At("look", "block_reward", p) BY <1>2, WithFacts
    <2>2. DOMAIN p = {"dag", "supply", "hashrate"}
      BY <1>2, CallsFacts DEF Holds, Contents, Cells
    <2>3. /\ p["dag"].age <= 2 * CallTimeout /\ p["supply"].age <= 2 * CallTimeout
          /\ p["hashrate"].age <= Ttl["hashrate"] - 1 + CallTimeout
      BY <1>1, <1>2, <2>2, CallsFacts DEF Holds, Contents, Waited, Slack, Cells
    <2>4. \A x \in DOMAIN p : p[x].age <= Waited("block_reward", x)
      BY <2>2, <2>3 DEF Waited
    <2> QED BY <2>1, <2>2, <2>4, AtFacts DEF ReqOK, Cells, Holds
  <1>3. CASE cell = "block_reward"
    <2>1. With(cell, p) = At("store", "info", p) BY <1>3, WithFacts
    <2>2. DOMAIN p = InfoParts
      BY <1>3, CallsFacts DEF Holds, Contents, Cells, InfoParts
    <2>3. /\ p["dag"].age <= 3 * CallTimeout /\ p["supply"].age <= 3 * CallTimeout
          /\ p["hashrate"].age <= Ttl["hashrate"] - 1 + 2 * CallTimeout
          /\ p["block_reward"].age <= Ttl["block_reward"] - 1 + CallTimeout
      BY <1>1, <1>3, <2>2, CallsFacts
      DEF Holds, Contents, Waited, Slack, Cells, InfoParts
    <2>4. \A x \in DOMAIN p : p[x].age <= Slack("info", x)
      BY <2>2, <2>3 DEF Slack, InfoParts
    <2> QED BY <2>1, <2>2, <2>4, AtFacts DEF ReqOK, Cells
  <1>4. CASE cell = "node_version"
    <2>1. DOMAIN p = {"node_version"}
      BY <1>4, CallsFacts DEF Holds, Contents, Cells
    <2>2. p["node_version"].age < Bound("node_version")
      BY <1>1, <1>4, <2>1, CallsFacts, BoundFacts DEF Contents, Slack, Cells
    <2>3. CASE TooOld(p["node_version"].value)
      <3>1. With(cell, p) = At("unavailable", Nil, p) BY <1>4, <2>3, WithFacts
      <3> QED BY <3>1, <2>1, <2>2, AtFacts DEF ReqOK
    <2>4. CASE ~TooOld(p["node_version"].value)
      <3>1. With(cell, p) = At("look", "ai_providers", NoParts)
        BY <1>4, <2>4, WithFacts
      <3> QED BY <3>1, AtFacts, NoPartsFacts DEF ReqOK, Cells, Holds
    <2> QED BY <2>3, <2>4
  <1>5. CASE cell \in {"info", "market", "ai_providers"}
    <2>1. With(cell, p) = At("ok", Nil, p) BY <1>5, WithFacts
    <2>2. \A x \in DOMAIN p : p[x].age < Bound(x)
      <3>1. CASE cell = "info"
        BY <1>1, <3>1, BoundFacts DEF Holds, Contents, Slack, Cells, InfoParts
      <3>2. CASE cell = "market"
        BY <1>1, <3>2, CallsFacts, BoundFacts DEF Holds, Contents, Slack, Cells
      <3>3. CASE cell = "ai_providers"
        BY <1>1, <3>3, CallsFacts, BoundFacts DEF Holds, Contents, Slack, Cells
      <3> QED BY <1>5, <3>1, <3>2, <3>3
    <2> QED BY <2>1, <2>2, AtFacts DEF ReqOK
  <1> QED BY <1>2, <1>3, <1>4, <1>5 DEF Cells

----------------------------------------------------------------------------
(* The steps *)

\* A step that moves one request.
LEMMA OneRequest ==
  ASSUME AgesInv, NEW r \in Req, NEW q \in ReqRec, ReqOK(q),
         req' = [req EXCEPT ![r] = q]
  PROVE  req' \in [Req -> ReqRec] /\ \A s \in Req : ReqOK(req'[s])
  <1>1. req \in [Req -> ReqRec] /\ \A s \in Req : ReqOK(req[s]) BY DEF AgesInv
  <1>2. req' \in [Req -> ReqRec] BY <1>1
  <1>3. \A s \in Req : req'[s] = IF s = r THEN q ELSE req[s] BY <1>1
  <1> QED BY <1>1, <1>2, <1>3

\* What is known of a request that has been sent or is being looked up.
LEMMA RequestFacts ==
  ASSUME AgesInv, NEW r \in Req
  PROVE  /\ req[r] \in ReqRec /\ ReqOK(req[r]) /\ req[r].parts \in AllParts
         /\ req[r].pc \in {"look", "ask"} => req[r].cell \in Cells
  BY DEF AgesInv, ReqOK, ReqRec

\* Only requests move.
LEMMA CellsStay ==
  ASSUME AgesInv, UNCHANGED <<endpoint, version, cells>>,
         req' \in [Req -> ReqRec] /\ \A s \in Req : ReqOK(req'[s])
  PROVE  AgesInv'
  BY DEF AgesInv

\* A request begins, fails or ends.
LEMMA SimpleAges ==
  ASSUME AgesInv, NEW r \in Req, UNCHANGED <<endpoint, version, cells>>,
         \/ \E cell \in Cells \ {"hashrate", "block_reward"} :
              req' = [req EXCEPT ![r] = At("look", cell, NoParts)]
         \/ req' = [req EXCEPT ![r] = At("failed", Nil, NoParts)]
         \/ req' = [req EXCEPT ![r] = Idle]
  PROVE  AgesInv'
  <1>1. \A cell \in Cells \ {"hashrate", "block_reward"} :
          At("look", cell, NoParts) \in ReqRec /\ ReqOK(At("look", cell, NoParts))
    BY AtFacts, NoPartsFacts DEF ReqOK, Holds
  <1>2. At("failed", Nil, NoParts) \in ReqRec /\ ReqOK(At("failed", Nil, NoParts))
    BY AtFacts, NoPartsFacts DEF ReqOK
  <1>3. Idle \in ReqRec /\ ReqOK(Idle) BY IdleFacts DEF ReqOK
  <1>4. \E q \in ReqRec : ReqOK(q) /\ req' = [req EXCEPT ![r] = q]
    BY <1>1, <1>2, <1>3
  <1> QED BY <1>4, OneRequest, CellsStay

\* A fresh cell is used, or its calls are sent.
LEMMA LookAges ==
  ASSUME AgesInv, NEW r \in Req, Look(r)
  PROVE  AgesInv'
  <1> DEFINE cell == req[r].cell
             slot == cells[cell]
             p == Merged(slot.parts, req[r].parts)
             q == [req[r] EXCEPT !.pc = "ask", !.wait = Calls(cell)]
  <1>1. /\ req[r].pc = "look" /\ UNCHANGED <<endpoint, version, cells>>
        /\ req' = [req EXCEPT ![r] = IF fresh(cell) THEN With(cell, p) ELSE q]
    BY DEF Look, AgesInv
  <1>2. /\ req[r] \in ReqRec /\ req[r].parts \in AllParts /\ cell \in Cells
        /\ req[r].since = 0 /\ DOMAIN req[r].parts = Holds(cell)
        /\ \A x \in DOMAIN req[r].parts : req[r].parts[x].age <= Waited(cell, x)
    BY <1>1, RequestFacts DEF ReqOK
  <1>3. CASE fresh(cell)
    <2>1. /\ slot # Nil /\ slot.elapsed < Ttl[cell] /\ slot.elapsed \in Nat
          /\ slot.parts \in AllParts /\ DOMAIN slot.parts = Contents(cell)
          /\ \A x \in Contents(cell) :
               slot.parts[x].age <= slot.elapsed + Slack(cell, x)
      BY <1>2, <1>3 DEF fresh, AgesInv, SlotOK
    <2>2. /\ p \in AllParts /\ DOMAIN p = Holds(cell) \cup Contents(cell)
          /\ \A x \in Contents(cell) : p[x] = slot.parts[x]
          /\ \A x \in Holds(cell) \ Contents(cell) : p[x] = req[r].parts[x]
      <3> HIDE DEF slot, cell
      <3>1. /\ p \in AllParts /\ DOMAIN p = DOMAIN slot.parts \cup DOMAIN req[r].parts
            /\ \A x \in DOMAIN slot.parts : p[x] = slot.parts[x]
            /\ \A x \in DOMAIN req[r].parts \ DOMAIN slot.parts : p[x] = req[r].parts[x]
        BY <1>2, <2>1, MergedFacts
      <3> HIDE DEF p
      <3> QED BY <1>2, <2>1, <3>1
    <2>3. Holds(cell) \cap Contents(cell) = {}
      BY <1>2, CallsFacts DEF Holds, Contents, Cells
    <2>4. /\ Ttl[cell] \in Nat /\ CallTimeout \in Nat
          /\ \A x \in Holds(cell) : Waited(cell, x) \in Nat
          /\ \A x \in Contents(cell) : Slack(cell, x) \in Nat
          /\ \A x \in DOMAIN p : p[x].age \in Nat
      BY <1>2, <2>2, Times, LimitTypes, AgeType
    <2> HIDE DEF p
    <2>5. \A x \in Contents(cell) : p[x].age <= Ttl[cell] - 1 + Slack(cell, x)
      BY <2>1, <2>2, <2>4
    <2>6. \A x \in Holds(cell) : p[x].age <= Waited(cell, x) + CallTimeout
      BY <1>2, <2>2, <2>3, <2>4
    <2>7. With(cell, p) \in ReqRec /\ ReqOK(With(cell, p))
      BY <1>2, <2>2, <2>5, <2>6, WithOK
    <2> QED BY <1>1, <1>3, <2>7, OneRequest, CellsStay
  <1>4. CASE ~fresh(cell)
    <2>1. /\ q \in ReqRec /\ q.pc = "ask" /\ q.wait = Calls(cell) /\ q.cell = cell
          /\ q.since = 0 /\ q.parts = req[r].parts
      BY <1>2, CallsFacts DEF ReqRec
    <2> HIDE DEF q
    <2>2. ReqOK(q)
      BY <1>2, <2>1, CallsFacts, Times, LimitTypes DEF ReqOK
    <2> QED BY <1>1, <1>4, <2>1, <2>2, OneRequest, CellsStay
  <1> QED BY <1>3, <1>4

\* An answer, or the zero that stands for one, is a part of age zero.
LEMMA GotAges ==
  ASSUME AgesInv, NEW r \in Req, NEW call, NEW value \in Versions,
         req[r].pc = "ask", call \in req[r].wait, Got(r, call, value),
         UNCHANGED <<endpoint, version, cells>>
  PROVE  AgesInv'
  <1> DEFINE cell == req[r].cell
             new == [c \in {call} |-> [value |-> value, age |-> 0]]
             p == Merged(new, req[r].parts)
             q == [req[r] EXCEPT !.wait = @ \ {call}, !.parts = p]
  <1>1. req' = [req EXCEPT ![r] = q] BY DEF Got, AgesInv
  <1>2. /\ req[r] \in ReqRec /\ req[r].parts \in AllParts /\ cell \in Cells
        /\ req[r].since <= CallTimeout /\ req[r].wait \subseteq Calls(cell)
        /\ DOMAIN req[r].parts = Holds(cell) \cup (Calls(cell) \ req[r].wait)
        /\ \A x \in DOMAIN req[r].parts : req[r].parts[x].age <=
             req[r].since + (IF x \in Calls(cell) THEN 0 ELSE Waited(cell, x))
    BY RequestFacts DEF ReqOK
  <1>3. call \in Calls(cell) /\ call \in PartNames /\ req[r].since \in Nat
    BY <1>2, CallsFacts DEF ReqRec
  <1>4. new \in AllParts /\ DOMAIN new = {call} /\ new[call].age = 0
    BY <1>3, PartsFacts DEF Part
  <1> HIDE DEF new
  <1>5. /\ p \in AllParts /\ DOMAIN p = {call} \cup DOMAIN req[r].parts
        /\ p[call].age = 0
        /\ \A x \in DOMAIN p : x # call => p[x] = req[r].parts[x]
    <2> DEFINE g == req[r].parts
    <2>1. g \in AllParts BY <1>2
    <2> HIDE DEF g
    <2>2. /\ Merged(new, g) \in AllParts
          /\ DOMAIN Merged(new, g) = DOMAIN new \cup DOMAIN g
          /\ \A x \in DOMAIN new : Merged(new, g)[x] = new[x]
          /\ \A x \in DOMAIN g \ DOMAIN new : Merged(new, g)[x] = g[x]
      BY <1>4, <2>1, MergedFacts, Zenon
    <2>3. p = Merged(new, g) BY DEF g
    <2> HIDE DEF p
    <2> QED BY <1>4, <2>2, <2>3 DEF g
  <1> HIDE DEF p
  <1>6. /\ q \in ReqRec /\ q.pc = "ask" /\ q.wait = req[r].wait \ {call}
        /\ q.cell = cell /\ q.since = req[r].since /\ q.parts = p
    BY <1>2, <1>5 DEF ReqRec
  <1> HIDE DEF q
  <1>7. DOMAIN q.parts = Holds(cell) \cup (Calls(cell) \ q.wait)
    BY <1>2, <1>3, <1>5, <1>6
  <1>8. \A x \in DOMAIN q.parts :
          q.parts[x].age <= q.since + (IF x \in Calls(cell) THEN 0 ELSE Waited(cell, x))
    BY <1>2, <1>3, <1>5, <1>6
  <1>9. ReqOK(q) BY <1>2, <1>6, <1>7, <1>8 DEF ReqOK
  <1> QED BY <1>1, <1>6, <1>9, OneRequest, CellsStay

\* A cell is stored with parts of its own that are not too old.
LEMMA StoreAges ==
  ASSUME AgesInv, NEW cell \in Cells, NEW p \in AllParts, DOMAIN p = Contents(cell),
         \A x \in DOMAIN p : p[x].age <= Slack(cell, x), store(cell, p)
  PROVE  DOMAIN cells' = Cells /\ \A c \in Cells : SlotOK(c, cells'[c])
  <1> DEFINE slot == [elapsed |-> 0, parts |-> p]
  <1>1. /\ slot \in [elapsed : Nat, parts : AllParts]
        /\ slot.elapsed = 0 /\ slot.parts = p
    OBVIOUS
  <1>2. DOMAIN cells = Cells /\ \A c \in Cells : SlotOK(c, cells[c]) BY DEF AgesInv
  <1>3. DOMAIN cells' = Cells
        /\ \A c \in Cells : cells'[c] = IF c = cell THEN slot ELSE cells[c]
    BY <1>2 DEF store
  <1> HIDE DEF slot
  <1>4. \A x \in DOMAIN p : p[x].age \in Nat /\ Slack(cell, x) \in Nat
    BY AgeType, LimitTypes
  <1>5. SlotOK(cell, slot) BY <1>1, <1>4 DEF SlotOK
  <1> QED BY <1>2, <1>3, <1>5

\* The answered calls of a cell are stored and used.
LEMMA ResumeAges ==
  ASSUME AgesInv, NEW r \in Req, Resume(r)
  PROVE  AgesInv'
  <1> DEFINE cell == req[r].cell
             p == req[r].parts
  <1>1. req[r].pc = "ask" /\ req[r].wait = {} /\ UNCHANGED <<endpoint, version>>
    BY DEF Resume
  <1>2. /\ req[r] \in ReqRec /\ p \in AllParts /\ cell \in Cells
        /\ req[r].since <= CallTimeout
        /\ DOMAIN p = Holds(cell) \cup Calls(cell)
        /\ \A x \in DOMAIN p : p[x].age <=
             req[r].since + (IF x \in Calls(cell) THEN 0 ELSE Waited(cell, x))
    BY <1>1, RequestFacts DEF ReqOK
  <1>3. /\ req[r].since \in Nat /\ CallTimeout \in Nat
        /\ Ttl[cell] \in Nat /\ Ttl[cell] >= 1
        /\ \A x \in DOMAIN p : p[x].age \in Nat
        /\ \A x \in Holds(cell) : Waited(cell, x) \in Nat
    BY <1>2, Times, AgeType, LimitTypes DEF ReqRec
  <1>4. Holds(cell) \cap Calls(cell) = {} BY <1>2, CallsFacts
  <1>5. \A x \in Calls(cell) : p[x].age <= CallTimeout BY <1>2, <1>3
  <1>6. \A x \in Holds(cell) : p[x].age <= Waited(cell, x) + CallTimeout
    BY <1>2, <1>3, <1>4
  <1>7. CASE cell = "info"
    <2>1. req' = [req EXCEPT ![r] = At("look", "hashrate", p)] /\ UNCHANGED cells
      BY <1>7 DEF Resume
    <2>2. DOMAIN p = {"dag", "supply"} BY <1>2, <1>7, CallsFacts DEF Holds
    <2>3. \A x \in DOMAIN p : p[x].age <= CallTimeout
      BY <1>5, <1>7, <2>2, CallsFacts
    <2>4. At("look", "hashrate", p) \in ReqRec /\ ReqOK(At("look", "hashrate", p))
      <3> DEFINE q == At("look", "hashrate", p)
      <3>1. /\ q \in ReqRec /\ q.pc = "look" /\ q.cell = "hashrate" /\ q.since = 0
            /\ q.parts = p
        BY <1>2, AtFacts DEF Cells
      <3>2. Holds("hashrate") = {"dag", "supply"} BY DEF Holds
      <3>3. \A x \in {"dag", "supply"} : Waited("hashrate", x) = CallTimeout
        BY DEF Waited
      <3> HIDE DEF q
      <3> QED BY <2>2, <2>3, <3>1, <3>2, <3>3 DEF ReqOK, Cells, q
    <2> QED BY <1>1, <2>1, <2>4, OneRequest, CellsStay
  <1>8. CASE cell # "info"
    <2> DEFINE own == [c \in Calls(cell) |-> p[c]]
    <2>1. store(cell, own) /\ req' = [req EXCEPT ![r] = With(cell, p)]
      BY <1>8 DEF Resume
    <2>2. Contents(cell) = Calls(cell) /\ \A x \in Calls(cell) : Slack(cell, x) = CallTimeout
      BY <1>8 DEF Contents, Slack
    <2>3. own \in AllParts /\ DOMAIN own = Calls(cell) /\ \A x \in Calls(cell) : own[x] = p[x]
      <3>1. p \in [DOMAIN p -> Part] /\ Calls(cell) \subseteq PartNames
        BY <1>2, PartsFacts, CallsFacts
      <3>2. own \in [Calls(cell) -> Part] BY <1>2, <3>1
      <3> QED BY <3>1, <3>2, PartsFacts
    <2> HIDE DEF own
    <2>4. DOMAIN cells' = Cells /\ \A c \in Cells : SlotOK(c, cells'[c])
      <3>1. DOMAIN own = Contents(cell) /\ \A x \in DOMAIN own : own[x].age <= Slack(cell, x)
        BY <1>5, <2>2, <2>3
      <3> QED BY <1>2, <2>1, <2>3, <3>1, StoreAges
    <2>5. With(cell, p) \in ReqRec /\ ReqOK(With(cell, p))
      <3>1. DOMAIN p = Holds(cell) \cup Contents(cell) BY <1>2, <2>2
      <3>2. \A x \in Contents(cell) : p[x].age <= Ttl[cell] - 1 + Slack(cell, x)
        BY <1>2, <1>3, <1>5, <2>2
      <3> QED BY <1>2, <1>6, <3>1, <3>2, WithOK
    <2>6. req' \in [Req -> ReqRec] /\ \A s \in Req : ReqOK(req'[s])
      BY <2>1, <2>5, OneRequest
    <2> QED BY <1>1, <2>4, <2>6 DEF AgesInv
  <1> QED BY <1>7, <1>8

\* build_info's answer is stored and returned.
LEMMA StoreInfoAges ==
  ASSUME AgesInv, NEW r \in Req, StoreInfo(r)
  PROVE  AgesInv'
  <1> DEFINE p == req[r].parts
  <1>1. /\ req[r].pc = "store" /\ store("info", p) /\ UNCHANGED <<endpoint, version>>
        /\ req' = [req EXCEPT ![r] = At("ok", Nil, p)]
    BY DEF StoreInfo, AgesInv
  <1>2. /\ p \in AllParts /\ DOMAIN p = InfoParts
        /\ \A x \in DOMAIN p : p[x].age <= Slack("info", x)
    BY <1>1, RequestFacts DEF ReqOK
  <1>3. "info" \in Cells /\ Contents("info") = InfoParts BY DEF Cells, Contents
  <1>4. DOMAIN cells' = Cells /\ \A c \in Cells : SlotOK(c, cells'[c])
    BY <1>1, <1>2, <1>3, StoreAges
  <1>5. \A x \in DOMAIN p : p[x].age < Bound(x)
    BY <1>2, Times, AgeType, BoundFacts DEF InfoParts, Slack, Cells
  <1>6. At("ok", Nil, p) \in ReqRec /\ ReqOK(At("ok", Nil, p))
    BY <1>2, <1>5, AtFacts DEF ReqOK
  <1>7. req' \in [Req -> ReqRec] /\ \A s \in Req : ReqOK(req'[s])
    BY <1>1, <1>6, OneRequest
  <1> QED BY <1>1, <1>4, <1>7 DEF AgesInv

\* A request that has waited longer.
LEMMA WaitingFacts ==
  ASSUME NEW q \in ReqRec, NEW n \in Nat, NEW w, w = [q EXCEPT !.since = n]
  PROVE  /\ w \in ReqRec /\ w.pc = q.pc /\ w.wait = q.wait
         /\ w.cell = q.cell /\ w.since = n /\ w.parts = q.parts
  BY DEF ReqRec

\* A request whose parts have changed.
LEMMA HoldingFacts ==
  ASSUME NEW q \in ReqRec, NEW a \in AllParts, NEW w, w = [q EXCEPT !.parts = a]
  PROVE  /\ w \in ReqRec /\ w.pc = q.pc /\ w.wait = q.wait
         /\ w.cell = q.cell /\ w.since = q.since /\ w.parts = a
  BY DEF ReqRec

\* Time passes only while every request waits for a call, or is not there.
LEMMA TickAges ==
  ASSUME AgesInv, Tick
  PROVE  AgesInv'
  <1>1. UNCHANGED <<endpoint, version>> BY DEF Tick
  <1>2. ASSUME NEW r \in Req
        PROVE  req'[r] \in ReqRec /\ ReqOK(req'[r])
    <2> DEFINE q == [req[r] EXCEPT !.since = @ + 1, !.parts = Aged(@)]
    <2>1. req'[r] = IF req[r] = Idle THEN Idle ELSE q BY DEF Tick
    <2>2. CASE req[r] = Idle BY <2>1, <2>2, IdleFacts DEF ReqOK
    <2>3. CASE req[r] # Idle
      <3>1. req[r].pc = "ask" /\ req[r].since < CallTimeout BY <2>3 DEF Tick
      <3>2. /\ req[r] \in ReqRec /\ req[r].parts \in AllParts /\ req[r].cell \in Cells
            /\ ReqOK(req[r])
        BY <3>1, RequestFacts
      <3>3. req[r].since \in Nat /\ CallTimeout \in Nat BY <3>2, Times DEF ReqRec
      <3>4. /\ Aged(req[r].parts) \in AllParts
            /\ DOMAIN Aged(req[r].parts) = DOMAIN req[r].parts
            /\ \A x \in DOMAIN req[r].parts :
                 /\ Aged(req[r].parts)[x].age = req[r].parts[x].age + 1
                 /\ req[r].parts[x].age \in Nat
        BY <3>2, AgedFacts
      <3>5. /\ q \in ReqRec /\ q.pc = "ask" /\ q.wait = req[r].wait
            /\ q.cell = req[r].cell /\ q.since = req[r].since + 1
            /\ q.parts = Aged(req[r].parts)
        <4> DEFINE a == Aged(req[r].parts)
                   n == req[r].since + 1
        <4>1. a \in AllParts /\ n \in Nat BY <3>3, <3>4
        <4> HIDE DEF a, n
        <4> DEFINE u == [req[r] EXCEPT !.since = n]
        <4>2. /\ u \in ReqRec /\ u.pc = req[r].pc /\ u.wait = req[r].wait
              /\ u.cell = req[r].cell /\ u.since = n /\ u.parts = req[r].parts
          BY <3>2, <4>1, WaitingFacts
        <4>3. q = [u EXCEPT !.parts = a] BY DEF a, n
        <4> HIDE DEF q, u
        <4>4. /\ q \in ReqRec /\ q.pc = u.pc /\ q.wait = u.wait
              /\ q.cell = u.cell /\ q.since = u.since /\ q.parts = a
          BY <4>1, <4>2, <4>3, HoldingFacts
        <4> QED BY <3>1, <4>2, <4>4 DEF a, n
      <3> HIDE DEF q
      <3>6. \A x \in Holds(req[r].cell) : Waited(req[r].cell, x) \in Nat
        BY <3>2, LimitTypes
      <3>7. /\ req[r].wait \subseteq Calls(req[r].cell)
            /\ DOMAIN req[r].parts = Holds(req[r].cell) \cup (Calls(req[r].cell) \ req[r].wait)
            /\ \A x \in DOMAIN req[r].parts : req[r].parts[x].age <= req[r].since
                 + (IF x \in Calls(req[r].cell) THEN 0 ELSE Waited(req[r].cell, x))
        BY <3>1, <3>2 DEF ReqOK
      <3>8. \A x \in DOMAIN q.parts : q.parts[x].age <= q.since
              + (IF x \in Calls(q.cell) THEN 0 ELSE Waited(q.cell, x))
        <4> TAKE x \in DOMAIN q.parts
        <4>1. CASE x \in Calls(q.cell) BY <3>3, <3>4, <3>5, <3>7, <4>1
        <4>2. CASE x \notin Calls(q.cell)
          <5>1. x \in Holds(q.cell) /\ Waited(q.cell, x) \in Nat
            BY <3>4, <3>5, <3>6, <3>7, <4>2
          <5> QED BY <3>3, <3>4, <3>5, <3>7, <4>2, <5>1
        <4> QED BY <4>1, <4>2
      <3>9. ReqOK(q) BY <3>1, <3>2, <3>3, <3>4, <3>5, <3>7, <3>8 DEF ReqOK
      <3> QED BY <2>1, <2>3, <3>5, <3>9
    <2> QED BY <2>2, <2>3
  <1>3. req' \in [Req -> ReqRec]
    <2>1. DOMAIN req' = Req /\ req' = [r \in Req |-> req'[r]] BY DEF Tick
    <2> QED BY <1>2, <2>1
  <1>4. DOMAIN cells' = Cells BY DEF Tick
  <1>5. ASSUME NEW c \in Cells
        PROVE  SlotOK(c, cells'[c])
    <2> DEFINE old == cells[c]
               new == [elapsed |-> old.elapsed + 1, parts |-> Aged(old.parts)]
    <2>1. cells'[c] = IF old = Nil \/ old.elapsed = Ttl[c] THEN Nil ELSE new
      BY DEF Tick
    <2>2. SlotOK(c, old) BY DEF AgesInv
    <2>3. CASE old = Nil \/ old.elapsed = Ttl[c] BY <2>1, <2>3 DEF SlotOK
    <2>4. CASE ~(old = Nil \/ old.elapsed = Ttl[c])
      <3>1. /\ old \in [elapsed : Nat, parts : AllParts]
            /\ old.elapsed \in Nat /\ old.parts \in AllParts
            /\ DOMAIN old.parts = Contents(c)
            /\ \A x \in DOMAIN old.parts : old.parts[x].age <= old.elapsed + Slack(c, x)
        BY <2>2, <2>4 DEF SlotOK
      <3>2. /\ Aged(old.parts) \in AllParts
            /\ DOMAIN Aged(old.parts) = DOMAIN old.parts
            /\ \A x \in DOMAIN old.parts :
                 /\ Aged(old.parts)[x].age = old.parts[x].age + 1
                 /\ old.parts[x].age \in Nat
        BY <3>1, AgedFacts
      <3>3. /\ new \in [elapsed : Nat, parts : AllParts]
            /\ new.elapsed = old.elapsed + 1 /\ new.parts = Aged(old.parts)
        BY <3>1, <3>2
      <3>4. \A x \in Contents(c) : Slack(c, x) \in Nat BY LimitTypes
      <3> HIDE DEF new, old
      <3>5. SlotOK(c, new) BY <3>1, <3>2, <3>3, <3>4 DEF SlotOK
      <3> QED BY <2>1, <2>4, <3>5
    <2> QED BY <2>3, <2>4
  <1> QED BY <1>1, <1>2, <1>3, <1>4, <1>5 DEF AgesInv

\* Every step keeps AgesInv.
LEMMA NextAges ==
  ASSUME AgesInv, [Next]_vars
  PROVE  AgesInv'
  <1>1. CASE UNCHANGED vars
    <2>1. UNCHANGED <<endpoint, version, cells, req>> BY <1>1 DEF vars
    <2> QED BY <2>1 DEF AgesInv
  <1>2. CASE Tick BY <1>2, TickAges
  <1>3. ASSUME NEW v \in Versions, Replace(v)
        PROVE  AgesInv'
    BY <1>3 DEF Replace, AgesInv
  <1>4. ASSUME NEW r \in Req, Start(r)
        PROVE  AgesInv'
    <2> DEFINE cell == IF endpoint = "ai_providers" THEN "node_version" ELSE endpoint
    <2>1. cell \in Cells \ {"hashrate", "block_reward"}
      BY DEF AgesInv, Endpoints, Cells
    <2>2. /\ req' = [req EXCEPT ![r] = At("look", cell, NoParts)]
          /\ UNCHANGED <<endpoint, version, cells>>
      BY <1>4 DEF Start
    <2> HIDE DEF cell
    <2> QED BY <2>1, <2>2, SimpleAges
  <1>5. ASSUME NEW r \in Req, Look(r)
        PROVE  AgesInv'
    BY <1>5, LookAges
  <1>6. ASSUME NEW r \in Req, Resume(r)
        PROVE  AgesInv'
    BY <1>6, ResumeAges
  <1>7. ASSUME NEW r \in Req, StoreInfo(r)
        PROVE  AgesInv'
    BY <1>7, StoreInfoAges
  <1>8. ASSUME NEW r \in Req, Done(r)
        PROVE  AgesInv'
    <2>1. /\ req' = [req EXCEPT ![r] = Idle] /\ UNCHANGED <<endpoint, version, cells>>
      BY <1>8 DEF Done
    <2> QED BY <2>1, SimpleAges
  <1>9. ASSUME NEW r \in Req, NEW call \in req[r].wait, Answer(r, call)
        PROVE  AgesInv'
    <2>1. req[r].pc = "ask" /\ UNCHANGED <<endpoint, version, cells>>
      BY <1>9 DEF Answer
    <2>2. CASE req' = [req EXCEPT ![r] = At("failed", Nil, NoParts)]
      BY <2>1, <2>2, SimpleAges
    <2>3. CASE Got(r, call, IF call = "node_version" THEN version ELSE Nil)
      <3>1. (IF call = "node_version" THEN version ELSE Nil) \in Versions
        BY CachesAssumption DEF AgesInv
      <3> QED BY <2>1, <2>3, <3>1, GotAges
    <2> QED BY <1>9, <2>2, <2>3 DEF Answer
  <1>10. ASSUME NEW r \in Req, NEW call \in req[r].wait, CallFails(r, call)
         PROVE  AgesInv'
    <2>1. req[r].pc = "ask" /\ UNCHANGED <<endpoint, version, cells>>
      BY <1>10 DEF CallFails
    <2>2. CASE req' = [req EXCEPT ![r] = At("failed", Nil, NoParts)]
      BY <2>1, <2>2, SimpleAges
    <2>3. CASE Got(r, call, Nil)
      <3>1. Nil \in Versions BY CachesAssumption
      <3> QED BY <2>1, <2>3, <3>1, GotAges
    <2> QED BY <1>10, <2>2, <2>3 DEF CallFails
  <1> QED BY <1>1, <1>2, <1>3, <1>4, <1>5, <1>6, <1>7, <1>8, <1>9, <1>10 DEF Next

\* What is known of the requests and of the cells at every moment: the parts
\* each one holds and the most they can have aged, for any number of requests
\* that miss the same cell at once and store what they got in any order.
THEOREM CachesInvariance == Spec => []AgesInv
  <1>1. Init => AgesInv
    <2> SUFFICES ASSUME Init PROVE AgesInv OBVIOUS
    <2>1. version \in Versions /\ endpoint \in Endpoints
      BY CachesAssumption DEF Init
    <2>2. req \in [Req -> ReqRec] /\ \A r \in Req : ReqOK(req[r])
      BY IdleFacts DEF Init, ReqOK
    <2>3. DOMAIN cells = Cells /\ \A c \in Cells : SlotOK(c, cells[c])
      BY DEF Init, SlotOK
    <2> QED BY <2>1, <2>2, <2>3 DEF AgesInv
  <1>2. AgesInv /\ [Next]_vars => AgesInv' BY NextAges
  <1> QED BY <1>1, <1>2, PTL DEF Spec

\* A handler returns nothing older than the TTLs it was cached under and the
\* calls awaited on the way allow, for any number of concurrent requests: a
\* cell never serves on the instant its TTL ends (TtlCell::fresh), and a value
\* stored late is as old as its call took, not older.
THEOREM StalenessBounded == Spec => []StalenessBound
  <1>1. AgesInv => StalenessBound BY DEF AgesInv, ReqOK, StalenessBound
  <1> QED BY <1>1, CachesInvariance, PTL

----------------------------------------------------------------------------
(* The version check *)

\* A version either is too old or knows the request.
LEMMA OldOrKnows == \A v : TooOld(v) \/ Knows(v)
  BY DEF TooOld, Knows

\* A reliable version takes a request where it may go.
LEMMA WithVersion ==
  ASSUME NEW cell \in Cells, NEW p, cell = "node_version" => Reliable(p)
  PROVE  VersionOK(With(cell, p))
  <1>1. \A parts : /\ VersionOK(At("look", "block_reward", parts))
                   /\ VersionOK(At("store", "info", parts))
                   /\ VersionOK(At("unavailable", Nil, parts))
                   /\ VersionOK(At("ok", Nil, parts))
    BY DEF VersionOK, At
  <1>2. Knows(version) => VersionOK(At("look", "ai_providers", NoParts))
    BY DEF VersionOK, At
  <1>3. CASE cell = "hashrate" BY <1>1, <1>3, WithFacts
  <1>4. CASE cell = "block_reward" BY <1>1, <1>4, WithFacts
  <1>5. CASE cell = "node_version"
    <2>1. CASE TooOld(p["node_version"].value) BY <1>1, <1>5, <2>1, WithFacts
    <2>2. CASE ~TooOld(p["node_version"].value)
      <3>1. Knows(version) BY <1>5, <2>2 DEF Reliable
      <3> QED BY <1>2, <1>5, <2>2, <3>1, WithFacts
    <2> QED BY <2>1, <2>2
  <1>6. CASE cell \in {"info", "market", "ai_providers"} BY <1>1, <1>6, WithFacts
  <1> QED BY <1>3, <1>4, <1>5, <1>6 DEF Cells

\* A step that moves one request and neither stores a version nor replaces the
\* node.
LEMMA OneVersion ==
  ASSUME AgesInv, VersionInv, NEW r \in Req, NEW q, VersionOK(q),
         req' = [req EXCEPT ![r] = q], version' = version, broken' = broken,
         cells'["node_version"] = cells["node_version"]
  PROVE  VersionInv'
  <1>1. \A s \in Req : req'[s] = IF s = r THEN q ELSE req[s] BY DEF AgesInv
  <1>2. \A s \in Req : VersionOK(req'[s]) BY <1>1 DEF VersionInv
  <1>3. \A s \in Req : VersionOK(req[s])' BY <1>2 DEF VersionOK, Reliable
  <1> QED BY <1>3 DEF VersionInv, Reliable

\* An answer that is not a version, or is the node's.
LEMMA GotVersion ==
  ASSUME AgesInv, VersionInv, NEW r \in Req, NEW call, NEW value \in Versions,
         req[r].pc = "ask", call \in req[r].wait, Got(r, call, value),
         req[r].cell = "node_version" => value = version,
         UNCHANGED <<version, cells, broken>>
  PROVE  VersionInv'
  <1> DEFINE new == [c \in {call} |-> [value |-> value, age |-> 0]]
             p == Merged(new, req[r].parts)
             q == [req[r] EXCEPT !.wait = @ \ {call}, !.parts = p]
  <1>1. req' = [req EXCEPT ![r] = q] BY DEF Got, AgesInv
  <1>2. q.pc = req[r].pc /\ q.cell = req[r].cell /\ q.parts = p
    BY RequestFacts DEF ReqRec
  <1>3. VersionOK(req[r]) BY DEF VersionInv
  <1>4. ASSUME req[r].cell = "node_version"
        PROVE  Reliable(p)
    <2>1. call = "node_version"
      BY <1>4, RequestFacts, CallsFacts DEF ReqOK, Cells
    <2>2. new \in AllParts /\ DOMAIN new = {call} /\ new[call].value = value
      BY <2>1, PartsFacts DEF Part, PartNames
    <2>3. req[r].parts \in AllParts BY RequestFacts
    <2> HIDE DEF new
    <2>4. p[call] = new[call] BY <2>2, <2>3, MergedFacts
    <2> QED BY <1>4, <2>1, <2>2, <2>4, OldOrKnows DEF Reliable
  <1> HIDE DEF q, p
  <1>5. VersionOK(q) BY <1>2, <1>3, <1>4 DEF VersionOK
  <1> QED BY <1>1, <1>5, OneVersion

\* Every step keeps VersionInv when the node is not replaced by an older one.
LEMMA NextVersion ==
  ASSUME Downgrades = FALSE, AgesInv, VersionInv, [Next]_vars
  PROVE  VersionInv'
  <1>1. CASE UNCHANGED vars
    <2>1. UNCHANGED <<version, broken, cells, req>> BY <1>1 DEF vars
    <2> QED BY <2>1 DEF VersionInv, VersionOK, Reliable
  <1>2. CASE Tick
    <2>1. version' = version /\ broken' = broken BY <1>2 DEF Tick
    <2>2. ASSUME cells'["node_version"] # Nil
          PROVE  Reliable(cells'["node_version"].parts)
      <3> DEFINE old == cells["node_version"]
      <3>1. "node_version" \in Cells BY DEF Cells
      <3>2. old # Nil /\ cells'["node_version"].parts = Aged(old.parts)
        BY <1>2, <2>2, <3>1 DEF Tick
      <3>3. old.parts \in AllParts /\ DOMAIN old.parts = {"node_version"}
        BY <3>1, <3>2, CallsFacts DEF AgesInv, SlotOK, Contents
      <3>4. Aged(old.parts)["node_version"].value = old.parts["node_version"].value
        BY <3>3, AgedFacts
      <3>5. Reliable(old.parts) BY <3>2 DEF VersionInv
      <3> QED BY <3>2, <3>4, <3>5 DEF Reliable
    <2>3. ASSUME NEW r \in Req
          PROVE  VersionOK(req'[r])
      <3>1. VersionOK(req[r]) BY DEF VersionInv
      <3>2. CASE req[r] = Idle
        <4>1. req'[r] = req[r] BY <1>2, <3>2 DEF Tick
        <4> QED BY <3>1, <4>1
      <3>3. CASE req[r] # Idle
        <4> DEFINE a == Aged(req[r].parts)
                   q == [req[r] EXCEPT !.since = @ + 1, !.parts = a]
        <4>1. req[r].pc = "ask" /\ req'[r] = q BY <1>2, <3>3 DEF Tick
        <4>2. /\ q.pc = req[r].pc /\ q.cell = req[r].cell /\ q.wait = req[r].wait
              /\ q.parts = a
          BY RequestFacts DEF ReqRec
        <4>3. ASSUME req[r].cell = "node_version", req[r].wait = {}
              PROVE  Reliable(a)
          <5>1. /\ req[r].parts \in AllParts /\ req[r].cell \in Cells
                /\ DOMAIN req[r].parts = {"node_version"}
            BY <4>1, <4>3, RequestFacts, CallsFacts DEF ReqOK, Holds
          <5>2. a["node_version"].value = req[r].parts["node_version"].value
            BY <5>1, AgedFacts
          <5>3. Reliable(req[r].parts) BY <3>1, <4>1, <4>3 DEF VersionOK
          <5> QED BY <5>2, <5>3 DEF Reliable
        <4> HIDE DEF q, a
        <4> QED BY <3>1, <4>1, <4>2, <4>3 DEF VersionOK
      <3> QED BY <3>2, <3>3
    <2>4. \A r \in Req : VersionOK(req[r])' BY <2>1, <2>3 DEF VersionOK, Reliable
    <2> QED BY <2>1, <2>2, <2>4 DEF VersionInv, Reliable
  <1>3. ASSUME NEW v \in Versions, Replace(v)
        PROVE  VersionInv'
    <2>1. (Knows(version) => Knows(v)) /\ version' = v /\ UNCHANGED <<broken, cells, req>>
      BY <1>3 DEF Replace
    <2>2. \A p : Reliable(p) => TooOld(p["node_version"].value) \/ Knows(v)
      BY <2>1 DEF Reliable
    <2>3. \A r \in Req : VersionOK(req[r])'
      BY <2>1, <2>2 DEF VersionInv, VersionOK, Reliable
    <2> QED BY <2>1, <2>2, <2>3 DEF VersionInv, Reliable
  <1>4. ASSUME NEW r \in Req, Start(r)
        PROVE  VersionInv'
    <2> DEFINE cell == IF endpoint = "ai_providers" THEN "node_version" ELSE endpoint
    <2>1. VersionOK(At("look", cell, NoParts)) BY DEF VersionOK, At
    <2> HIDE DEF cell
    <2>2. /\ req' = [req EXCEPT ![r] = At("look", cell, NoParts)]
          /\ UNCHANGED <<version, broken, cells>>
      BY <1>4 DEF Start, cell
    <2> QED BY <2>1, <2>2, OneVersion
  <1>5. ASSUME NEW r \in Req, Look(r)
        PROVE  VersionInv'
    <2> DEFINE cell == req[r].cell
               p == Merged(cells[cell].parts, req[r].parts)
               q == [req[r] EXCEPT !.pc = "ask", !.wait = Calls(cell)]
    <2>1. /\ req[r].pc = "look" /\ UNCHANGED <<version, broken, cells>>
          /\ req' = [req EXCEPT ![r] = IF fresh(cell) THEN With(cell, p) ELSE q]
      BY <1>5 DEF Look, AgesInv
    <2>2. cell \in Cells /\ req[r] \in ReqRec /\ VersionOK(req[r])
      BY <2>1, RequestFacts DEF VersionInv
    <2>3. CASE fresh(cell)
      <3>1. ASSUME cell = "node_version"
            PROVE  Reliable(p)
        <4> DEFINE f == cells["node_version"].parts
        <4>1. cells["node_version"] # Nil BY <2>3, <3>1 DEF fresh
        <4>2. f \in AllParts /\ DOMAIN f = {"node_version"}
          BY <2>2, <3>1, <4>1, CallsFacts DEF AgesInv, SlotOK, Contents
        <4>3. req[r].parts \in AllParts BY RequestFacts
        <4>4. p = Merged(f, req[r].parts) BY <3>1
        <4> HIDE DEF p, f
        <4>5. p["node_version"] = f["node_version"] BY <4>2, <4>3, <4>4, MergedFacts
        <4> QED BY <4>1, <4>5 DEF VersionInv, Reliable, f
      <3> HIDE DEF p
      <3>2. VersionOK(With(cell, p)) BY <2>2, <3>1, WithVersion
      <3> QED BY <2>1, <2>3, <3>2, OneVersion
    <2>4. CASE ~fresh(cell)
      <3>1. q.pc = "ask" /\ q.cell = cell /\ q.wait = Calls(cell)
        BY <2>2 DEF ReqRec
      <3>2. cell = "node_version" => Calls(cell) # {}
        BY <2>2, CallsFacts
      <3> HIDE DEF q
      <3>3. VersionOK(q) BY <2>1, <2>2, <3>1, <3>2 DEF VersionOK
      <3> QED BY <2>1, <2>4, <3>3, OneVersion
    <2> QED BY <2>3, <2>4
  <1>6. ASSUME NEW r \in Req, Resume(r)
        PROVE  VersionInv'
    <2> DEFINE cell == req[r].cell
               p == req[r].parts
    <2>1. req[r].pc = "ask" /\ req[r].wait = {} /\ UNCHANGED <<version, broken>>
      BY <1>6 DEF Resume
    <2>2. /\ cell \in Cells /\ VersionOK(req[r])
          /\ cell = "node_version" => Reliable(p)
      BY <2>1, RequestFacts DEF VersionInv, VersionOK
    <2>3. CASE cell = "info"
      <3>1. req' = [req EXCEPT ![r] = At("look", "hashrate", p)] /\ UNCHANGED cells
        BY <1>6, <2>3 DEF Resume
      <3>2. VersionOK(At("look", "hashrate", p)) BY DEF VersionOK, At
      <3> QED BY <2>1, <3>1, <3>2, OneVersion
    <2>4. CASE cell # "info"
      <3> DEFINE own == [c \in Calls(cell) |-> p[c]]
      <3>1. store(cell, own) /\ req' = [req EXCEPT ![r] = With(cell, p)]
        BY <1>6, <2>4 DEF Resume
      <3>2. VersionOK(With(cell, p)) BY <2>2, WithVersion
      <3>3. CASE cell # "node_version"
        <4>1. cells'["node_version"] = cells["node_version"]
          BY <3>1, <3>3 DEF store, AgesInv, Cells
        <4> QED BY <2>1, <3>1, <3>2, <4>1, OneVersion
      <3>4. CASE cell = "node_version"
        <4>1. cells'["node_version"] = [elapsed |-> 0, parts |-> own]
          BY <3>1, <3>4 DEF store, AgesInv, Cells
        <4>2. own["node_version"] = p["node_version"]
          BY <2>2, <3>4, CallsFacts
        <4> HIDE DEF own
        <4>3. Reliable(own) BY <2>2, <3>4, <4>2 DEF Reliable
        <4>4. Reliable(cells["node_version"].parts)'
          BY <2>1, <4>1, <4>3 DEF Reliable
        <4>5. \A s \in Req : req'[s] = IF s = r THEN With(cell, p) ELSE req[s]
          BY <3>1 DEF AgesInv
        <4>6. \A s \in Req : VersionOK(req'[s]) BY <3>2, <4>5 DEF VersionInv
        <4>7. \A s \in Req : VersionOK(req[s])'
          BY <2>1, <4>6 DEF VersionOK, Reliable
        <4> QED BY <2>1, <4>4, <4>7 DEF VersionInv
      <3> QED BY <3>3, <3>4
    <2> QED BY <2>3, <2>4
  <1>7. ASSUME NEW r \in Req, StoreInfo(r)
        PROVE  VersionInv'
    <2>1. /\ req' = [req EXCEPT ![r] = At("ok", Nil, req[r].parts)]
          /\ store("info", req[r].parts) /\ UNCHANGED <<version, broken>>
      BY <1>7 DEF StoreInfo, AgesInv
    <2>2. cells'["node_version"] = cells["node_version"]
      BY <2>1 DEF store, AgesInv, Cells
    <2>3. VersionOK(At("ok", Nil, req[r].parts)) BY DEF VersionOK, At
    <2> QED BY <2>1, <2>2, <2>3, OneVersion
  <1>8. ASSUME NEW r \in Req, Done(r)
        PROVE  VersionInv'
    <2>1. req' = [req EXCEPT ![r] = Idle] /\ UNCHANGED <<version, broken, cells>>
      BY <1>8 DEF Done
    <2>2. VersionOK(Idle) BY IdleFacts DEF VersionOK
    <2> QED BY <2>1, <2>2, OneVersion
  <1>9. VersionOK(At("failed", Nil, NoParts)) BY DEF VersionOK, At
  <1>10. ASSUME NEW r \in Req, NEW call \in req[r].wait, Answer(r, call)
         PROVE  VersionInv'
    <2>1. req[r].pc = "ask" /\ UNCHANGED <<version, cells>> BY <1>10 DEF Answer
    <2>2. VersionOK(req[r]) BY DEF VersionInv
    <2>3. ~(req[r].cell = "ai_providers" /\ ~Knows(version))
      BY <2>1, <2>2 DEF VersionOK
    <2>4. /\ broken' = broken
          /\ Got(r, call, IF call = "node_version" THEN version ELSE Nil)
      BY <1>10, <2>3 DEF Answer
    <2>5. (IF call = "node_version" THEN version ELSE Nil) \in Versions
      BY CachesAssumption DEF AgesInv
    <2>6. req[r].cell = "node_version" => call = "node_version"
      BY <2>1, RequestFacts, CallsFacts DEF ReqOK, Cells
    <2> QED BY <2>1, <2>4, <2>5, <2>6, GotVersion
  <1>11. ASSUME NEW r \in Req, NEW call \in req[r].wait, CallFails(r, call)
         PROVE  VersionInv'
    <2>1. req[r].pc = "ask" /\ UNCHANGED <<version, cells, broken>>
      BY <1>11 DEF CallFails
    <2>2. CASE BestEffort(req[r].cell)
      <3>1. req[r].cell # "node_version" BY <2>2 DEF BestEffort
      <3>2. Got(r, call, Nil) /\ Nil \in Versions
        BY <1>11, <2>2, CachesAssumption DEF CallFails
      <3> QED BY <2>1, <3>1, <3>2, GotVersion
    <2>3. CASE ~BestEffort(req[r].cell)
      <3>1. req' = [req EXCEPT ![r] = At("failed", Nil, NoParts)]
        BY <1>11, <2>3 DEF CallFails
      <3> QED BY <1>9, <2>1, <3>1, OneVersion
    <2> QED BY <2>2, <2>3
  <1> QED BY <1>1, <1>2, <1>3, <1>4, <1>5, <1>6, <1>7, <1>8, <1>10, <1>11 DEF Next

\* getServiceProviders is not sent to a node that does not know it, however
\* many requests check the version at once and however long they wait between
\* the check and the call: a version that lets a request through, cached
\* (TtlCell of node_version) or just asked for, was the node's at some time, and
\* a node that is not replaced by an older one still knows the call by then.
THEOREM VersionCheckSuffices ==
  ASSUME Downgrades = FALSE
  PROVE  Spec => []NeverSentToOldNode
  <1>1. Init => VersionInv
    <2> SUFFICES ASSUME Init PROVE VersionInv OBVIOUS
    <2>1. \A r \in Req : req[r].pc = "idle" BY IdleFacts DEF Init
    <2>2. cells["node_version"] = Nil BY DEF Init, Cells
    <2> QED BY <2>1, <2>2 DEF Init, VersionInv, VersionOK
  <1>2. AgesInv /\ VersionInv /\ [Next]_vars => VersionInv' BY NextVersion
  <1>3. VersionInv => NeverSentToOldNode BY DEF VersionInv, NeverSentToOldNode
  <1> QED BY <1>1, <1>2, <1>3, CachesInvariance, PTL DEF Spec

=============================================================================
