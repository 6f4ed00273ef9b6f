---------------------------- MODULE FollowProofs ----------------------------
(***************************************************************************)
(* The invariant of the chain follower, for every block tree, every        *)
(* acceptance data, every size of channel, staging and window and every    *)
(* combination of faults: what the channel, the job and the status hold,   *)
(* and that the follower uses the store by its operations only.            *)
(***************************************************************************)
EXTENDS Indexer, StoreProofs

----------------------------------------------------------------------------
(* Induction: a set of naturals has a least element *)

\* A set of naturals that is not empty has a least element.
LEMMA LeastElement ==
  ASSUME NEW T \in SUBSET Nat, T # {}
  PROVE  \E x \in T : \A y \in T : x <= y
  <1> DEFINE R == OpToRel(<, Nat)
  <1>1. IsWellFoundedOn(R, Nat) BY Zenon, NatLessThanWellFounded
  <1>2. \A x, y \in Nat : x < y => <<x, y>> \in R BY DEF OpToRel
  <1> HIDE DEF R
  <1>3. PICK x \in T : \A y \in T : ~(<<y, x>> \in R) BY Zenon, <1>1, WFMin
  <1>4. ASSUME NEW y \in T PROVE x <= y
    <2>1. x \in Nat /\ y \in Nat /\ ~(<<y, x>> \in R) BY <1>3
    <2>2. ~(y < x) BY <1>2, <2>1
    <2> QED BY <2>1, <2>2
  <1> QED BY <1>4

\* What holds at 0, and at i when it holds at i - 1, holds up to n.
LEMMA UpTo ==
  ASSUME NEW n \in Nat, NEW G \in SUBSET Nat, 0 \in G,
         \A i \in 1 .. n : i - 1 \in G => i \in G
  PROVE  \A i \in 0 .. n : i \in G
  <1> DEFINE T == (0 .. n) \ G
  <1> SUFFICES ASSUME T # {} PROVE FALSE OBVIOUS
  <1>1. T \in SUBSET Nat OBVIOUS
  <1>2. PICK x \in T : \A y \in T : x <= y BY Zenon, <1>1, LeastElement
  <1>3. x \in 1 .. n /\ x - 1 \in 0 .. n /\ ~(x <= x - 1) OBVIOUS
  <1>4. x - 1 \in G BY <1>2, <1>3
  <1> QED BY <1>3, <1>4

----------------------------------------------------------------------------
(* Sequences *)

\* Append adds one element, at the end.
LEMMA AppendFacts ==
  ASSUME NEW T, NEW s \in Seq(T), NEW x \in T
  PROVE  /\ Append(s, x) \in Seq(T) /\ Len(Append(s, x)) = Len(s) + 1
         /\ Range(Append(s, x)) = Range(s) \cup {x}
         /\ \A i \in DOMAIN Append(s, x) :
              \/ Append(s, x)[i] = x
              \/ i \in DOMAIN s /\ Append(s, x)[i] = s[i]
  <1> DEFINE e == Append(s, x)
  <1>1. /\ e \in Seq(T) /\ Len(e) = Len(s) + 1 /\ DOMAIN s = 1 .. Len(s)
        /\ DOMAIN e = 1 .. Len(s) + 1
        /\ Len(s) \in Nat /\ e[Len(s) + 1] = x
        /\ \A k \in 1 .. Len(s) : e[k] = s[k]
    OBVIOUS
  <1>2. \A k \in DOMAIN e : k = Len(s) + 1 \/ k \in DOMAIN s BY <1>1
  <1>3. \A k \in DOMAIN s : k \in DOMAIN e /\ e[k] = s[k] BY <1>1
  <1>4. Len(s) + 1 \in DOMAIN e /\ e[Len(s) + 1] = x BY <1>1
  <1> HIDE DEF e
  <1>5. Range(e) = Range(s) \cup {x} BY <1>2, <1>3, <1>4 DEF Range
  <1>6. \A i \in DOMAIN e : e[i] = x \/ (i \in DOMAIN s /\ e[i] = s[i])
    BY <1>2, <1>3, <1>4
  <1> QED BY <1>1, <1>5, <1>6 DEF e

\* Head and Tail take a sequence apart.
LEMMA TailFacts ==
  ASSUME NEW T, NEW s \in Seq(T), s # <<>>
  PROVE  /\ Head(s) \in T /\ 1 \in DOMAIN s /\ Head(s) = s[1]
         /\ Tail(s) \in Seq(T) /\ Len(Tail(s)) = Len(s) - 1
         /\ \A i \in DOMAIN Tail(s) : i + 1 \in DOMAIN s /\ Tail(s)[i] = s[i + 1]
         /\ Range(Tail(s)) \subseteq Range(s)
  <1>1. /\ Head(s) \in T /\ Len(s) \in Nat /\ Len(s) > 0 /\ Head(s) = s[1]
        /\ Tail(s) \in Seq(T) /\ Len(Tail(s)) = Len(s) - 1
        /\ DOMAIN s = 1 .. Len(s) /\ DOMAIN Tail(s) = 1 .. Len(s) - 1
        /\ \A i \in 1 .. Len(s) - 1 : Tail(s)[i] = s[i + 1]
    OBVIOUS
  <1>2. \A i \in DOMAIN Tail(s) : i + 1 \in DOMAIN s /\ Tail(s)[i] = s[i + 1] BY <1>1
  <1>3. 1 \in DOMAIN s BY <1>1
  <1>4. Range(Tail(s)) \subseteq Range(s) BY <1>2 DEF Range
  <1> QED BY <1>1, <1>2, <1>3, <1>4

----------------------------------------------------------------------------
(* Picked *)

\* f is the recursive function of Picked, up to n.
PickedUpTo(f, n, s, S) ==
  f = [i \in 0 .. n |->
         IF i = 0 THEN <<>>
         ELSE IF s[i] \in S THEN Append(f[i - 1], s[i]) ELSE f[i - 1]]

\* The recursion of Picked has a solution.
LEMMA PickedExists ==
  ASSUME NEW T, NEW s \in Seq(T), NEW S
  PROVE  \E f : PickedUpTo(f, Len(s), s, S)
  <1> DEFINE G == {n \in Nat : \E f : PickedUpTo(f, n, s, S)}
  <1>1. Len(s) \in Nat OBVIOUS
  <1>2. 0 \in G
    <2> DEFINE f == [i \in 0 .. 0 |-> <<>>]
    <2>1. PickedUpTo(f, 0, s, S) BY DEF PickedUpTo
    <2> QED BY <2>1
  <1>3. ASSUME NEW n \in 1 .. Len(s), n - 1 \in G PROVE n \in G
    <2>1. PICK f : PickedUpTo(f, n - 1, s, S) BY <1>3
    <2> DEFINE last == IF s[n] \in S THEN Append(f[n - 1], s[n]) ELSE f[n - 1]
               g == [i \in 0 .. n |-> IF i = n THEN last ELSE f[i]]
    <2>2. \A i \in 0 .. n - 1 : f[i] = IF i = 0 THEN <<>>
            ELSE IF s[i] \in S THEN Append(f[i - 1], s[i]) ELSE f[i - 1]
      BY Zenon, <2>1 DEF PickedUpTo
    <2>3. n \in Nat /\ n # 0 BY <1>1
    <2>4. \A i \in 0 .. n : i = n \/ i \in 0 .. n - 1 BY <2>3
    <2>5. \A i \in 0 .. n : i # 0 => i - 1 \in 0 .. n - 1 /\ i - 1 # n BY <2>3
    <2> HIDE DEF last
    <2>6. \A i \in 0 .. n : i # 0 => g[i - 1] = f[i - 1] BY <2>3, <2>5
    <2>7. \A i \in 0 .. n : g[i] = IF i = 0 THEN <<>>
            ELSE IF s[i] \in S THEN Append(g[i - 1], s[i]) ELSE g[i - 1]
      <3>1. g[n] = IF s[n] \in S THEN Append(g[n - 1], s[n]) ELSE g[n - 1]
        BY <2>3, <2>6 DEF last
      <3>2. ASSUME NEW i \in 0 .. n - 1
            PROVE  g[i] = IF i = 0 THEN <<>>
                          ELSE IF s[i] \in S THEN Append(g[i - 1], s[i]) ELSE g[i - 1]
        <4>1. g[i] = f[i] /\ i \in 0 .. n BY <2>3
        <4> HIDE DEF g
        <4> QED BY <2>2, <2>6, <4>1
      <3> QED BY Zenon, <2>3, <2>4, <3>1, <3>2
    <2>8. PickedUpTo(g, n, s, S)
      <3>1. DOMAIN g = 0 .. n /\ g = [i \in 0 .. n |-> g[i]] OBVIOUS
      <3> HIDE DEF g
      <3> QED BY <2>7, <3>1 DEF PickedUpTo
    <2> HIDE DEF g
    <2> QED BY <2>3, <2>8
  <1>4. Len(s) \in 0 .. Len(s) /\ G \in SUBSET Nat BY <1>1
  <1> HIDE DEF G
  <1>5. Len(s) \in G BY Zenon, <1>1, <1>2, <1>3, <1>4, UpTo
  <1> QED BY <1>5 DEF G

\* Picked gives a sequence of the elements of s that are in S, and repeats none
\* that s does not repeat.
LEMMA PickedFacts ==
  ASSUME NEW T, NEW s \in Seq(T), NEW S
  PROVE  /\ Picked(s, S) \in Seq(T)
         /\ Range(Picked(s, S)) = Range(s) \cap S
         /\ IsInjective(s) => IsInjective(Picked(s, S))
  <1> DEFINE f == CHOOSE g : PickedUpTo(g, Len(s), s, S)
             Good(q, i) == /\ q \in Seq(T)
                           /\ \A x : (\E k \in DOMAIN q : q[k] = x) <=>
                                       x \in S /\ \E j \in 1 .. i : s[j] = x
                           /\ IsInjective(s) => IsInjective(q)
             G == {i \in 0 .. Len(s) : Good(f[i], i)}
  <1>1. Len(s) \in Nat /\ DOMAIN s = 1 .. Len(s) OBVIOUS
  <1>2. PickedUpTo(f, Len(s), s, S) BY PickedExists
  <1>3. Picked(s, S) = f[Len(s)] BY DEF Picked, PickedUpTo
  <1> HIDE DEF f
  <1>4. \A i \in 0 .. Len(s) : f[i] = IF i = 0 THEN <<>>
          ELSE IF s[i] \in S THEN Append(f[i - 1], s[i]) ELSE f[i - 1]
    BY Zenon, <1>2 DEF PickedUpTo
  <1>5. 0 \in G
    <2>1. f[0] = <<>> BY <1>1, <1>4
    <2>2. Good(<<>>, 0) BY DEF IsInjective
    <2>3. 0 \in 0 .. Len(s) BY <1>1
    <2>4. Good(f[0], 0) BY Zenon, <2>1, <2>2
    <2> QED BY Zenon, <2>3, <2>4
  <1>6. ASSUME NEW i \in 1 .. Len(s), i - 1 \in G PROVE i \in G
    <2> DEFINE q == f[i - 1]
               e == Append(q, s[i])
    <2>1. i \in 0 .. Len(s) /\ i # 0 /\ i - 1 \in Nat /\ s[i] \in T BY <1>1
    <2>2. f[i] = IF s[i] \in S THEN e ELSE q BY <1>4, <2>1
    <2> HIDE DEF q
    <2>3. Good(q, i - 1) BY <1>6 DEF q
    <2>4. \A x : (\E j \in 1 .. i : s[j] = x) <=> x = s[i] \/ \E j \in 1 .. i - 1 : s[j] = x
      BY <2>1
    <2>5. CASE s[i] \notin S
      <3>1. Good(q, i) BY <2>3, <2>4, <2>5
      <3> QED BY <2>1, <2>2, <2>5, <3>1
    <2>6. CASE s[i] \in S
      <3>1. q \in Seq(T) BY <2>3
      <3>2. /\ e \in Seq(T) /\ DOMAIN q = 1 .. Len(q) /\ DOMAIN e = 1 .. Len(q) + 1
            /\ Len(q) \in Nat /\ e[Len(q) + 1] = s[i]
            /\ \A k \in 1 .. Len(q) : e[k] = q[k]
        BY <2>1, <3>1
      <3>3. \A k \in DOMAIN e : k = Len(q) + 1 \/ k \in DOMAIN q BY <3>2
      <3>4. \A k \in DOMAIN q : k \in DOMAIN e /\ e[k] = q[k] /\ k # Len(q) + 1 BY <3>2
      <3>5. Len(q) + 1 \in DOMAIN e /\ e[Len(q) + 1] = s[i] BY <3>2
      <3> HIDE DEF e
      <3>6. \A x : (\E k \in DOMAIN e : e[k] = x) <=>
                     x = s[i] \/ \E k \in DOMAIN q : q[k] = x
        BY <3>3, <3>4, <3>5
      <3>7. \A x : (\E k \in DOMAIN e : e[k] = x) <=> x \in S /\ \E j \in 1 .. i : s[j] = x
        BY Zenon, <2>3, <2>4, <2>6, <3>6
      <3>8. ASSUME IsInjective(s) PROVE IsInjective(e)
        <4>1. IsInjective(q) BY <2>3, <3>8
        <4>2. ASSUME NEW k \in DOMAIN q PROVE q[k] # s[i]
          <5>1. PICK j \in 1 .. i - 1 : s[j] = q[k] BY Zenon, <2>3
          <5>2. j \in DOMAIN s /\ i \in DOMAIN s /\ j # i BY <1>1, <2>1
          <5> QED BY <3>8, <5>1, <5>2 DEF IsInjective
        <4> QED BY <3>3, <3>4, <3>5, <4>1, <4>2 DEF IsInjective
      <3>9. Good(e, i) BY <3>2, <3>7, <3>8
      <3> QED BY Zenon, <2>1, <2>2, <2>6, <3>9
    <2> QED BY <2>5, <2>6
  <1>7. Len(s) \in 0 .. Len(s) /\ G \in SUBSET Nat BY <1>1
  <1>8. Len(s) \in G
    <2> HIDE DEF G
    <2> QED BY Zenon, <1>1, <1>5, <1>6, <1>7, UpTo
  <1>9. Good(Picked(s, S), Len(s)) BY <1>3, <1>8
  <1> DEFINE p == Picked(s, S)
  <1> HIDE DEF p
  <1>10. Good(p, Len(s)) BY <1>9 DEF p
  <1>11. Range(p) = Range(s) \cap S BY <1>1, <1>10 DEF Range
  <1> QED BY <1>10, <1>11 DEF p

----------------------------------------------------------------------------
(* The selected chain and the answers made of it *)

\* A block is on its own chain, after the chain of its parent.
LEMMA ChainFacts ==
  ASSUME NEW h \in Hash
  PROVE  /\ Chain[h] \in Seq(Hash)
         /\ OnChain(h) \subseteq Hash
         /\ h \in OnChain(h)
         /\ h = Genesis => OnChain(h) = {h}
         /\ h # Genesis => OnChain(h) = OnChain(Parent[h]) \cup {h}
  <1>1. /\ Chain[h] \in Seq(Hash)
        /\ Chain[h] = IF h = Genesis THEN <<h>> ELSE Append(Chain[Parent[h]], h)
    BY TreeAssumption
  <1>2. CASE h = Genesis
    <2>1. Chain[h] = <<h>> BY <1>1, <1>2
    <2>2. Range(<<h>>) = {h} BY DEF Range
    <2> QED BY <1>1, <1>2, <2>1, <2>2 DEF OnChain
  <1>3. CASE h # Genesis
    <2> DEFINE s == Chain[Parent[h]]
    <2>1. Parent[h] \in Hash BY <1>3, IndexerAssumption
    <2>2. s \in Seq(Hash) BY Zenon, <2>1, TreeAssumption
    <2>3. Chain[h] = Append(s, h) BY <1>1, <1>3
    <2> HIDE DEF s
    <2>4. Range(Append(s, h)) = Range(s) \cup {h} BY <2>2, AppendFacts
    <2>5. Range(s) \subseteq Hash BY <2>2 DEF Range
    <2> QED BY <1>1, <1>3, <2>3, <2>4, <2>5 DEF OnChain, s
  <1> QED BY <1>2, <1>3

\* The added chain is what the new chain has and the old one lacks.
LEMMA AddedFacts ==
  ASSUME NEW from \in Hash, NEW to \in Hash
  PROVE  /\ AddedChain(from, to) \in Seq(Hash)
         /\ Range(AddedChain(from, to)) = OnChain(to) \ OnChain(from)
  <1> DEFINE S == Hash \ OnChain(from)
             s == Chain[to]
  <1>1. s \in Seq(Hash) /\ Range(s) \subseteq Hash BY ChainFacts DEF OnChain
  <1>2. AddedChain(from, to) = Picked(s, S) BY DEF AddedChain
  <1>3. Range(s) \cap S = OnChain(to) \ OnChain(from) BY <1>1 DEF OnChain
  <1> HIDE DEF s, S
  <1>4. Picked(s, S) \in Seq(Hash) /\ Range(Picked(s, S)) = Range(s) \cap S
    BY <1>1, PickedFacts
  <1> QED BY <1>2, <1>3, <1>4

\* The removed chain is what the old chain has and the new one lacks.
LEMMA RemovedFacts ==
  ASSUME NEW from \in Hash, NEW to \in Hash
  PROVE  /\ RemovedChain(from, to) \in Seq(Hash)
         /\ Range(RemovedChain(from, to)) = OnChain(from) \ OnChain(to)
  <1> DEFINE q == AddedChain(to, from)
             r == [i \in 1 .. Len(q) |-> q[(Len(q) - i) + 1]]
  <1>1. q \in Seq(Hash) /\ Range(q) = OnChain(from) \ OnChain(to) BY AddedFacts
  <1>2. RemovedChain(from, to) = r BY DEF RemovedChain, AddedChain
  <1> HIDE DEF q
  <1>3. r \in Seq(Hash) BY <1>1
  <1>4. Range(r) = Range(q)
    <2>1. Len(q) \in Nat /\ DOMAIN q = 1 .. Len(q) BY <1>1
    <2>2. DOMAIN r = 1 .. Len(q) OBVIOUS
    <2>3. \A i \in 1 .. Len(q) : /\ (Len(q) - i) + 1 \in 1 .. Len(q)
                                 /\ r[i] = q[(Len(q) - i) + 1]
      BY <2>1
    <2>4. \A i \in 1 .. Len(q) : r[(Len(q) - i) + 1] = q[i]
      <3> TAKE i \in 1 .. Len(q)
      <3>1. (Len(q) - ((Len(q) - i) + 1)) + 1 = i BY <2>1
      <3> QED BY <2>1, <2>3, <3>1
    <2> QED BY <2>1, <2>2, <2>3, <2>4 DEF Range
  <1> QED BY <1>1, <1>2, <1>3, <1>4

\* getVirtualChainFromBlock answers with blocks of the sink's chain.
LEMMA VirtualChainFacts ==
  ASSUME NEW from \in Hash, tip \in Hash
  PROVE  /\ VirtualChainFrom(from) \in Seq(Hash)
         /\ Range(VirtualChainFrom(from)) \subseteq OnChain(tip)
  <1> DEFINE q == AddedChain(from, tip)
             n == IF Len(q) < ChainBatch THEN Len(q) ELSE ChainBatch
  <1>1. q \in Seq(Hash) /\ Range(q) \subseteq OnChain(tip) BY AddedFacts
  <1>2. VirtualChainFrom(from) = SubSeq(q, 1, n) BY DEF VirtualChainFrom
  <1>3. ChainBatch \in Nat BY IndexerAssumption
  <1> HIDE DEF q
  <1>4. Len(q) \in Nat BY <1>1
  <1>5. n \in Nat /\ n <= Len(q) BY <1>3, <1>4
  <1> HIDE DEF n
  <1>6. /\ SubSeq(q, 1, n) \in Seq(Hash)
        /\ DOMAIN SubSeq(q, 1, n) = 1 .. n
        /\ \A i \in 1 .. n : SubSeq(q, 1, n)[i] = q[i] /\ i \in DOMAIN q
    BY <1>1, <1>4, <1>5
  <1>7. Range(SubSeq(q, 1, n)) \subseteq Range(q) BY <1>6 DEF Range
  <1> QED BY <1>1, <1>2, <1>6, <1>7

----------------------------------------------------------------------------
(* The invariant of the follower *)

\* The messages of the channel.
Message ==
  {Connected(g) : g \in Nat} \cup {BlockAdded(h) : h \in Hash}
    \cup {VirtualChainChanged(r, a) : r \in Seq(Hash), a \in Seq(Hash)}

\* A Connected message announces a stream there was, the others name blocks the
\* node knows, and a chain that changes gets at least one block.
MessageOK(m, K, gen) ==
  /\ m.kind = "connected" => m.generation \in Nat /\ m.generation <= gen
  /\ m.kind = "block" => m.hash \in K
  /\ m.kind = "chain" => /\ m.removed \in Seq(Hash) /\ Range(m.removed) \subseteq K
                         /\ m.accepted \in Seq(Hash) /\ Range(m.accepted) \subseteq K
                         /\ m.accepted # <<>>

ChannelInv ==
  /\ notifs \in Seq(Message)
  /\ Len(notifs) <= NOTIF_QUEUE
  /\ \A i \in DOMAIN notifs : MessageOK(notifs[i], known, generation)

\* The node knows the past of what it knows, and holds no subscription of a
\* stream that is down.
NodeInv ==
  /\ known \subseteq Hash /\ tip \in known
  /\ \A k \in known : OnChain(k) \subseteq known
  /\ conn \in BOOLEAN /\ generation \in Nat
  /\ sub \subseteq {"block", "chain"}
  /\ ~conn => sub = {}

\* The await points before a backfill has its start.
Before == {"recv", "open_store", "notify_block_added",
           "notify_virtual_chain_changed", "backfill", "sink"}

\* The record a job is, and what each await point may count on.
JobInv ==
  /\ job = [from |-> job.from, removed |-> job.removed, accepted |-> job.accepted,
            misses |-> job.misses, newest |-> job.newest]
  /\ job.removed \in Seq(Hash) /\ Range(job.removed) \subseteq known
  /\ job.accepted \in Seq(Hash) /\ Range(job.accepted) \subseteq known
  /\ job.newest \in Nat
  /\ pc \in Before => job.from = Nil /\ job.removed = <<>>
  /\ pc = "virtual_chain" => job.from \in Hash
  /\ pc \in {"get_blocks", "unwind"} => job.accepted # <<>>
  /\ pc = "expire" => job.newest > WindowDaa

\* An IndexerStatus.
St(s, g, c, w, t, b, r, n) ==
  [state |-> s, generation |-> g, checkpoint_daa |-> c, window_low_daa |-> w,
   total_txs |-> t, chain_blocks |-> b, resolve_misses |-> r, staged_blocks |-> n]

\* s is an IndexerStatus.
IsStatus(s) ==
  s = St(s.state, s.generation, s.checkpoint_daa, s.window_low_daa, s.total_txs,
         s.chain_blocks, s.resolve_misses, s.staged_blocks)

StatusInv ==
  /\ IsStatus(status)
  /\ status.generation \in Nat /\ status.generation <= generation
  /\ status.state \in {"connecting", "backfilling", "live"}
  /\ ctx = [last_expire_daa |-> ctx.last_expire_daa, total_misses |-> ctx.total_misses]

FollowInv ==
  /\ StoreInv
  /\ wtx # Nil => pc = "apply"
  /\ NodeInv
  /\ ChannelInv
  /\ JobInv
  /\ StatusInv

----------------------------------------------------------------------------
(* The steps of the follower are steps of the store *)

\* The ways a failed call leaves the task.
LEMMA CallFailsCases ==
  ASSUME CallFails
  PROVE  /\ staging' = staging /\ ctx' = ctx
         /\ \/ /\ pc = "open_store" /\ pc' = "notify_block_added"
               /\ prefix' = "default" /\ status' = status /\ job' = job
            \/ /\ pc = "open_store" /\ pc' = "recv"
               /\ prefix' = prefix /\ status' = status /\ job' = job
            \/ /\ pc \in {"notify_block_added", "notify_virtual_chain_changed"}
               /\ prefix' = prefix /\ Idle(status)
            \/ /\ pc \in {"sink", "virtual_chain"}
               /\ prefix' = prefix /\ Idle(InState("live"))
            \/ /\ pc = "get_blocks" /\ pc' = "build_groups"
               /\ prefix' = prefix /\ status' = status /\ job' = job
  BY Zenon DEF CallFails, Calling

\* build_groups makes one group for each accepted block, of the transactions
\* that are staged, each of them once.
LEMMA GroupsFacts ==
  ASSUME NEW accepted \in Seq(Hash), NEW unresolved
  PROVE  LET groups == build_groups(accepted, unresolved)
         IN /\ groups \in Seq(AcceptedGroup)
            /\ Len(groups) = Len(accepted)
            /\ groups = <<>> <=> accepted = <<>>
            /\ \A i \in DOMAIN groups : IsInjective(groups[i].txs)
  <1> DEFINE groups == build_groups(accepted, unresolved)
             txs(h) == Picked(Accepts[h], Range(staging.txs))
             G(h) == [hash |-> h, daa |-> resolve_daa(h, unresolved), txs |-> txs(h)]
  <1>1. ASSUME NEW h \in Hash
        PROVE  txs(h) \in Seq(TxId) /\ IsInjective(txs(h))
    <2> DEFINE s == Accepts[h]
               S == Range(staging.txs)
    <2>1. s \in Seq(TxId) /\ IsInjective(s) BY IndexerAssumption
    <2> HIDE DEF s, S
    <2>2. Picked(s, S) \in Seq(TxId) /\ IsInjective(Picked(s, S))
      BY <2>1, PickedFacts
    <2> QED BY <2>2 DEF s, S
  <1>2. \A h \in Hash : resolve_daa(h, unresolved) \in Nat
    BY IndexerAssumption DEF resolve_daa
  <1>3. groups = [i \in DOMAIN accepted |-> G(accepted[i])] BY DEF build_groups
  <1> HIDE DEF txs, groups
  <1>4. \A h \in Hash : G(h) \in AcceptedGroup /\ G(h).txs = txs(h)
    BY <1>1, <1>2 DEF AcceptedGroup
  <1> HIDE DEF G
  <1>5. /\ DOMAIN accepted = 1 .. Len(accepted) /\ Len(accepted) \in Nat
        /\ \A i \in DOMAIN accepted : accepted[i] \in Hash
    OBVIOUS
  <1>6. groups \in Seq(AcceptedGroup) /\ Len(groups) = Len(accepted)
    <2>1. groups \in [1 .. Len(accepted) -> AcceptedGroup] BY <1>3, <1>4, <1>5
    <2>2. Len(accepted) \in Nat BY <1>5
    <2> QED BY <2>1, <2>2
  <1>7. groups = <<>> <=> accepted = <<>> BY <1>5, <1>6
  <1>8. \A i \in DOMAIN groups : IsInjective(groups[i].txs)
    BY <1>1, <1>3, <1>4, <1>5
  <1> QED BY <1>6, <1>7, <1>8 DEF groups

\* Every step of the follower is a step of the store or leaves it alone.
LEMMA StepIsStoreStep ==
  ASSUME FollowInv, [Next]_vars
  PROVE  [StoreNext]_storeVars
  <1>1. CASE UNCHANGED vars BY <1>1 DEF vars, storeVars
  <1>2. CASE Environment
    <2>1. CASE \E h \in Hash \ {Genesis} : Mine(h) BY <2>1 DEF Mine
    <2>2. CASE Connect BY <2>2 DEF Connect
    <2>3. CASE Disconnect BY <2>3 DEF Disconnect
    <2>4. CASE Crash BY <2>4 DEF Crash, StoreNext
    <2> QED BY <1>2, <2>1, <2>2, <2>3, <2>4 DEF Environment
  <1>3. CASE UnwindNext
    <2>1. Head(job.removed) \in Hash
      BY <1>3, TailFacts DEF UnwindNext, FollowInv, JobInv
    <2> QED BY <1>3, <2>1 DEF UnwindNext, StoreNext
  <1>4. CASE BuildGroups
    <2>1. PICK unresolved :
            LET groups == build_groups(job.accepted, unresolved)
            IN IF groups = <<>> THEN Finish(status) /\ UNCHANGED storeVars
               ELSE BeginApply(groups)
      BY <1>4 DEF BuildGroups
    <2>2. build_groups(job.accepted, unresolved) \in Seq(AcceptedGroup)
      BY GroupsFacts DEF FollowInv, JobInv
    <2> QED BY <2>1, <2>2 DEF StoreNext
  <1>5. CASE ApplyStep BY <1>5 DEF ApplyStep, StoreNext
  <1>6. CASE ApplyFails BY <1>6 DEF ApplyFails, StoreNext
  <1>7. CASE ApplyDone BY <1>7 DEF ApplyDone, StoreNext
  <1>8. CASE Sweep
    <2>1. pc = "expire" BY <1>8 DEF Sweep
    <2>2. job.newest \in Nat /\ job.newest > WindowDaa
      BY <2>1 DEF FollowInv, JobInv
    <2>3. WindowDaa \in Nat BY IndexerAssumption
    <2>4. job.newest - WindowDaa \in Nat BY <2>2, <2>3
    <2> QED BY <1>8, <2>4 DEF Sweep, StoreNext
  <1>9. CASE \/ RecvConnected \/ OpenStore \/ SubscribeBlocks \/ SubscribeChain
             \/ BackfillStart \/ GetSink \/ GetVirtualChain \/ GetBlocks \/ RpcError
             \/ RecvBlockAdded \/ RecvChainChanged \/ Unwound
    BY <1>9 DEF RecvConnected, OpenStore, SubscribeBlocks, SubscribeChain, Subscribe,
       BackfillStart, GetSink, GetVirtualChain, GetBlocks, RpcError,
       RecvBlockAdded, RecvChainChanged, Unwound
  <1> QED
    BY <1>1, <1>2, <1>3, <1>4, <1>5, <1>6, <1>7, <1>8, <1>9 DEF Next, Task

\* The node's own variables.
LEMMA NodeStep ==
  ASSUME FollowInv, [Next]_vars
  PROVE  NodeInv'
  <1> USE DEF FollowInv, NodeInv
  <1>1. CASE UNCHANGED nodeVars BY <1>1 DEF nodeVars, OnChain
  <1>2. ASSUME NEW h \in Hash \ {Genesis}, Mine(h) PROVE NodeInv'
    <2>1. /\ known' = known \cup {h} /\ (tip' = h \/ tip' = tip)
          /\ conn' = conn /\ generation' = generation /\ sub' = sub
          /\ Parent[h] \in known
      BY <1>2 DEF Mine
    <2>2. OnChain(h) = OnChain(Parent[h]) \cup {h} BY ChainFacts
    <2>3. \A k \in known' : OnChain(k) \subseteq known' BY <2>1, <2>2
    <2>4. \A k : OnChain(k)' = OnChain(k) BY DEF OnChain
    <2> QED BY <2>1, <2>3, <2>4
  <1>3. CASE Connect BY <1>3 DEF Connect, OnChain
  <1>4. CASE Disconnect BY Zenon, <1>4 DEF Disconnect, OnChain
  <1>5. CASE Crash BY Zenon, <1>5 DEF Crash, OnChain
  <1>6. CASE SubscribeBlocks BY <1>6 DEF SubscribeBlocks, Subscribe, OnChain
  <1>7. CASE SubscribeChain BY <1>7 DEF SubscribeChain, Subscribe, OnChain
  <1>8. CASE \/ RecvConnected \/ OpenStore
             \/ BackfillStart \/ GetSink \/ GetVirtualChain \/ GetBlocks \/ RpcError
             \/ RecvBlockAdded \/ RecvChainChanged \/ Unwound
             \/ UnwindNext \/ BuildGroups \/ ApplyStep \/ ApplyFails \/ ApplyDone \/ Sweep
    <2>1. UNCHANGED nodeVars
      BY <1>8 DEF RecvConnected, OpenStore,
         BackfillStart, GetSink, GetVirtualChain, GetBlocks, RpcError,
         RecvBlockAdded, RecvChainChanged, Unwound,
         UnwindNext, BuildGroups, ApplyStep, ApplyFails, ApplyDone, Sweep
    <2> QED BY <1>1, <2>1
  <1>9. CASE UNCHANGED vars BY <1>1, <1>9 DEF vars
  <1> QED
    BY <1>2, <1>3, <1>4, <1>5, <1>6, <1>7, <1>8, <1>9 DEF Next, Task, Environment

----------------------------------------------------------------------------
(* The channel *)

\* forward never goes over the capacity of the channel.
LEMMA ForwardFacts ==
  ASSUME NEW q \in Seq(Message), Len(q) <= NOTIF_QUEUE, NEW m \in Message
  PROVE  /\ forward(q, m) \in Seq(Message)
         /\ Len(forward(q, m)) <= NOTIF_QUEUE
         /\ \A i \in DOMAIN forward(q, m) :
              \/ forward(q, m)[i] = m
              \/ i \in DOMAIN q /\ forward(q, m)[i] = q[i]
  <1>1. NOTIF_QUEUE \in Nat /\ Len(q) \in Nat BY IndexerAssumption
  <1>2. CASE Len(q) < NOTIF_QUEUE
    <2>1. forward(q, m) = Append(q, m) BY <1>2 DEF forward
    <2>2. /\ Append(q, m) \in Seq(Message) /\ Len(Append(q, m)) = Len(q) + 1
          /\ \A i \in DOMAIN Append(q, m) :
               \/ Append(q, m)[i] = m
               \/ i \in DOMAIN q /\ Append(q, m)[i] = q[i]
      BY AppendFacts
    <2> QED BY <1>1, <1>2, <2>1, <2>2
  <1>3. CASE ~(Len(q) < NOTIF_QUEUE)
    <2>1. forward(q, m) = q BY <1>3 DEF forward
    <2> QED BY <2>1
  <1> QED BY <1>2, <1>3

\* The messages are what their constructors say.
LEMMA MessageFacts ==
  /\ \A g : Connected(g).kind = "connected" /\ Connected(g).generation = g
  /\ \A h : BlockAdded(h).kind = "block" /\ BlockAdded(h).hash = h
  /\ \A r, a : /\ VirtualChainChanged(r, a).kind = "chain"
               /\ VirtualChainChanged(r, a).removed = r
               /\ VirtualChainChanged(r, a).accepted = a
  BY DEF Connected, BlockAdded, VirtualChainChanged

\* A message stays true as the node learns more and makes more connections.
LEMMA MessageStays ==
  ASSUME NEW m, MessageOK(m, known, generation), known \subseteq known',
         generation \in Nat, generation' \in Nat, generation <= generation'
  PROVE  MessageOK(m, known', generation')
  BY DEF MessageOK

\* What the node pushes with block h keeps the channel.
LEMMA MineChannel ==
  ASSUME FollowInv, NEW h \in Hash \ {Genesis}, Mine(h)
  PROVE  ChannelInv'
  <1> DEFINE to == IF Len(Chain[h]) > Len(Chain[tip]) THEN h ELSE tip
             q1 == IF "block" \in sub THEN forward(notifs, BlockAdded(h)) ELSE notifs
             m2 == VirtualChainChanged(RemovedChain(tip, to), AddedChain(tip, to))
  <1>1. /\ h \notin known /\ Parent[h] \in known
        /\ known' = known \cup {h} /\ generation' = generation
        /\ notifs' = Push(notifs, h, to)
    BY DEF Mine
  <1>2. /\ known \subseteq Hash /\ tip \in known /\ generation \in Nat
        /\ \A k \in known : OnChain(k) \subseteq known
    BY DEF FollowInv, NodeInv
  <1>3. notifs' = IF "chain" \in sub /\ to # tip THEN forward(q1, m2) ELSE q1
    BY <1>1 DEF Push
  <1>4. /\ notifs \in Seq(Message) /\ Len(notifs) <= NOTIF_QUEUE
        /\ \A i \in DOMAIN notifs : MessageOK(notifs[i], known, generation)
    BY DEF FollowInv, ChannelInv
  <1>5. \A m : MessageOK(m, known, generation) => MessageOK(m, known', generation')
    <2>1. known \subseteq known' /\ generation' \in Nat /\ generation <= generation'
      BY <1>1, <1>2
    <2> QED BY <1>2, <2>1, MessageStays
  <1>6. MessageOK(BlockAdded(h), known', generation') /\ BlockAdded(h) \in Message
    <2>1. BlockAdded(h) \in Message BY DEF Message
    <2> QED BY <1>1, <2>1, MessageFacts DEF MessageOK
  <1>7. /\ q1 \in Seq(Message) /\ Len(q1) <= NOTIF_QUEUE
        /\ \A i \in DOMAIN q1 : MessageOK(q1[i], known', generation')
    <2>1. CASE "block" \in sub
      <3>1. q1 = forward(notifs, BlockAdded(h)) BY <2>1
      <3> HIDE DEF q1
      <3>2. /\ forward(notifs, BlockAdded(h)) \in Seq(Message)
            /\ Len(forward(notifs, BlockAdded(h))) <= NOTIF_QUEUE
            /\ \A i \in DOMAIN forward(notifs, BlockAdded(h)) :
                 \/ forward(notifs, BlockAdded(h))[i] = BlockAdded(h)
                 \/ /\ i \in DOMAIN notifs
                    /\ forward(notifs, BlockAdded(h))[i] = notifs[i]
        BY <1>4, <1>6, ForwardFacts
      <3>3. ASSUME NEW i \in DOMAIN q1 PROVE MessageOK(q1[i], known', generation')
        <4>1. q1[i] = BlockAdded(h) \/ (i \in DOMAIN notifs /\ q1[i] = notifs[i])
          BY <3>1, <3>2
        <4> QED BY <1>4, <1>5, <1>6, <4>1
      <3> QED BY <3>1, <3>2, <3>3
    <2>2. CASE "block" \notin sub
      <3>1. q1 = notifs BY <2>2
      <3> HIDE DEF q1
      <3> QED BY <1>4, <1>5, <3>1
    <2> QED BY <2>1, <2>2
  <1>8. ASSUME to # tip PROVE MessageOK(m2, known', generation') /\ m2 \in Message
    <2>1. to = h BY <1>8
    <2>2. tip \in Hash /\ h \in Hash /\ Parent[h] \in Hash BY <1>1, <1>2
    <2>3. /\ RemovedChain(tip, h) \in Seq(Hash)
          /\ Range(RemovedChain(tip, h)) = OnChain(tip) \ OnChain(h)
      BY <2>2, RemovedFacts
    <2>4. /\ AddedChain(tip, h) \in Seq(Hash)
          /\ Range(AddedChain(tip, h)) = OnChain(h) \ OnChain(tip)
      BY <2>2, AddedFacts
    <2>5. OnChain(h) = OnChain(Parent[h]) \cup {h} BY <2>2, ChainFacts
    <2>6. h \in Range(AddedChain(tip, h)) BY <1>1, <1>2, <2>4, <2>5
    <2>7. AddedChain(tip, h) # <<>>
      <3>1. Range(<<>>) = {} BY DEF Range
      <3> QED BY <2>6, <3>1
    <2>8. m2 \in Message BY <2>1, <2>3, <2>4 DEF Message
    <2>9. /\ m2.kind = "chain" /\ m2.removed = RemovedChain(tip, h)
          /\ m2.accepted = AddedChain(tip, h)
      BY <2>1, MessageFacts
    <2>10. /\ OnChain(tip) \ OnChain(h) \subseteq known'
           /\ OnChain(h) \ OnChain(tip) \subseteq known'
      BY <1>1, <1>2, <2>5
    <2> HIDE DEF m2
    <2>11. MessageOK(m2, known', generation')
      BY <2>3, <2>4, <2>7, <2>9, <2>10 DEF MessageOK
    <2> QED BY <2>8, <2>11
  <1> HIDE DEF q1, m2, to
  <1>9. CASE "chain" \in sub /\ to # tip
    <2>1. notifs' = forward(q1, m2) BY <1>3, <1>9
    <2>2. /\ forward(q1, m2) \in Seq(Message)
          /\ Len(forward(q1, m2)) <= NOTIF_QUEUE
          /\ \A i \in DOMAIN forward(q1, m2) :
               \/ forward(q1, m2)[i] = m2
               \/ i \in DOMAIN q1 /\ forward(q1, m2)[i] = q1[i]
      BY <1>7, <1>8, <1>9, ForwardFacts
    <2>3. ASSUME NEW i \in DOMAIN notifs' PROVE MessageOK(notifs'[i], known', generation')
      BY <1>7, <1>8, <1>9, <2>1, <2>2
    <2> QED BY <2>1, <2>2, <2>3 DEF ChannelInv
  <1>10. CASE ~("chain" \in sub /\ to # tip)
    <2>1. notifs' = q1 BY <1>3, <1>10
    <2> QED BY <1>7, <2>1 DEF ChannelInv
  <1> QED BY <1>9, <1>10

\* The channel keeps to its capacity and to messages that make sense.
LEMMA ChannelStep ==
  ASSUME FollowInv, [Next]_vars
  PROVE  ChannelInv'
  <1>1. /\ notifs \in Seq(Message) /\ Len(notifs) <= NOTIF_QUEUE
        /\ \A i \in DOMAIN notifs : MessageOK(notifs[i], known, generation)
        /\ generation \in Nat
    BY DEF FollowInv, ChannelInv, NodeInv
  <1>2. ASSUME UNCHANGED <<notifs, known, generation>> PROVE ChannelInv'
    BY <1>1, <1>2 DEF ChannelInv, MessageOK
  <1>3. ASSUME NEW h \in Hash \ {Genesis}, Mine(h) PROVE ChannelInv'
    BY <1>3, MineChannel
  <1>4. CASE Connect
    <2>1. /\ known' = known /\ generation' = generation + 1
          /\ notifs' = forward(notifs, Connected(generation'))
      BY <1>4 DEF Connect
    <2> DEFINE m == Connected(generation')
    <2>2. m \in Message /\ m.kind = "connected" /\ m.generation = generation'
      BY <1>1, <2>1, MessageFacts DEF Message
    <2>3. notifs' = forward(notifs, m) BY <2>1
    <2> HIDE DEF m
    <2>4. MessageOK(m, known', generation') BY <1>1, <2>1, <2>2 DEF MessageOK
    <2>5. \A x : MessageOK(x, known, generation) => MessageOK(x, known', generation')
      BY <1>1, <2>1, MessageStays
    <2>6. /\ forward(notifs, m) \in Seq(Message)
          /\ Len(forward(notifs, m)) <= NOTIF_QUEUE
          /\ \A i \in DOMAIN forward(notifs, m) :
               \/ forward(notifs, m)[i] = m
               \/ i \in DOMAIN notifs /\ forward(notifs, m)[i] = notifs[i]
      BY <1>1, <2>2, ForwardFacts
    <2>7. ASSUME NEW i \in DOMAIN notifs' PROVE MessageOK(notifs'[i], known', generation')
      BY <1>1, <2>3, <2>4, <2>5, <2>6
    <2> QED BY <2>3, <2>6, <2>7 DEF ChannelInv
  <1>5. CASE Disconnect BY <1>2, <1>5 DEF Disconnect
  <1>6. CASE Crash
    <2>1. notifs' = <<>> BY <1>6 DEF Crash
    <2>2. NOTIF_QUEUE \in Nat BY IndexerAssumption
    <2>3. <<>> \in Seq(Message) /\ Len(<<>>) = 0 /\ DOMAIN <<>> = {} OBVIOUS
    <2> QED BY <2>1, <2>2, <2>3 DEF ChannelInv
  <1>7. ASSUME notifs # <<>>, notifs' = Tail(notifs), UNCHANGED nodeVars
        PROVE  ChannelInv'
    <2>1. known' = known /\ generation' = generation BY <1>7 DEF nodeVars
    <2>2. /\ Tail(notifs) \in Seq(Message) /\ Len(Tail(notifs)) = Len(notifs) - 1
          /\ \A i \in DOMAIN Tail(notifs) : /\ i + 1 \in DOMAIN notifs
                                            /\ Tail(notifs)[i] = notifs[i + 1]
      BY <1>1, <1>7, TailFacts
    <2>3. Len(notifs) \in Nat /\ NOTIF_QUEUE \in Nat BY <1>1, IndexerAssumption
    <2>4. \A x : MessageOK(x, known, generation) => MessageOK(x, known', generation')
      BY <2>1 DEF MessageOK
    <2>5. ASSUME NEW i \in DOMAIN notifs' PROVE MessageOK(notifs'[i], known', generation')
      BY <1>1, <1>7, <2>2, <2>4
    <2>6. Len(notifs') <= NOTIF_QUEUE BY <1>1, <1>7, <2>2, <2>3
    <2> QED BY <1>7, <2>2, <2>5, <2>6 DEF ChannelInv
  <1>8. CASE RecvConnected \/ RecvBlockAdded \/ RecvChainChanged
    BY <1>7, <1>8 DEF RecvConnected, RecvBlockAdded, RecvChainChanged
  <1>9. CASE \/ OpenStore \/ SubscribeBlocks \/ SubscribeChain
             \/ BackfillStart \/ GetSink \/ GetVirtualChain \/ GetBlocks \/ RpcError
             \/ Unwound \/ UnwindNext \/ BuildGroups
             \/ ApplyStep \/ ApplyFails \/ ApplyDone \/ Sweep
    <2>1. UNCHANGED <<notifs, known, generation>>
      BY <1>9 DEF OpenStore, SubscribeBlocks, SubscribeChain, Subscribe,
         BackfillStart, GetSink, GetVirtualChain, GetBlocks, RpcError, Unwound,
         UnwindNext, BuildGroups, ApplyStep, ApplyFails, ApplyDone, Sweep, nodeVars
    <2> QED BY <1>2, <2>1
  <1>10. CASE UNCHANGED vars BY <1>2, <1>10 DEF vars, nodeVars
  <1> QED
    BY <1>3, <1>4, <1>5, <1>6, <1>8, <1>9, <1>10 DEF Next, Task, Environment

----------------------------------------------------------------------------
(* The task *)

\* A job that has not begun satisfies every await point before the backfill.
LEMMA NoJobFacts ==
  /\ NoJob.from = Nil /\ NoJob.removed = <<>> /\ NoJob.accepted = <<>>
  /\ NoJob.newest = 0
  /\ NoJob = [from |-> NoJob.from, removed |-> NoJob.removed,
              accepted |-> NoJob.accepted, misses |-> NoJob.misses,
              newest |-> NoJob.newest]
  BY DEF NoJob

\* A task that goes back to its channel has no job.
LEMMA IdleJob ==
  ASSUME pc' = "recv", job' = NoJob
  PROVE  JobInv'
  <1>1. <<>> \in Seq(Hash) /\ Range(<<>>) = {} BY DEF Range
  <1>2. 0 \in Nat OBVIOUS
  <1> QED BY <1>1, <1>2, NoJobFacts DEF JobInv, Before

\* A backfill job has a start and the blocks to accept.
LEMMA BackfillFacts ==
  ASSUME NEW start, NEW accepted
  PROVE  LET j == Backfill(start, accepted)
         IN /\ j.from = start /\ j.removed = <<>> /\ j.accepted = accepted
            /\ j.newest = 0
            /\ j = [from |-> j.from, removed |-> j.removed, accepted |-> j.accepted,
                    misses |-> j.misses, newest |-> j.newest]
  <1> DEFINE k == [NoJob EXCEPT !.from = start]
  <1>1. k = [from |-> start, removed |-> <<>>, accepted |-> <<>>, misses |-> 0,
             newest |-> 0]
    BY DEF NoJob
  <1>2. Backfill(start, accepted) = [k EXCEPT !.accepted = accepted] BY DEF Backfill
  <1> HIDE DEF k
  <1>3. [k EXCEPT !.accepted = accepted] =
          [from |-> start, removed |-> <<>>, accepted |-> accepted, misses |-> 0,
           newest |-> 0]
    BY <1>1
  <1> QED BY <1>2, <1>3

\* The job keeps its shape and each await point what it counts on.
LEMMA JobStep ==
  ASSUME FollowInv, [Next]_vars
  PROVE  JobInv'
  <1>1. /\ job = [from |-> job.from, removed |-> job.removed, accepted |-> job.accepted,
                  misses |-> job.misses, newest |-> job.newest]
        /\ job.removed \in Seq(Hash) /\ Range(job.removed) \subseteq known
        /\ job.accepted \in Seq(Hash) /\ Range(job.accepted) \subseteq known
        /\ job.newest \in Nat
        /\ pc \in Before => job.from = Nil /\ job.removed = <<>>
        /\ pc = "virtual_chain" => job.from \in Hash
        /\ pc \in {"get_blocks", "unwind"} => job.accepted # <<>>
        /\ pc = "expire" => job.newest > WindowDaa
    BY DEF FollowInv, JobInv
  <1>2. <<>> \in Seq(Hash) /\ Range(<<>>) = {} /\ 0 \in Nat BY DEF Range
  <1>3. /\ known \subseteq Hash /\ tip \in known
        /\ \A k \in known : OnChain(k) \subseteq known
        /\ TypeOK
    BY DEF FollowInv, NodeInv, StoreInv
  <1>4. ASSUME UNCHANGED <<job, pc>>, known \subseteq known' PROVE JobInv'
    BY <1>1, <1>4 DEF JobInv
  <1>5. ASSUME job' = job, known' = known, pc \in Before, pc' \in Before PROVE JobInv'
    BY <1>1, <1>5 DEF JobInv, Before
  <1>6. ASSUME CallFails, known' = known PROVE JobInv'
    <2>1. CASE pc = "open_store" /\ pc' \in {"notify_block_added", "recv"} /\ job' = job
      BY <1>5, <1>6, <2>1 DEF Before
    <2>2. CASE pc' = "recv" /\ job' = NoJob BY <2>2, IdleJob
    <2>3. CASE pc = "get_blocks" /\ pc' = "build_groups" /\ job' = job
      BY <1>1, <1>6, <2>3 DEF JobInv, Before
    <2> QED BY <1>6, <2>1, <2>2, <2>3, CallFailsCases DEF Idle
  <1>7. CASE UNCHANGED vars BY <1>4, <1>7 DEF vars, taskVars, nodeVars
  <1>8. CASE Environment
    <2>1. CASE \E h \in Hash \ {Genesis} : Mine(h)
      BY <1>4, <2>1 DEF Mine, taskVars
    <2>2. CASE Connect BY <1>4, <2>2 DEF Connect, taskVars
    <2>3. CASE Disconnect BY <1>4, <1>6, <2>3 DEF Disconnect, taskVars
    <2>4. CASE Crash BY <2>4, IdleJob DEF Crash
    <2> QED BY <1>8, <2>1, <2>2, <2>3, <2>4 DEF Environment
  <1>9. CASE RecvConnected BY <1>5, <1>9 DEF RecvConnected, nodeVars, Before
  <1>10. CASE OpenStore BY <1>5, <1>10 DEF OpenStore, nodeVars, Before
  <1>11. CASE SubscribeBlocks BY <1>5, <1>11 DEF SubscribeBlocks, Subscribe, Before
  <1>12. CASE SubscribeChain BY <1>5, <1>12 DEF SubscribeChain, Subscribe, Before
  <1>13. ASSUME NEW start, NEW accepted, job' = Backfill(start, accepted),
                known' = known, accepted \in Seq(Hash), Range(accepted) \subseteq known,
                \/ pc' = "virtual_chain" /\ start \in Hash
                \/ pc' = "get_blocks" /\ accepted # <<>>
                \/ pc' = "build_groups"
         PROVE  JobInv'
    <2>1. /\ job'.from = start /\ job'.removed = <<>> /\ job'.accepted = accepted
          /\ job'.newest = 0
          /\ job' = [from |-> job'.from, removed |-> job'.removed,
                     accepted |-> job'.accepted, misses |-> job'.misses,
                     newest |-> job'.newest]
      BY <1>13, BackfillFacts
    <2> QED BY <1>2, <1>13, <2>1 DEF JobInv, Before
  <1>14. CASE BackfillStart
    <2>1. CASE db.checkpoint # Nil
      <3>1. /\ pc' = "virtual_chain" /\ job' = Backfill(db.checkpoint.hash, <<>>)
            /\ known' = known
        BY <1>14, <2>1 DEF BackfillStart, nodeVars
      <3>2. db.checkpoint.hash \in Hash BY <1>3, <2>1 DEF TypeOK, TablesOK
      <3> QED BY Zenon, <1>2, <1>13, <3>1, <3>2
    <2>2. CASE db.checkpoint = Nil
      BY <1>5, <1>14, <2>2 DEF BackfillStart, nodeVars, Before
    <2> QED BY <2>1, <2>2
  <1>15. CASE GetSink
    <2>1. pc' = "virtual_chain" /\ job' = Backfill(tip, <<>>) /\ known' = known
      BY <1>15 DEF GetSink, nodeVars
    <2> QED BY Zenon, <1>2, <1>3, <1>13, <2>1
  <1>16. CASE GetVirtualChain
    <2> DEFINE accepted == VirtualChainFrom(job.from)
    <2>1. /\ pc = "virtual_chain" /\ job' = Backfill(job.from, accepted)
          /\ pc' = IF job'.accepted = <<>> THEN "build_groups" ELSE "get_blocks"
          /\ known' = known
      BY <1>16 DEF GetVirtualChain, nodeVars
    <2>2. job.from \in Hash /\ tip \in Hash BY <1>1, <1>3, <2>1
    <2>3. accepted \in Seq(Hash) /\ Range(accepted) \subseteq known
      BY <1>3, <2>2, VirtualChainFacts
    <2> HIDE DEF accepted
    <2>4. job'.accepted = accepted BY <2>1, BackfillFacts
    <2> QED BY <1>13, <2>1, <2>3, <2>4
  <1>17. CASE GetBlocks
    BY <1>1, <1>17 DEF GetBlocks, nodeVars, JobInv, Before
  <1>18. CASE RpcError BY <1>6, <1>18 DEF RpcError, nodeVars
  <1>19. CASE RecvBlockAdded BY <1>4, <1>19 DEF RecvBlockAdded, nodeVars
  <1>20. CASE RecvChainChanged
    <2>1. CASE prefix = Nil
      BY <1>4, <1>20, <2>1 DEF RecvChainChanged, nodeVars
    <2>2. CASE prefix # Nil
      <3> DEFINE m == Head(notifs)
      <3>1. /\ pc' = "unwind" /\ known' = known /\ notifs # <<>> /\ m.kind = "chain"
            /\ job' = [NoJob EXCEPT !.removed = m.removed, !.accepted = m.accepted]
        BY <1>20, <2>2 DEF RecvChainChanged, nodeVars
      <3>2. 1 \in DOMAIN notifs /\ m = notifs[1]
        BY <3>1, TailFacts DEF FollowInv, ChannelInv
      <3>3. MessageOK(m, known, generation) BY <3>2 DEF FollowInv, ChannelInv
      <3> HIDE DEF m
      <3>4. /\ m.removed \in Seq(Hash) /\ Range(m.removed) \subseteq known
            /\ m.accepted \in Seq(Hash) /\ Range(m.accepted) \subseteq known
            /\ m.accepted # <<>>
        BY <3>1, <3>3 DEF MessageOK
      <3>5. /\ job'.removed = m.removed /\ job'.accepted = m.accepted
            /\ job'.newest = 0
            /\ job' = [from |-> job'.from, removed |-> job'.removed,
                       accepted |-> job'.accepted, misses |-> job'.misses,
                       newest |-> job'.newest]
        BY Zenon, <3>1 DEF NoJob
      <3> QED BY <1>2, <3>1, <3>4, <3>5 DEF JobInv, Before
    <2> QED BY <2>1, <2>2
  <1>21. CASE UnwindNext
    <2>1. /\ pc = "unwind" /\ pc' = "unwind" /\ job.removed # <<>> /\ known' = known
          /\ job' = [job EXCEPT !.removed = Tail(@)]
      BY <1>21 DEF UnwindNext, nodeVars
    <2>2. /\ job'.removed = Tail(job.removed) /\ job'.accepted = job.accepted
          /\ job'.newest = job.newest
          /\ job' = [from |-> job'.from, removed |-> job'.removed,
                     accepted |-> job'.accepted, misses |-> job'.misses,
                     newest |-> job'.newest]
      BY Zenon, <1>1, <2>1
    <2>3. /\ Tail(job.removed) \in Seq(Hash)
          /\ Range(Tail(job.removed)) \subseteq Range(job.removed)
      BY <1>1, <2>1, TailFacts
    <2> QED BY <1>1, <2>1, <2>2, <2>3 DEF JobInv, Before
  <1>22. CASE Unwound BY Zenon, <1>1, <1>22 DEF Unwound, nodeVars, JobInv, Before
  <1>23. CASE BuildGroups
    <2>1. known' = known BY <1>23 DEF BuildGroups, nodeVars
    <2>2. CASE pc' = "recv" /\ job' = NoJob BY <2>2, IdleJob
    <2>3. CASE pc' = "apply" /\ \E n : job' = [job EXCEPT !.misses = n]
      <3>1. /\ job'.removed = job.removed /\ job'.accepted = job.accepted
            /\ job'.newest = job.newest
            /\ job' = [from |-> job'.from, removed |-> job'.removed,
                       accepted |-> job'.accepted, misses |-> job'.misses,
                       newest |-> job'.newest]
        BY <1>1, <2>3
      <3> QED BY <1>1, <2>1, <2>3, <3>1 DEF JobInv, Before
    <2> QED BY <1>23, <2>2, <2>3 DEF BuildGroups, Finish, Idle
  <1>24. CASE ApplyStep BY <1>4, <1>24 DEF ApplyStep, taskVars, nodeVars
  <1>25. CASE ApplyFails BY <1>25, IdleJob DEF ApplyFails, Finish, Idle
  <1>26. CASE ApplyDone
    <2>1. known' = known BY <1>26 DEF ApplyDone, nodeVars
    <2>2. CASE pc' = "recv" /\ job' = NoJob BY <2>2, IdleJob
    <2>3. CASE /\ pc' = "expire" /\ job' = [job EXCEPT !.newest = wtx.newest]
               /\ SweepDue(wtx.newest)
      <3>1. wtx.newest \in Nat /\ wtx.newest > WindowDaa
        BY <1>3, <1>26, <2>3 DEF TypeOK, TxnOK, ApplyDone, CommitApply, SweepDue
      <3>2. /\ job'.removed = job.removed /\ job'.accepted = job.accepted
            /\ job'.newest = wtx.newest
            /\ job' = [from |-> job'.from, removed |-> job'.removed,
                       accepted |-> job'.accepted, misses |-> job'.misses,
                       newest |-> job'.newest]
        BY <1>1, <2>3
      <3> QED BY <1>1, <2>1, <2>3, <3>1, <3>2 DEF JobInv, Before
    <2> QED BY <1>26, <2>2, <2>3 DEF ApplyDone, Finish, Idle
  <1>27. CASE Sweep BY <1>27, IdleJob DEF Sweep, Finish, Idle
  <1> QED
    BY <1>7, <1>8, <1>9, <1>10, <1>11, <1>12, <1>14, <1>15, <1>16, <1>17, <1>18,
       <1>19, <1>20, <1>21, <1>22, <1>23, <1>24, <1>25, <1>26, <1>27 DEF Next, Task

----------------------------------------------------------------------------
(* The status *)

\* A status has the fields it was made of.
LEMMA StReads ==
  ASSUME NEW s, NEW g, NEW c, NEW w, NEW t, NEW b, NEW r, NEW n
  PROVE  LET st == St(s, g, c, w, t, b, r, n)
         IN /\ st.state = s /\ st.generation = g /\ st.checkpoint_daa = c
            /\ st.window_low_daa = w /\ st.total_txs = t /\ st.chain_blocks = b
            /\ st.resolve_misses = r /\ st.staged_blocks = n
            /\ IsStatus(st)
  BY DEF St, IsStatus

\* apply_groups sets six fields and leaves the state and the generation.
LEMMA RefreshedFacts ==
  ASSUME NEW d, NEW misses, IsStatus(status)
  PROVE  Refreshed(d, misses) =
           St(status.state, status.generation, checkpoint_daa(d), window_low_daa(d),
              d.total_txs, chain_blocks(d), misses, 0)
  <1> DEFINE s == status.state
             g == status.generation
             c == checkpoint_daa(d)
             w == window_low_daa(d)
             t == d.total_txs
             b == chain_blocks(d)
             s1 == [status EXCEPT !.checkpoint_daa = c]
             s2 == [s1 EXCEPT !.window_low_daa = w]
             s3 == [s2 EXCEPT !.total_txs = t]
             s4 == [s3 EXCEPT !.chain_blocks = b]
             s5 == [s4 EXCEPT !.resolve_misses = misses]
             s6 == [s5 EXCEPT !.staged_blocks = 0]
  <1>1. Refreshed(d, misses) = s6 BY DEF Refreshed
  <1>2. status = St(s, g, status.checkpoint_daa, status.window_low_daa,
                    status.total_txs, status.chain_blocks, status.resolve_misses,
                    status.staged_blocks)
    BY DEF IsStatus
  <1> HIDE DEF s, g, c, w, t, b
  <1>3. s1 = St(s, g, c, status.window_low_daa, status.total_txs, status.chain_blocks,
                status.resolve_misses, status.staged_blocks)
    BY <1>2 DEF St
  <1> HIDE DEF s1
  <1>4. s2 = St(s, g, c, w, status.total_txs, status.chain_blocks,
                status.resolve_misses, status.staged_blocks)
    BY <1>3 DEF St
  <1> HIDE DEF s2
  <1>5. s3 = St(s, g, c, w, t, status.chain_blocks, status.resolve_misses,
                status.staged_blocks)
    BY <1>4 DEF St
  <1> HIDE DEF s3
  <1>6. s4 = St(s, g, c, w, t, b, status.resolve_misses, status.staged_blocks)
    BY <1>5 DEF St
  <1> HIDE DEF s4
  <1>7. s5 = St(s, g, c, w, t, b, misses, status.staged_blocks) BY <1>6 DEF St
  <1> HIDE DEF s5
  <1>8. s6 = St(s, g, c, w, t, b, misses, 0) BY <1>7 DEF St
  <1> HIDE DEF s6
  <1> QED BY <1>1, <1>8 DEF s, g, c, w, t, b

\* Of a status, what the tables and the count of misses decide.
Matches(s, d, c) ==
  /\ s.checkpoint_daa = checkpoint_daa(d)
  /\ s.window_low_daa = window_low_daa(d)
  /\ s.total_txs = d.total_txs
  /\ s.chain_blocks = chain_blocks(d)
  /\ s.resolve_misses = c.total_misses

\* s differs from t at most in the state, the generation and staged_blocks.
SameCounts(s, t) ==
  /\ s.checkpoint_daa = t.checkpoint_daa
  /\ s.window_low_daa = t.window_low_daa
  /\ s.total_txs = t.total_txs
  /\ s.chain_blocks = t.chain_blocks
  /\ s.resolve_misses = t.resolve_misses

\* Setting the state, the generation or staged_blocks leaves the rest.
LEMMA SetFacts ==
  ASSUME NEW s, NEW x, IsStatus(s)
  PROVE  /\ LET t == [s EXCEPT !.state = x]
            IN /\ IsStatus(t) /\ t.state = x /\ t.generation = s.generation
               /\ SameCounts(t, s)
         /\ LET t == [s EXCEPT !.generation = x]
            IN /\ IsStatus(t) /\ t.state = s.state /\ t.generation = x
               /\ SameCounts(t, s)
         /\ LET t == [s EXCEPT !.staged_blocks = x]
            IN /\ IsStatus(t) /\ t.state = s.state /\ t.generation = s.generation
               /\ SameCounts(t, s)
  <1> DEFINE c == s.checkpoint_daa
             w == s.window_low_daa
             u == s.total_txs
             b == s.chain_blocks
             r == s.resolve_misses
             n == s.staged_blocks
             g == s.generation
             e == s.state
  <1>1. s = St(e, g, c, w, u, b, r, n) BY DEF IsStatus
  <1> HIDE DEF c, w, u, b, r, n, g, e
  <1>2. /\ [s EXCEPT !.state = x] = St(x, g, c, w, u, b, r, n)
        /\ [s EXCEPT !.generation = x] = St(e, x, c, w, u, b, r, n)
        /\ [s EXCEPT !.staged_blocks = x] = St(e, g, c, w, u, b, r, x)
    BY <1>1 DEF St
  <1>3. LET t == St(x, g, c, w, u, b, r, n)
        IN IsStatus(t) /\ t.state = x /\ t.generation = g /\ SameCounts(t, s)
    BY StReads DEF SameCounts, c, w, u, b, r, n, g, e
  <1>4. LET t == St(e, x, c, w, u, b, r, n)
        IN IsStatus(t) /\ t.state = e /\ t.generation = x /\ SameCounts(t, s)
    BY StReads DEF SameCounts, c, w, u, b, r, n, g, e
  <1>5. LET t == St(e, g, c, w, u, b, r, x)
        IN IsStatus(t) /\ t.state = e /\ t.generation = g /\ SameCounts(t, s)
    BY StReads DEF SameCounts, c, w, u, b, r, n, g, e
  <1> QED BY <1>2, <1>3, <1>4, <1>5 DEF g, e

\* A refreshed status shows the tables and keeps the state and the generation.
LEMMA RefreshedMatches ==
  ASSUME NEW d, NEW c, IsStatus(status)
  PROVE  LET t == Refreshed(d, c.total_misses)
         IN /\ IsStatus(t) /\ t.state = status.state
            /\ t.generation = status.generation /\ Matches(t, d, c)
  <1> DEFINE t == Refreshed(d, c.total_misses)
             m == c.total_misses
             k == checkpoint_daa(d)
             w == window_low_daa(d)
             b == chain_blocks(d)
  <1>1. t = St(status.state, status.generation, k, w, d.total_txs, b, m, 0)
    BY RefreshedFacts
  <1> HIDE DEF t, m, k, w, b
  <1>2. /\ IsStatus(t) /\ t.state = status.state /\ t.generation = status.generation
        /\ t.checkpoint_daa = k /\ t.window_low_daa = w
        /\ t.total_txs = d.total_txs /\ t.chain_blocks = b /\ t.resolve_misses = m
    BY <1>1, StReads
  <1> QED BY <1>2 DEF Matches, t, m, k, w, b

\* The end of a handler sets at most the state.
LEMMA FinishFacts ==
  ASSUME NEW s, IsStatus(s), Finish(s)
  PROVE  /\ pc' = "recv" /\ job' = NoJob
         /\ IsStatus(status') /\ status'.generation = s.generation
         /\ SameCounts(status', s)
         /\ \/ status'.state = s.state
            \/ status'.state = "live" /\ job.from # Nil
  <1>1. CASE job.from = Nil
    BY <1>1 DEF Finish, Idle, SameCounts
  <1>2. CASE job.from # Nil
    <2>1. pc' = "recv" /\ job' = NoJob /\ status' = [s EXCEPT !.state = "live"]
      BY <1>2 DEF Finish, Idle
    <2> QED BY Zenon, <1>2, <2>1, SetFacts
  <1> QED BY <1>1, <1>2

\* What a step of the task does to the status, by the handler it is in.
StatusEffect ==
  /\ IsStatus(status')
  /\ \/ status' = status
     \/ /\ pc = "recv" /\ Head(notifs).kind = "connected" /\ notifs # <<>>
        /\ status'.generation = Head(notifs).generation
        /\ status'.state = "connecting" /\ SameCounts(status', status)
     \/ /\ pc = "notify_virtual_chain_changed" /\ pc' = "backfill"
        /\ status'.generation = status.generation
        /\ status'.state = "backfilling" /\ SameCounts(status', status)
     \/ /\ pc \in {"sink", "virtual_chain"} \/ job.from # Nil
        /\ status'.generation = status.generation
        /\ status'.state = "live"
     \/ /\ status'.generation = status.generation
        /\ status'.state = status.state

\* No step of the task does anything else to the status.
LEMMA TaskStatus ==
  ASSUME FollowInv, Task
  PROVE  StatusEffect
  <1>1. IsStatus(status) BY DEF FollowInv, StatusInv
  <1>2. CASE \/ OpenStore \/ SubscribeBlocks \/ BackfillStart \/ GetSink
             \/ GetVirtualChain \/ GetBlocks \/ RecvChainChanged \/ UnwindNext
             \/ Unwound \/ ApplyStep
    <2>1. status' = status
      BY <1>2 DEF OpenStore, SubscribeBlocks, BackfillStart, GetSink, GetVirtualChain,
         GetBlocks, RecvChainChanged, UnwindNext, Unwound, ApplyStep, taskVars
    <2> QED BY <1>1, <2>1 DEF StatusEffect
  <1>3. CASE RecvConnected
    <2> DEFINE t == [status EXCEPT !.state = "connecting"]
    <2>1. /\ pc = "recv" /\ Head(notifs).kind = "connected" /\ notifs # <<>>
          /\ status' = [t EXCEPT !.generation = Head(notifs).generation]
      BY <1>3 DEF RecvConnected, InState
    <2>2. IsStatus(t) /\ t.state = "connecting" /\ SameCounts(t, status)
      BY Zenon, <1>1, SetFacts
    <2> HIDE DEF t
    <2>3. /\ IsStatus(status') /\ status'.state = t.state
          /\ status'.generation = Head(notifs).generation /\ SameCounts(status', t)
      BY Zenon, <2>1, <2>2, SetFacts
    <2> QED BY <2>1, <2>2, <2>3 DEF StatusEffect, SameCounts
  <1>4. CASE SubscribeChain
    <2>1. CASE pc' = "backfill"
      <3>1. /\ pc = "notify_virtual_chain_changed"
            /\ status' = [status EXCEPT !.state = "backfilling"]
        BY <1>4, <2>1 DEF SubscribeChain, Subscribe, InState
      <3> QED BY Zenon, <1>1, <2>1, <3>1, SetFacts DEF StatusEffect
    <2>2. CASE pc' # "backfill"
      <3>1. status' = status BY <1>4, <2>2 DEF SubscribeChain
      <3> QED BY <1>1, <3>1 DEF StatusEffect
    <2> QED BY <2>1, <2>2
  <1>5. CASE RpcError
    <2>1. CASE status' = status BY <1>1, <2>1 DEF StatusEffect
    <2>2. CASE pc \in {"sink", "virtual_chain"} /\ status' = InState("live")
      <3>1. status' = [status EXCEPT !.state = "live"] BY <2>2 DEF InState
      <3>2. /\ IsStatus(status') /\ status'.generation = status.generation
            /\ status'.state = "live"
        BY Zenon, <1>1, <3>1, SetFacts
      <3> QED BY <2>2, <3>2 DEF StatusEffect
    <2> QED BY <1>5, <2>1, <2>2, CallFailsCases DEF RpcError, Idle
  <1>6. CASE RecvBlockAdded
    <2>1. status' = [status EXCEPT !.staged_blocks = Len(staging'.blocks)]
      BY <1>6 DEF RecvBlockAdded
    <2> QED BY Zenon, <1>1, <2>1, SetFacts DEF StatusEffect
  <1>7. ASSUME NEW s, Finish(s), IsStatus(s), s.state = status.state,
               s.generation = status.generation
        PROVE  StatusEffect
    BY <1>7, FinishFacts DEF StatusEffect
  <1>8. CASE BuildGroups BY <1>1, <1>7, <1>8 DEF BuildGroups, StatusEffect
  <1>9. CASE ApplyFails BY <1>1, <1>7, <1>9 DEF ApplyFails
  <1>10. CASE ApplyDone
    <2>1. CASE status' = status BY <1>1, <2>1 DEF StatusEffect
    <2>2. CASE Finish(Refreshed(db', ctx'.total_misses))
      BY <1>1, <1>7, <2>2, RefreshedMatches
    <2> QED BY <1>10, <2>1, <2>2 DEF ApplyDone
  <1>11. CASE Sweep
    BY <1>1, <1>7, <1>11, RefreshedMatches DEF Sweep
  <1> QED
    BY <1>2, <1>3, <1>4, <1>5, <1>6, <1>8, <1>9, <1>10, <1>11 DEF Task

\* What the environment does to the status: a broken stream fails a call, a
\* process that starts again has the first status.
LEMMA EnvironmentStatus ==
  ASSUME FollowInv, Environment
  PROVE  /\ IsStatus(status')
         /\ \/ status' = status
            \/ Disconnect /\ SameCounts(status', status)
                 /\ status'.generation = status.generation
                 /\ status'.state = "live"
            \/ Crash /\ status' = NoStatus
  <1>1. IsStatus(status) BY DEF FollowInv, StatusInv
  <1>2. CASE (\E h \in Hash \ {Genesis} : Mine(h)) \/ Connect
    BY <1>1, <1>2 DEF Mine, Connect, taskVars
  <1>3. CASE Disconnect
    <2>1. CASE UNCHANGED taskVars BY <1>1, <2>1 DEF taskVars
    <2>2. CASE CallFails
      <3>1. status' = status \/ status' = [status EXCEPT !.state = "live"]
        BY <2>2, CallFailsCases DEF Idle, InState
      <3>2. CASE status' = [status EXCEPT !.state = "live"]
        <4>1. /\ IsStatus(status') /\ status'.generation = status.generation
              /\ status'.state = "live" /\ SameCounts(status', status)
          BY Zenon, <1>1, <3>2, SetFacts
        <4> QED BY <1>3, <4>1
      <3> QED BY <1>1, <3>1, <3>2
    <2> QED BY Zenon, <1>3, <2>1, <2>2 DEF Disconnect
  <1>4. CASE Crash
    <2>1. status' = NoStatus BY <1>4 DEF Crash
    <2>2. IsStatus(NoStatus) BY DEF IsStatus, NoStatus, St
    <2> QED BY <1>4, <2>1, <2>2
  <1> QED BY <1>2, <1>3, <1>4 DEF Environment

\* The status keeps its shape and never runs ahead of the connections made.
LEMMA StatusStep ==
  ASSUME FollowInv, [Next]_vars
  PROVE  StatusInv'
  <1>1. /\ IsStatus(status) /\ status.generation \in Nat
        /\ status.generation <= generation
        /\ status.state \in {"connecting", "backfilling", "live"}
        /\ ctx = [last_expire_daa |-> ctx.last_expire_daa, total_misses |-> ctx.total_misses]
        /\ generation \in Nat
    BY DEF FollowInv, StatusInv, NodeInv
  <1>2. ctx' = [last_expire_daa |-> ctx'.last_expire_daa, total_misses |-> ctx'.total_misses]
    <2>1. CASE ctx' = ctx BY <1>1, <2>1
    <2>2. CASE \E x : ctx' = [ctx EXCEPT !.total_misses = x] BY <1>1, <2>2
    <2>3. CASE \E x : ctx' = [ctx EXCEPT !.last_expire_daa = x] BY <1>1, <2>3
    <2>4. CASE Crash BY <2>4 DEF Crash
    <2>5. CASE UNCHANGED vars BY <2>1, <2>5 DEF vars, taskVars
    <2>6. CASE Environment
      BY <2>1, <2>4, <2>6, CallFailsCases DEF Environment, Mine, Connect, Disconnect, taskVars
    <2>7. CASE Task
      <3>1. CASE ApplyDone BY Zenon, <2>2, <3>1 DEF ApplyDone
      <3>2. CASE Sweep BY Zenon, <2>3, <3>2 DEF Sweep
      <3>3. CASE RpcError BY <2>1, <3>3, CallFailsCases DEF RpcError
      <3>4. CASE \/ RecvConnected \/ OpenStore \/ SubscribeBlocks \/ SubscribeChain
                 \/ BackfillStart \/ GetSink \/ GetVirtualChain \/ GetBlocks
                 \/ RecvBlockAdded \/ RecvChainChanged \/ UnwindNext \/ Unwound
                 \/ BuildGroups \/ ApplyStep \/ ApplyFails
        <4>1. ctx' = ctx
          BY <3>4 DEF RecvConnected, OpenStore, SubscribeBlocks, SubscribeChain,
             Subscribe, BackfillStart, GetSink, GetVirtualChain, GetBlocks,
             RecvBlockAdded, RecvChainChanged, UnwindNext, Unwound, BuildGroups,
             ApplyStep, ApplyFails, taskVars
        <4> QED BY <2>1, <4>1
      <3> QED BY <2>7, <3>1, <3>2, <3>3, <3>4 DEF Task
    <2> QED BY <2>5, <2>6, <2>7 DEF Next
  <1>3. CASE UNCHANGED vars
    BY <1>1, <1>2, <1>3 DEF vars, taskVars, nodeVars, StatusInv
  <1>4. CASE Environment
    <2>1. CASE Crash
      <3>1. status' = NoStatus /\ generation' = 0 /\ IsStatus(status')
        BY <2>1, <1>4, EnvironmentStatus DEF Crash, NoStatus
      <3> QED BY <1>2, <3>1 DEF StatusInv, NoStatus
    <2>2. CASE ~Crash
      <3>1. generation' = generation \/ generation' = generation + 1
        BY <1>4, <2>2 DEF Environment, Mine, Connect, Disconnect
      <3>2. /\ IsStatus(status') /\ status'.generation = status.generation
            /\ status'.state = status.state \/ status'.state = "live"
        BY <1>4, <2>2, EnvironmentStatus
      <3>3. status'.generation <= generation' BY <1>1, <3>1, <3>2
      <3> QED BY <1>1, <1>2, <3>2, <3>3 DEF StatusInv
    <2> QED BY <2>1, <2>2
  <1>5. CASE Task
    <2>1. generation' = generation
      BY <1>5 DEF Task, RecvConnected, OpenStore, SubscribeBlocks, SubscribeChain,
         Subscribe, BackfillStart, GetSink, GetVirtualChain, GetBlocks, RpcError,
         RecvBlockAdded, RecvChainChanged, UnwindNext, Unwound, BuildGroups,
         ApplyStep, ApplyFails, ApplyDone, Sweep, nodeVars
    <2>2. StatusEffect BY <1>5, TaskStatus
    <2>3. CASE pc = "recv" /\ Head(notifs).kind = "connected" /\ notifs # <<>>
               /\ status'.generation = Head(notifs).generation
               /\ status'.state = "connecting"
      <3>1. 1 \in DOMAIN notifs /\ Head(notifs) = notifs[1]
        BY <2>3, TailFacts DEF FollowInv, ChannelInv
      <3>2. MessageOK(Head(notifs), known, generation) BY <3>1 DEF FollowInv, ChannelInv
      <3>3. status'.generation \in Nat /\ status'.generation <= generation
        BY <2>3, <3>2 DEF MessageOK
      <3> QED BY <1>2, <2>1, <2>2, <2>3, <3>3 DEF StatusInv, StatusEffect
    <2>4. CASE /\ status'.generation = status.generation
               /\ status'.state \in {status.state, "backfilling", "live"}
      BY <1>1, <1>2, <2>1, <2>2, <2>4 DEF StatusInv, StatusEffect
    <2> QED BY <2>2, <2>3, <2>4 DEF StatusEffect
  <1> QED BY <1>3, <1>4, <1>5 DEF Next

\* A write transaction is open only inside apply_groups.
LEMMA OpenStep ==
  ASSUME FollowInv, [Next]_vars
  PROVE  (wtx # Nil => pc = "apply")'
  <1>1. wtx # Nil => pc = "apply" BY DEF FollowInv
  <1>2. CASE UNCHANGED vars BY <1>1, <1>2 DEF vars, taskVars, storeVars
  <1>3. CASE Environment
    BY <1>1, <1>3 DEF Environment, Mine, Connect, Disconnect, Crash, AbortApply,
       taskVars, storeVars
  <1>4. CASE \/ RecvConnected \/ OpenStore \/ SubscribeBlocks \/ SubscribeChain
             \/ BackfillStart \/ GetSink \/ GetVirtualChain \/ GetBlocks \/ RpcError
             \/ RecvBlockAdded \/ RecvChainChanged \/ Unwound
    <2>1. wtx' = wtx /\ pc # "apply"
      BY Zenon, <1>4 DEF RecvConnected, OpenStore, SubscribeBlocks, SubscribeChain, Subscribe,
         BackfillStart, GetSink, GetVirtualChain, GetBlocks, RpcError, CallFails, Calling,
         RecvBlockAdded, RecvChainChanged, Unwound, storeVars
    <2> QED BY <1>1, <2>1
  <1>5. CASE UnwindNext
    BY <1>1, <1>5 DEF UnwindNext, Unwind, storeVars
  <1>6. CASE BuildGroups
    BY <1>1, <1>6 DEF BuildGroups, storeVars
  <1>7. CASE ApplyStep BY <1>7 DEF ApplyStep, taskVars
  <1>8. CASE ApplyFails BY <1>8 DEF ApplyFails, AbortApply
  <1>9. CASE ApplyDone BY <1>9 DEF ApplyDone, CommitApply
  <1>10. CASE Sweep BY <1>1, <1>10 DEF Sweep, Expire, storeVars
  <1> QED
    BY <1>2, <1>3, <1>4, <1>5, <1>6, <1>7, <1>8, <1>9, <1>10 DEF Next, Task

\* The follower starts in its invariant.
LEMMA InitFollow ==
  ASSUME Init
  PROVE  FollowInv
  <1>1. /\ known = {Genesis} /\ tip = Genesis /\ conn = FALSE /\ generation = 0
        /\ sub = {} /\ notifs = <<>> /\ pc = "recv" /\ status = NoStatus /\ job = NoJob
        /\ ctx = [last_expire_daa |-> 0, total_misses |-> 0]
        /\ StoreInit /\ wtx = Nil
    BY DEF Init, StoreInit
  <1>2. StoreInv BY <1>1, InitStoreInv
  <1>3. NodeInv
    <2>1. Genesis \in Hash BY IndexerAssumption
    <2>2. OnChain(Genesis) = {Genesis} BY <2>1, ChainFacts
    <2> QED BY Zenon, <1>1, <2>1, <2>2 DEF NodeInv
  <1>4. ChannelInv
    <2>1. NOTIF_QUEUE \in Nat BY IndexerAssumption
    <2>2. <<>> \in Seq(Message) /\ Len(<<>>) = 0 /\ DOMAIN <<>> = {} OBVIOUS
    <2> QED BY <1>1, <2>1, <2>2 DEF ChannelInv
  <1>5. JobInv
    <2>1. <<>> \in Seq(Hash) /\ Range(<<>>) = {} /\ 0 \in Nat BY DEF Range
    <2> QED BY <1>1, <2>1, NoJobFacts DEF JobInv, Before
  <1>6. StatusInv
    <2>1. IsStatus(NoStatus) BY DEF IsStatus, NoStatus, St
    <2>2. NoStatus.generation = 0 /\ NoStatus.state = "connecting" BY DEF NoStatus
    <2> QED BY <1>1, <2>1, <2>2 DEF StatusInv
  <1> QED BY <1>1, <1>2, <1>3, <1>4, <1>5, <1>6 DEF FollowInv

\* The invariant is inductive.
LEMMA NextFollow ==
  ASSUME FollowInv, [Next]_vars
  PROVE  FollowInv'
  <1>1. StoreInv'
    <2>1. [StoreNext]_storeVars BY StepIsStoreStep
    <2> QED BY <2>1, NextStoreInv DEF FollowInv
  <1> QED
    BY <1>1, OpenStep, NodeStep, ChannelStep, JobStep, StatusStep DEF FollowInv

\* Whatever the node, the stream, the store and the process do, the channel, the
\* job and the status keep their invariant.
THEOREM FollowInvariance == Spec => []FollowInv
  <1>1. Init => FollowInv BY InitFollow
  <1>2. FollowInv /\ [Next]_vars => FollowInv' BY NextFollow
  <1> QED BY <1>1, <1>2, PTL DEF Spec

\* The follower uses the store as StoreSpec allows, so what is proved of the
\* store holds of its tables while it follows the node.
THEOREM IndexerKeepsStore == Spec => StoreSpec
  <1>1. Init => StoreInit BY DEF Init
  <1>2. FollowInv /\ [Next]_vars => [StoreNext]_storeVars BY StepIsStoreStep
  <1> QED BY <1>1, <1>2, FollowInvariance, PTL DEF Spec, StoreSpec

=============================================================================
