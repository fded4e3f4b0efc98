------------------------ MODULE PipelineOrderProofs ------------------------
(***************************************************************************)
(* Proofs about the order and the completeness of what Pipeline stores and *)
(* hands to the extra publishers, and that it implements RunContract.      *)
(*                                                                         *)
(* The argument goes from queue to queue.  hand[s] is the last item stage  *)
(* s has taken, so it is a cursor: each queue holds, in feed order,        *)
(* exactly the records between the cursor of its consumer and that of its  *)
(* producer.  A stage that fails leaves its queue as it is, and the        *)
(* records it loses are all behind those it has passed on.                 *)
(***************************************************************************)
EXTENDS PipelineProofs

\* What normalize passes on.
Passing == {r \in Records : Kind[r] \in {"good", "rejected"}}

Increasing(q) == \A i, j \in 1..Len(q) : i < j => q[i] < q[j]

\* Records in feed order, and nothing behind the sentinel.
Ordered(q) ==
    \A i, j \in 1..Len(q) : i < j => q[i] # EOS /\ (q[j] # EOS => q[i] < q[j])

\* The members of W behind lo and up to hi.
Between(W, lo, hi) == {r \in W : lo < r /\ r <= hi}

UpTo(W, m) == {r \in W : r <= m}

\* The queue q holds what its consumer, who is at lo, has still to take of
\* the records of W that its producer has passed on, which are those up to hi.
Link(q, W, lo, hi) ==
    /\ lo <= hi
    /\ Ordered(q)
    /\ \A i \in 1..Len(q) : q[i] <= hi
    /\ Range(q) \cap W = Between(W, lo, hi)

\* The link behind a producer that is at location loc with item top: until
\* it raises, it has passed on all up to top, or up to the one before when
\* top is still in its hand.
Fed(q, W, lo, top, loc, exc) ==
    \E hi \in Nat :
       /\ Link(q, W, lo, hi)
       /\ exc = "none" => hi = IF loc \in {"work", "put"} THEN top - 1 ELSE top

\* persist: the rows are the wanted records up to m; the batch continues
\* them up to lo, or is what is left to forward of them.
Line(dq, top, loc, exc, d, b, ploc, pexc, pq, h) ==
    \E m, hi \in Nat :
       /\ Increasing(d) /\ Range(d) = UpTo(Wanted, m)
       /\ hi <= m
       /\ Link(pq, Wanted, h, hi)
       /\ pexc = "none" =>
             \E lo \in Nat :
                /\ m <= lo
                /\ Increasing(b)
                /\ IF ploc \in {"get", "commit"}
                   THEN Between(Wanted, hi, m) = {} /\ Range(b) = Between(Wanted, m, lo)
                   ELSE lo = m /\ Range(b) = Between(Wanted, hi, m)
                /\ Fed(dq, Wanted, lo, top, loc, exc)

FetchLink == Fed(queue["fetch"], 1..NumPayloads, hand["parse"], hand["fetch"],
                 pc["fetch"], raised["fetch"])
ParseLink == Fed(queue["parse"], Passing, hand["normalize"], emitted,
                 pc["parse"], raised["parse"])
NormalizeLink == Fed(queue["normalize"], Passing, hand["enrich"], hand["normalize"],
                     pc["normalize"], raised["normalize"])
EnrichLink == Fed(queue["enrich"], Wanted, hand["dedup"], hand["enrich"],
                  pc["enrich"], raised["enrich"])
PersistLine == Line(queue["dedup"], hand["dedup"], pc["dedup"], raised["dedup"],
                    db, batch, pc["persist"], raised["persist"],
                    queue["persist"], hand["publish"])

FlowInv == FetchLink /\ ParseLink /\ NormalizeLink /\ EnrichLink /\ PersistLine

\* Only records of the right kind get past normalize and the enrichers.
KindInv ==
    /\ Range(queue["normalize"]) \subseteq Passing \cup {EOS}
    /\ Range(queue["enrich"]) \subseteq Wanted \cup {EOS}
    /\ Range(queue["dedup"]) \subseteq Wanted \cup {EOS}
    /\ pc["fetch"] = "put" => hand["fetch"] # EOS
    /\ pc["normalize"] = "put" => hand["normalize"] \in Passing
    /\ pc["enrich"] = "work" => hand["enrich"] \in Passing
    /\ pc["enrich"] = "put" => hand["enrich"] \in Wanted
    /\ pc["dedup"] = "put" => hand["dedup"] \in Wanted

\* The sentinel is the last thing a stage puts.
SentinelInv == \A s \in Producers : EOS \in Range(queue[s]) => pc[s] = "done"

\* Nothing is left to come from a stage.
Drained(u) == pc[u] = "done" /\ queue[u] = <<>>

\* A stage that ends normally has seen all there was to see.
EndsInv ==
    /\ raised["fetch"] = "none" /\ pc["fetch"] \in {"closing", "done"}
          => hand["fetch"] = NumPayloads
    /\ raised["parse"] = "none" /\ pc["parse"] # "emit" => LastOf[hand["parse"]] <= emitted
    /\ pc["parse"] \in {"get", "emit", "closing", "done"}
    /\ \A s \in {"parse", "normalize", "enrich", "dedup"} :
          raised[s] = "none" /\ pc[s] \in {"closing", "done"} => Drained(Upstream[s])
    /\ "persist" \in ended => Drained("dedup")
    /\ raised["persist"] = "none" /\ pc["persist"] \in {"closing", "done"}
          => "persist" \in ended /\ batch = <<>>
    /\ "publish" \in ended => Drained("persist")

\* The TaskGroup cancels only when it aborts or is cancelled, and aborts only
\* over an error that it will report.
GroupInv ==
    /\ \A s \in Stages : raised[s] # "none" => pc[s] \in {"closing", "done"}
    /\ group = "open" => \A s \in Stages : ~cancel[s] /\ raised[s] # "cancelled"
    /\ group = "aborting" => Errors # {}
    /\ result # "none" => Done = Stages
    /\ result = "SUCCESS" => \A s \in Stages : raised[s] = "none"

\* With publish at location loc and turn t of its loop, and over the stages
\* that got the sentinel, p has still to be offered the record in its hand.
Awaits(p, loc, t, over) ==
    /\ "publish" \notin over
    /\ \E i \in 1..Len(Publishers) :
          /\ Publishers[i] = p
          /\ \/ loc = "offer" /\ t <= i
             \/ loc = "send" /\ t < i

\* The last record publisher p has been offered.
Offered(p, loc, t, over, h) == IF Awaits(p, loc, t, over) THEN h - 1 ELSE h

\* The wanted records up to cut that p is cleared for.
Due(p, cut) == {r \in Wanted : r <= cut /\ Tlp[r] <= MaxTlp[p]}

\* Publisher p, offered the records up to top, has got those it is cleared
\* for up to some record, and the rest is in its batch.
Share(d, b, p, top) ==
    \E cut \in Nat :
       /\ cut <= top
       /\ UNION Range(d) = Due(p, cut)
       /\ Range(b) = Between(Wanted, cut, top)

\* FanOutInOrder for the requests d to one publisher.
InOrder(d, p) ==
    /\ \A i, j \in 1..Len(d) : i < j => \A q \in d[i], r \in d[j] : q < r
    /\ \A r \in UNION Range(d) : Tlp[r] <= MaxTlp[p]

SinkInv ==
    /\ \A p \in Sinks : InOrder(delivered[p], p)
    /\ raised["publish"] = "none" =>
          /\ \A p \in Sinks :
                Share(delivered[p], pending[p], p,
                      Offered(p, pc["publish"], turn, ended, hand["publish"]))
          /\ "publish" \in ended =>
                \A i \in 1..Len(Publishers) : i < turn => pending[Publishers[i]] = <<>>
          /\ pc["publish"] = "done" => "publish" \in ended /\ turn > Len(Publishers)

\* The places at which a stage can be.
Places == [fetch     |-> {"next", "put", "closing", "done"},
           parse     |-> {"get", "emit", "closing", "done"},
           normalize |-> {"get", "put", "closing", "done"},
           enrich    |-> {"get", "work", "put", "closing", "done"},
           dedup     |-> {"get", "put", "closing", "done"},
           persist   |-> {"get", "commit", "forward", "closing", "done"},
           publish   |-> {"get", "offer", "send", "done"}]

PlacesInv ==
    /\ \A s \in Stages : pc[s] \in Places[s]
    /\ \A s \in {"persist", "publish"} : s \in ended => pc[s] # "get"

\* Stage c has got the sentinel, or has no use for it any more.
Heard(c) == IF c \in {"persist", "publish"} THEN c \in ended ELSE pc[c] \in {"closing", "done"}

\* The sentinel of a stage that ended normally is not lost.
HandoverInv ==
    \A c \in Stages \ {"fetch"} :
       raised[Upstream[c]] = "none" /\ pc[Upstream[c]] = "done"
           => EOS \in Range(queue[Upstream[c]]) \/ Heard(c)

\* The guards of the actions of stage s: an item where it waits for one,
\* room where it has to put one, nothing elsewhere.
CanStep(s) ==
    /\ ~cancel[s]
    /\ \/ pc[s] \in {"next", "work", "commit", "offer", "send"}
       \/ pc[s] = "get" /\ Arrived(s)
       \/ pc[s] = "emit" /\ (emitted < LastOf[hand[s]] => Room(s))
       \/ pc[s] \in {"put", "forward", "closing"} /\ Room(s)

\* NeverStalls in terms of these guards.
KeepsMoving ==
    group = "open" /\ result = "none" /\ (\A s \in Stages : raised[s] = "none")
        => Done = Stages \/ \E s \in Stages : CanStep(s)

-----------------------------------------------------------------------------
(* Sequences: what Append, Tail and concatenation do to positions.         *)

LEMMA AppendAt ==
    ASSUME NEW q \in Seq(Nat), NEW x \in Nat
    PROVE  /\ Append(q, x) \in Seq(Nat) /\ Len(q) \in Nat
           /\ Len(Append(q, x)) = Len(q) + 1
           /\ \A i \in 1..Len(q) : Append(q, x)[i] = q[i] /\ q[i] \in Nat
           /\ Append(q, x)[Len(q) + 1] = x
           /\ Range(Append(q, x)) = Range(q) \cup {x}
BY AppendProperties, LenProperties, RangeAppend, ElementOfSeq

LEMMA TailAt ==
    ASSUME NEW q \in Seq(Nat), q # <<>>
    PROVE  /\ Tail(q) \in Seq(Nat) /\ Len(q) \in Nat /\ Len(q) >= 1
           /\ Len(Tail(q)) = Len(q) - 1
           /\ Head(q) = q[1] /\ Head(q) \in Nat
           /\ \A i \in 1..Len(q) : q[i] \in Nat
           /\ \A i \in 1..Len(Tail(q)) : Tail(q)[i] = q[i + 1]
           /\ Range(q) = Range(Tail(q)) \cup {Head(q)}
<1>1. /\ Tail(q) \in Seq(Nat) /\ Len(q) \in Nat /\ Len(q) >= 1
      /\ Len(Tail(q)) = Len(q) - 1
      /\ Head(q) = q[1] /\ Head(q) \in Nat
      /\ \A i \in 1..Len(Tail(q)) : Tail(q)[i] = q[i + 1]
  BY HeadTailProperties, LenProperties, EmptySeq
<1>2. \A i \in 1..Len(q) : q[i] \in Nat
  BY ElementOfSeq
<1>3. Range(q) = {q[i] : i \in 1..Len(q)} /\ Range(Tail(q)) = {Tail(q)[i] : i \in 1..Len(Tail(q))}
  BY <1>1, RangeEquality
<1>4. ASSUME NEW i \in 1..Len(q), i # 1 PROVE i - 1 \in 1..Len(Tail(q)) /\ q[i] = Tail(q)[i - 1]
  BY <1>1, <1>4
<1>5. ASSUME NEW i \in 1..Len(Tail(q)) PROVE i + 1 \in 1..Len(q)
  BY <1>1
<1>6. ASSUME NEW y \in Range(q) PROVE y \in Range(Tail(q)) \cup {Head(q)}
  <2>1. PICK i \in 1..Len(q) : y = q[i]
    BY <1>3
  <2>2. CASE i = 1
    BY <1>1, <2>1, <2>2
  <2>3. CASE i # 1
    <3>1. i - 1 \in 1..Len(Tail(q)) /\ y = Tail(q)[i - 1]
      BY <1>4, <2>1, <2>3
    <3> QED BY <1>3, <3>1
  <2> QED BY <2>2, <2>3
<1>7. Range(Tail(q)) \cup {Head(q)} \subseteq Range(q)
  <2>1. ASSUME NEW y \in Range(Tail(q)) PROVE y \in Range(q)
    <3>1. PICK i \in 1..Len(Tail(q)) : y = Tail(q)[i]
      BY <1>3
    <3>2. i + 1 \in 1..Len(q) /\ y = q[i + 1]
      BY <1>1, <1>5, <3>1
    <3> QED BY <1>3, <3>2
  <2>2. 1 \in 1..Len(q) /\ Head(q) = q[1]
    BY <1>1
  <2> QED BY <1>3, <2>1, <2>2
<1>8. Range(q) = Range(Tail(q)) \cup {Head(q)}
  BY <1>6, <1>7
<1> QED BY <1>1, <1>2, <1>8

LEMMA RangeAt ==
    ASSUME NEW q \in Seq(Nat)
    PROVE  /\ Len(q) \in Nat
           /\ \A i \in 1..Len(q) : q[i] \in Nat /\ q[i] \in Range(q)
           /\ \A x \in Range(q) : \E i \in 1..Len(q) : q[i] = x
           /\ Range(q) \subseteq Nat
<1>1. Range(q) = {q[i] : i \in 1..Len(q)}
  BY RangeEquality
<1> QED BY <1>1, LenProperties, ElementOfSeq

-----------------------------------------------------------------------------
(* Links: what put, close and get do to them.                              *)

\* StageQueue.put of the next record.
LEMMA LinkPut ==
    ASSUME NEW q \in Seq(Nat), NEW W \in SUBSET Nat, NEW lo \in Nat, NEW x \in Nat \ {0},
           Link(q, W, lo, x - 1), EOS \notin Range(q)
    PROVE  Link(Append(q, x), W, lo, x)
<1> DEFINE a == Append(q, x)
<1>1. /\ Len(q) \in Nat /\ Len(a) = Len(q) + 1
      /\ \A i \in 1..Len(q) : a[i] = q[i] /\ q[i] \in Nat
      /\ a[Len(q) + 1] = x
      /\ Range(a) = Range(q) \cup {x}
  BY AppendAt
<1>2. \A i \in 1..Len(q) : q[i] # EOS /\ q[i] <= x - 1
  BY RangeAt DEF Link
<1> HIDE DEF a
<1>3. Ordered(a)
  <2>1. ASSUME NEW i \in 1..Len(a), NEW j \in 1..Len(a), i < j
        PROVE  a[i] # EOS /\ (a[j] # EOS => a[i] < a[j])
    <3>1. i \in 1..Len(q) /\ a[i] = q[i] /\ a[i] # EOS /\ a[i] <= x - 1 /\ a[i] \in Nat
      BY <1>1, <1>2, <2>1
    <3>2. CASE j \in 1..Len(q)
      BY <1>1, <2>1, <3>1, <3>2 DEF Ordered, Link
    <3>3. CASE j = Len(q) + 1
      BY <1>1, <3>1, <3>3
    <3> QED BY <1>1, <3>2, <3>3
  <2> QED BY <2>1 DEF Ordered
<1>4. ASSUME NEW i \in 1..Len(a) PROVE a[i] <= x
  <2>1. CASE i \in 1..Len(q)
    <3>1. a[i] = q[i] /\ q[i] \in Nat /\ q[i] <= x - 1
      BY <1>1, <1>2, <2>1
    <3> QED BY <3>1
  <2>2. CASE i = Len(q) + 1
    BY <1>1, <2>2
  <2> QED BY <1>1, <2>1, <2>2
<1>5. Range(a) \cap W = Between(W, lo, x)
  <2>1. Range(q) \cap W = Between(W, lo, x - 1) /\ lo <= x - 1
    BY DEF Link
  <2>2. ASSUME NEW r \in W PROVE r \in Range(a) <=> r \in Between(W, lo, x)
    BY <1>1, <2>1 DEF Between
  <2> QED BY <2>2 DEF Between
<1>6. lo <= x
  BY DEF Link
<1> QED BY <1>3, <1>4, <1>5, <1>6 DEF Link, a

\* StageQueue.close.
LEMMA LinkClose ==
    ASSUME NEW q \in Seq(Nat), NEW W \in SUBSET Nat, NEW lo \in Nat, NEW hi \in Nat,
           Link(q, W, lo, hi), EOS \notin Range(q), EOS \notin W
    PROVE  Link(Append(q, EOS), W, lo, hi)
<1> DEFINE a == Append(q, EOS)
<1>1. /\ Len(q) \in Nat /\ Len(a) = Len(q) + 1
      /\ \A i \in 1..Len(q) : a[i] = q[i] /\ q[i] \in Nat
      /\ a[Len(q) + 1] = EOS
      /\ Range(a) = Range(q) \cup {EOS}
  BY AppendAt DEF EOS
<1>2. \A i \in 1..Len(q) : q[i] # EOS
  BY RangeAt
<1> HIDE DEF a
<1>3. Ordered(a)
  BY <1>1, <1>2 DEF Ordered, Link
<1>4. \A i \in 1..Len(a) : a[i] <= hi
  BY <1>1 DEF Link, EOS
<1>5. Range(a) \cap W = Range(q) \cap W
  BY <1>1
<1> QED BY <1>3, <1>4, <1>5 DEF Link, a

\* StageQueue.get: an item of W is the next one of W, and the consumer's new
\* position; any other item leaves the consumer where it was.
LEMMA LinkTake ==
    ASSUME NEW q \in Seq(Nat), NEW W \in SUBSET Nat, NEW lo \in Nat, NEW hi \in Nat,
           Link(q, W, lo, hi), q # <<>>, EOS \notin W
    PROVE  /\ Head(q) \in W => lo < Head(q) /\ Link(Tail(q), W, Head(q), hi)
           /\ Head(q) \notin W => Link(Tail(q), W, lo, hi)
           /\ Head(q) = EOS => Tail(q) = <<>>
           /\ Head(q) # EOS => \A r \in W : lo < r => Head(q) <= r
<1> DEFINE t == Tail(q)
           x == Head(q)
<1>1. /\ t \in Seq(Nat) /\ Len(q) \in Nat /\ Len(q) >= 1
      /\ Len(t) = Len(q) - 1
      /\ x = q[1] /\ x \in Nat
      /\ \A i \in 1..Len(q) : q[i] \in Nat
      /\ \A i \in 1..Len(t) : t[i] = q[i + 1]
      /\ Range(q) = Range(t) \cup {x}
  BY TailAt
<1>2. \A y \in Range(t) : \E i \in 1..Len(t) : t[i] = y
  BY <1>1, RangeAt
<1> HIDE DEF t, x
<1>3. /\ Ordered(q) /\ Range(q) \cap W = Between(W, lo, hi) /\ lo <= hi
      /\ \A i \in 1..Len(q) : q[i] <= hi
  BY DEF Link
<1>4. \A i \in 1..Len(t) : i + 1 \in 1..Len(q) /\ 1 \in 1..Len(q) /\ 1 < i + 1
  BY <1>1
<1>5. Ordered(t) /\ \A i \in 1..Len(t) : t[i] <= hi
  <2>1. ASSUME NEW i \in 1..Len(t), NEW j \in 1..Len(t), i < j
        PROVE  t[i] # EOS /\ (t[j] # EOS => t[i] < t[j])
    <3>1. i + 1 < j + 1
      BY <2>1
    <3> QED BY <1>1, <1>3, <1>4, <3>1 DEF Ordered
  <2> QED BY <1>1, <1>3, <1>4, <2>1 DEF Ordered
<1>6. \A i \in 1..Len(t) : x # EOS /\ (t[i] # EOS => x < t[i])
  BY <1>1, <1>3, <1>4 DEF Ordered
<1>7. x <= hi
  BY <1>1, <1>3
<1>8. x = EOS => t = <<>>
  <2>1. x = EOS => Len(t) = 0
    BY <1>1, <1>6
  <2> QED BY <1>1, <2>1, EmptySeq
<1>9. x \in W => lo < x
  BY <1>1, <1>3 DEF Between
<1>10. x # EOS => \A r \in W : lo < r => x <= r
  <2>1. ASSUME NEW r \in W, lo < r, r < x PROVE FALSE
    <3>1. r <= hi
      BY <1>1, <1>7, <2>1
    <3>2. r \in Range(q)
      BY <1>3, <2>1, <3>1 DEF Between
    <3>3. r \in Range(t)
      BY <1>1, <2>1, <3>2
    <3>4. PICK i \in 1..Len(t) : t[i] = r
      BY <1>2, <3>3
    <3>5. r # EOS
      OBVIOUS
    <3> QED BY <1>1, <1>6, <2>1, <3>4, <3>5
  <2> QED BY <1>1, <2>1
<1>11. x \notin W => Link(t, W, lo, hi)
  <2>1. x \notin W => Range(t) \cap W = Range(q) \cap W
    BY <1>1
  <2> QED BY <1>3, <1>5, <2>1 DEF Link
<1>12. x \in W => Link(t, W, x, hi)
  <2> SUFFICES ASSUME x \in W PROVE Link(t, W, x, hi)
    OBVIOUS
  <2>1. ASSUME NEW r \in W PROVE r \in Range(t) <=> x < r /\ r <= hi
    <3>1. ASSUME r \in Range(t) PROVE x < r /\ r <= hi
      <4>1. PICK i \in 1..Len(t) : t[i] = r
        BY <1>2, <3>1
      <4> QED BY <1>5, <1>6, <4>1
    <3>2. ASSUME x < r, r <= hi PROVE r \in Range(t)
      <4>1. lo < r
        BY <1>1, <1>9, <3>2
      <4>2. r \in Between(W, lo, hi)
        BY <3>2, <4>1 DEF Between
      <4>3. r \in Range(q)
        BY <1>3, <4>2
      <4>4. r # x
        BY <1>1, <3>2
      <4> QED BY <1>1, <4>3, <4>4
    <3> QED BY <3>1, <3>2
  <2> QED BY <1>5, <1>7, <2>1 DEF Link, Between
<1> QED BY <1>8, <1>9, <1>10, <1>11, <1>12 DEF t, x

LEMMA BetweenEmpty ==
    ASSUME NEW W, NEW lo, NEW hi
    PROVE  Between(W, lo, hi) = {} <=> \A r \in W : ~(lo < r /\ r <= hi)
BY DEF Between

LEMMA BetweenIs ==
    ASSUME NEW W, NEW lo, NEW hi, NEW r
    PROVE  r \in Between(W, lo, hi) <=> r \in W /\ lo < r /\ r <= hi
BY DEF Between

\* Positions between which W has nothing are the same to a link.
LEMMA LinkUpTo ==
    ASSUME NEW q \in Seq(Nat), NEW W \in SUBSET Nat, NEW lo \in Nat, NEW hi \in Nat,
           NEW top \in Nat, Link(q, W, lo, hi), hi <= top, Between(W, hi, top) = {}
    PROVE  Link(q, W, lo, top)
<1>1. Between(W, lo, top) = Between(W, lo, hi)
  <2>1. lo <= hi
    BY DEF Link
  <2>2. ASSUME NEW r \in W PROVE lo < r /\ r <= top <=> lo < r /\ r <= hi
    <3>1. ~(hi < r /\ r <= top)
      BY DEF Between
    <3> QED BY <2>1, <3>1
  <2> QED BY <2>2 DEF Between
<1>2. \A i \in 1..Len(q) : q[i] <= top
  BY RangeAt DEF Link
<1>3. lo <= top
  BY DEF Link
<1> QED BY <1>1, <1>2, <1>3 DEF Link

-----------------------------------------------------------------------------
(* The link behind a stage, through the steps of that stage.               *)

Busy == {"work", "put"}

\* A stage puts the item in its hand.
LEMMA FedPut ==
    ASSUME NEW q \in Seq(Nat), NEW W \in SUBSET Nat, NEW lo \in Nat, NEW top \in Nat,
           Fed(q, W, lo, top, "put", "none"), EOS \notin Range(q),
           NEW loc, loc \notin Busy
    PROVE  Fed(Append(q, top), W, lo, top, loc, "none")
<1>1. PICK hi \in Nat : Link(q, W, lo, hi) /\ hi = top - 1
  BY DEF Fed
<1>2. top \in Nat \ {0} /\ Link(q, W, lo, top - 1)
  BY <1>1
<1>3. Link(Append(q, top), W, lo, top)
  BY <1>2, LinkPut
<1> QED BY <1>3 DEF Fed, Busy

\* The parser yields one more record.
LEMMA FedEmit ==
    ASSUME NEW q \in Seq(Nat), NEW W \in SUBSET Nat, NEW lo \in Nat, NEW top \in Nat,
           NEW loc, loc \notin Busy, Fed(q, W, lo, top, loc, "none"), EOS \notin Range(q)
    PROVE  Fed(Append(q, top + 1), W, lo, top + 1, loc, "none")
<1>1. Link(q, W, lo, top)
  BY DEF Fed, Busy
<1>2. top + 1 \in Nat \ {0} /\ (top + 1) - 1 = top
  OBVIOUS
<1>3. Link(Append(q, top + 1), W, lo, top + 1)
  BY <1>1, <1>2, LinkPut
<1> QED BY <1>2, <1>3 DEF Fed, Busy

\* A stage closes its queue.
LEMMA FedClose ==
    ASSUME NEW q \in Seq(Nat), NEW W \in SUBSET Nat, NEW lo \in Nat, NEW top \in Nat,
           NEW exc, Fed(q, W, lo, top, "closing", exc), EOS \notin Range(q), EOS \notin W
    PROVE  Fed(Append(q, EOS), W, lo, top, "done", exc)
<1>1. PICK hi \in Nat : Link(q, W, lo, hi) /\ (exc = "none" => hi = top)
  BY DEF Fed
<1>2. Link(Append(q, EOS), W, lo, hi)
  BY <1>1, LinkClose
<1> QED BY <1>1, <1>2 DEF Fed

\* A stage raises or is cancelled, wherever it is.
LEMMA FedRaise ==
    ASSUME NEW q, NEW W, NEW lo, NEW top, NEW loc, NEW exc, Fed(q, W, lo, top, loc, exc),
           NEW top2, NEW loc2, NEW exc2, exc2 # "none"
    PROVE  Fed(q, W, lo, top2, loc2, exc2)
BY DEF Fed

\* A stage goes on without an item in its hand.
LEMMA FedMove ==
    ASSUME NEW q, NEW W, NEW lo, NEW top, NEW loc, NEW exc, Fed(q, W, lo, top, loc, exc),
           loc \notin Busy, NEW loc2, loc2 \notin Busy
    PROVE  Fed(q, W, lo, top, loc2, exc)
BY DEF Fed, Busy

\* A stage takes x, the next item of W.
LEMMA FedNext ==
    ASSUME NEW q \in Seq(Nat), NEW W \in SUBSET Nat, NEW lo \in Nat, NEW top \in Nat,
           NEW loc, loc \notin Busy, Fed(q, W, lo, top, loc, "none"),
           NEW x \in Nat, top < x, \A r \in W : top < r => x <= r,
           NEW loc2, loc2 \in Busy
    PROVE  Fed(q, W, lo, x, loc2, "none")
<1>1. Link(q, W, lo, top)
  BY DEF Fed, Busy
<1>2. x - 1 \in Nat /\ top <= x - 1
  OBVIOUS
<1>3. \A r \in W : ~(top < r /\ r <= x - 1)
  OBVIOUS
<1>4. Between(W, top, x - 1) = {}
  BY <1>3, BetweenEmpty, Zenon
<1>5. Link(q, W, lo, x - 1)
  BY <1>1, <1>2, <1>4, LinkUpTo
<1> QED BY <1>2, <1>5 DEF Fed, Busy

\* A stage drops the item in its hand, which W does not want.
LEMMA FedDrop ==
    ASSUME NEW q \in Seq(Nat), NEW W \in SUBSET Nat, NEW lo \in Nat, NEW top \in Nat,
           Fed(q, W, lo, top, "work", "none"), top \notin W
    PROVE  Fed(q, W, lo, top, "get", "none")
<1>1. PICK hi \in Nat : Link(q, W, lo, hi) /\ hi = top - 1
  BY DEF Fed
<1>2. hi <= top
  BY <1>1
<1>3. \A r \in W : ~(hi < r /\ r <= top)
  BY <1>1
<1>4. Between(W, hi, top) = {}
  BY <1>3, BetweenEmpty, Zenon
<1>5. Link(q, W, lo, top)
  BY <1>1, <1>2, <1>4, LinkUpTo
<1> QED BY <1>5 DEF Fed

\* The consumer takes an item.
LEMMA FedTake ==
    ASSUME NEW q \in Seq(Nat), NEW W \in SUBSET Nat, NEW lo \in Nat, NEW top,
           NEW loc, NEW exc, Fed(q, W, lo, top, loc, exc), q # <<>>, EOS \notin W
    PROVE  /\ Head(q) \in W => lo < Head(q) /\ Fed(Tail(q), W, Head(q), top, loc, exc)
           /\ Head(q) \notin W => Fed(Tail(q), W, lo, top, loc, exc)
           /\ Head(q) = EOS => Tail(q) = <<>>
           /\ Head(q) # EOS => \A r \in W : lo < r => Head(q) <= r
<1>1. PICK hi \in Nat :
         /\ Link(q, W, lo, hi)
         /\ exc = "none" => hi = IF loc \in {"work", "put"} THEN top - 1 ELSE top
  BY DEF Fed
<1> QED BY <1>1, LinkTake DEF Fed

-----------------------------------------------------------------------------
(* Which part of the state a task can change.                              *)

\* A step of stage s: its own, or the end of it.
StageStep(s) ==
    \/ s = "fetch" /\ RunFetch
    \/ s = "parse" /\ RunParse
    \/ s = "normalize" /\ RunNormalize
    \/ s = "enrich" /\ RunEnrich
    \/ s = "dedup" /\ RunDedup
    \/ s = "persist" /\ RunPersist
    \/ s = "publish" /\ RunPublish
    \/ Deliver(s)
    \/ s \in DOMAIN PluginCall /\ Fault(s)

\* A step of the TaskGroup, or none.
GroupStep == Abort \/ CancelRun \/ Finish \/ UNCHANGED vars

LEMMA NextSplit == [Next]_vars => GroupStep \/ \E s \in Stages : StageStep(s)
<1> SUFFICES ASSUME [Next]_vars PROVE GroupStep \/ \E s \in Stages : StageStep(s)
  OBVIOUS
<1>1. CASE \E s \in Stages : Deliver(s)
  BY <1>1 DEF StageStep
<1>2. CASE \E s \in DOMAIN PluginCall : Fault(s)
  BY <1>2 DEF StageStep, PluginCall, Stages
<1>3. CASE RunFetch \/ RunParse \/ RunNormalize \/ RunEnrich \/ RunDedup \/ RunPersist
           \/ RunPublish
  BY <1>3 DEF StageStep, Stages
<1> QED BY <1>1, <1>2, <1>3 DEF Next, Step, GroupStep, Terminated

\* A task changes its own variables and the two queues at its ends.
LEMMA StageFrame ==
    ASSUME TypeInv, NEW s \in Stages, StageStep(s)
    PROVE  /\ UNCHANGED <<group, result>>
           /\ \A t \in Stages \ {s} : /\ pc'[t] = pc[t] /\ hand'[t] = hand[t]
                                      /\ raised'[t] = raised[t] /\ cancel'[t] = cancel[t]
           /\ \A u \in Producers : u # s /\ (s = "fetch" \/ u # Upstream[s])
                                      => queue'[u] = queue[u]
           /\ s # "parse" => UNCHANGED emitted
           /\ s # "persist" => UNCHANGED <<db, batch>>
           /\ s # "publish" => UNCHANGED <<pending, turn, delivered>>
           /\ s # "persist" => ("persist" \in ended' <=> "persist" \in ended)
           /\ s # "publish" => ("publish" \in ended' <=> "publish" \in ended)
<1>0. /\ pc \in [Stages -> Locations] /\ hand \in [Stages -> Nat]
      /\ DOMAIN raised = Stages /\ raised = [t \in Stages |-> raised[t]]
      /\ cancel \in [Stages -> BOOLEAN] /\ DOMAIN queue = Producers
  BY DEF TypeInv, TypeOK, TaskOK, HandOK, QueueOK
<1>1. CASE s = "fetch" /\ RunFetch
  BY <1>0, <1>1 DEF RunFetch, FetchNext, FetchPut, Close, Put, GoTo, Stages, Producers
<1>2. CASE s = "parse" /\ RunParse
  BY <1>0, <1>2 DEF RunParse, ParseGet, ParsePut, ParseExhausted, Close, Put, Take, GoTo,
                    Stages, Producers, Upstream
<1>3. CASE s = "normalize" /\ RunNormalize
  BY <1>0, <1>3 DEF RunNormalize, NormalizeGet, Pass, Close, Put, Take, GoTo, Raise,
                    Stages, Producers, Upstream
<1>4. CASE s = "enrich" /\ RunEnrich
  BY <1>0, <1>4 DEF RunEnrich, EnrichGet, EnrichWork, Pass, Close, Put, Take, GoTo,
                    Stages, Producers, Upstream
<1>5. CASE s = "dedup" /\ RunDedup
  BY <1>0, <1>5 DEF RunDedup, DedupGet, Pass, Close, Put, Take, GoTo,
                    Stages, Producers, Upstream
<1>6. CASE s = "persist" /\ RunPersist
  BY <1>0, <1>6 DEF RunPersist, PersistGet, PersistCommit, PersistForward, Close, Put,
                    Take, GoTo, Raise, Stages, Producers, Upstream
<1>7. CASE s = "publish" /\ RunPublish
  BY <1>0, <1>7 DEF RunPublish, PublishGet, PublishOffer, PublishOffered, PublishSend,
                    Take, GoTo, Stages, Producers, Upstream
<1>8. CASE Deliver(s) \/ (s \in DOMAIN PluginCall /\ Fault(s))
  <2>1. UNCHANGED <<queue, hand, emitted, batch, pending, turn, ended, group, result>>
    BY <1>8 DEF Deliver, Fault
  <2>2. \A t \in Stages \ {s} : /\ pc'[t] = pc[t] /\ raised'[t] = raised[t]
                                /\ cancel'[t] = cancel[t]
    BY <1>0, <1>8 DEF Deliver, Fault, Raise, GoTo
  <2>3. (s # "persist" => UNCHANGED db) /\ (s # "publish" => UNCHANGED delivered)
    BY <1>8 DEF Deliver, Fault, SideEffect
  <2> QED BY <2>1, <2>2, <2>3
<1> QED
  BY <1>1, <1>2, <1>3, <1>4, <1>5, <1>6, <1>7, <1>8 DEF StageStep

\* A stage that is done does nothing more.
LEMMA DoneStays ==
    ASSUME TypeInv, NEW s \in Stages, StageStep(s)
    PROVE  pc[s] # "done"
<1>1. CASE s = "fetch" /\ RunFetch
  BY <1>1 DEF RunFetch, FetchNext, FetchPut, Close, At
<1>2. CASE s = "parse" /\ RunParse
  BY <1>2 DEF RunParse, ParseGet, ParsePut, ParseExhausted, Close, At
<1>3. CASE s = "normalize" /\ RunNormalize
  BY <1>3 DEF RunNormalize, NormalizeGet, Pass, Close, At
<1>4. CASE s = "enrich" /\ RunEnrich
  BY <1>4 DEF RunEnrich, EnrichGet, EnrichWork, Pass, Close, At
<1>5. CASE s = "dedup" /\ RunDedup
  BY <1>5 DEF RunDedup, DedupGet, Pass, Close, At
<1>6. CASE s = "persist" /\ RunPersist
  BY <1>6 DEF RunPersist, PersistGet, PersistCommit, PersistForward, Close, At
<1>7. CASE s = "publish" /\ RunPublish
  BY <1>7 DEF RunPublish, PublishGet, PublishOffer, PublishOffered, PublishSend, At
<1>8. CASE Deliver(s) \/ (s \in DOMAIN PluginCall /\ Fault(s))
  BY <1>8 DEF Deliver, Fault, At, PluginCall
<1> QED
  BY <1>1, <1>2, <1>3, <1>4, <1>5, <1>6, <1>7, <1>8 DEF StageStep

\* What an exception, or a cancellation, does to the stage it ends.
LEMMA Unwinds ==
    ASSUME TypeInv, NEW s \in Stages, Deliver(s) \/ (s \in DOMAIN PluginCall /\ Fault(s))
    PROVE  /\ raised'[s] # "none" /\ pc'[s] \in {"closing", "done"} /\ pc[s] # "done"
           /\ UNCHANGED <<queue, hand, emitted, batch, pending, turn, ended, group, result>>
           /\ raised'[s] = "cancelled" => cancel[s]
<1>0. /\ pc \in [Stages -> Locations]
      /\ DOMAIN raised = Stages /\ raised = [t \in Stages |-> raised[t]]
  BY DEF TypeInv, TypeOK, TaskOK
<1>1. CASE Deliver(s)
  BY <1>0, <1>1 DEF Deliver, GoTo, Unwind
<1>2. CASE s \in DOMAIN PluginCall /\ Fault(s)
  <2>1. PICK e \in Faults[s] : Raise(s, e)
    BY <1>2 DEF Fault
  <2>2. e \in ErrorKinds
    BY PluginAssumption
  <2>3. e # "none" /\ e # "cancelled"
    BY <2>2 DEF ErrorKinds
  <2>4. raised'[s] = e /\ pc'[s] \in {"closing", "done"}
    BY <1>0, <2>1 DEF Raise, GoTo, Unwind
  <2>5. pc[s] # "done"
    BY <1>2 DEF Fault, At, PluginCall
  <2> QED BY <1>2, <2>3, <2>4, <2>5 DEF Fault
<1> QED BY <1>1, <1>2

-----------------------------------------------------------------------------
(* The TaskGroup.                                                          *)

\* What a step of its own leaves a stage with.
LEMMA OwnStep ==
    ASSUME TypeInv, NEW s \in Stages, StageStep(s)
    PROVE  /\ raised'[s] # raised[s] => pc'[s] \in {"closing", "done"}
           /\ pc[s] = "closing" => pc'[s] = "done"
           /\ cancel'[s] => cancel[s]
           /\ raised'[s] = "cancelled" => raised[s] = "cancelled" \/ cancel[s]
<1>0. /\ pc \in [Stages -> Locations] /\ cancel \in [Stages -> BOOLEAN]
      /\ DOMAIN raised = Stages /\ raised = [t \in Stages |-> raised[t]]
  BY DEF TypeInv, TypeOK, TaskOK
<1>1. CASE s = "fetch" /\ RunFetch
  BY <1>0, <1>1 DEF RunFetch, FetchNext, FetchPut, Close, GoTo, At
<1>2. CASE s = "parse" /\ RunParse
  BY <1>0, <1>2 DEF RunParse, ParseGet, ParsePut, ParseExhausted, Close, GoTo, At
<1>3. CASE s = "normalize" /\ RunNormalize
  <2>1. ASSUME NEW e \in ErrorKinds, Raise("normalize", e)
        PROVE  raised'[s] # "cancelled" /\ pc'[s] = "closing"
    BY <1>0, <1>3, <2>1 DEF Raise, GoTo, Unwind, ErrorKinds
  <2> QED BY <1>0, <1>3, <2>1 DEF RunNormalize, NormalizeGet, Pass, Close, GoTo, At
<1>4. CASE s = "enrich" /\ RunEnrich
  BY <1>0, <1>4 DEF RunEnrich, EnrichGet, EnrichWork, Pass, Close, GoTo, At
<1>5. CASE s = "dedup" /\ RunDedup
  BY <1>0, <1>5 DEF RunDedup, DedupGet, Pass, Close, GoTo, At
<1>6. CASE s = "persist" /\ RunPersist
  BY <1>0, <1>6 DEF RunPersist, PersistGet, PersistCommit, PersistForward, Close, GoTo,
                    At, Raise, Unwind
<1>7. CASE s = "publish" /\ RunPublish
  BY <1>0, <1>7 DEF RunPublish, PublishGet, PublishOffer, PublishOffered, PublishSend,
                    GoTo, At
<1>8. CASE Deliver(s)
  BY <1>0, <1>8 DEF Deliver, GoTo, Unwind
<1>9. CASE s \in DOMAIN PluginCall /\ Fault(s)
  <2>1. pc[s] # "closing" /\ UNCHANGED cancel
    BY <1>9 DEF Fault, At, PluginCall
  <2> QED BY <1>9, <2>1, Unwinds
<1> QED
  BY <1>1, <1>2, <1>3, <1>4, <1>5, <1>6, <1>7, <1>8, <1>9 DEF StageStep

LEMMA InitGroupInv == Init => GroupInv
BY DEF Init, GroupInv

\* run_with_outcome reports SUCCESS only when no stage raised.
LEMMA FinishGroup ==
    ASSUME TypeInv, GroupInv, Finish
    PROVE  GroupInv'
<1>1. UNCHANGED <<pc, raised, cancel, group>> /\ Done = Stages
  BY DEF Finish
<1>2. ASSUME result' = "SUCCESS", NEW s \in Stages PROVE raised[s] = "none"
  <2>1. Errors \subseteq ErrorKinds
    BY DEF Errors
  <2>2. Errors = {} /\ group # "cancelled"
    BY <1>2, <2>1 DEF Finish, Outcome, ErrorKinds
  <2>3. group = "open"
    BY <2>2 DEF GroupInv, TypeInv, TypeOK, TaskOK
  <2>4. raised[s] \notin ErrorKinds /\ raised[s] # "cancelled"
    BY <1>1, <2>2, <2>3 DEF Errors, GroupInv
  <2> QED BY <2>4 DEF TypeInv, TypeOK, TaskOK
<1>3. Done' = Done /\ Errors' = Errors
  BY <1>1 DEF Done, Errors
<1> QED BY <1>1, <1>2, <1>3 DEF GroupInv

LEMMA StageGroup ==
    ASSUME TypeInv, GroupInv, NEW s \in Stages, StageStep(s)
    PROVE  GroupInv'
<1>0. /\ UNCHANGED <<group, result>> /\ pc[s] # "done"
      /\ \A t \in Stages \ {s} : pc'[t] = pc[t] /\ raised'[t] = raised[t] /\ cancel'[t] = cancel[t]
  BY StageFrame, DoneStays
<1>1. /\ raised'[s] # raised[s] => pc'[s] \in {"closing", "done"}
      /\ pc[s] = "closing" => pc'[s] = "done"
      /\ cancel'[s] => cancel[s]
      /\ raised'[s] = "cancelled" => raised[s] = "cancelled" \/ cancel[s]
  BY OwnStep
<1>2. result = "none"
  BY <1>0 DEF GroupInv, Done
<1>3. \A t \in Stages : raised'[t] # "none" => pc'[t] \in {"closing", "done"}
  BY <1>0, <1>1 DEF GroupInv
<1>4. group = "open" => \A t \in Stages : ~cancel'[t] /\ raised'[t] # "cancelled"
  BY <1>0, <1>1 DEF GroupInv
<1>5. group = "aborting" => Errors' # {}
  <2> SUFFICES ASSUME group = "aborting" PROVE Errors' # {}
    OBVIOUS
  <2>1. PICK t \in Stages : pc[t] = "done" /\ raised[t] \in ErrorKinds
    BY DEF GroupInv, Errors, Done
  <2>2. pc'[t] = "done" /\ raised'[t] = raised[t]
    BY <1>0, <2>1
  <2> QED BY <2>1, <2>2 DEF Errors, Done
<1> QED BY <1>0, <1>2, <1>3, <1>4, <1>5 DEF GroupInv

LEMMA StepGroupInv ==
    ASSUME TypeInv, GroupInv, [Next]_vars
    PROVE  GroupInv'
<1>1. CASE \E s \in Stages : StageStep(s)
  BY <1>1, StageGroup
<1>2. CASE Finish
  BY <1>2, FinishGroup
<1>3. CASE Abort \/ CancelRun \/ UNCHANGED vars
  <2>1. UNCHANGED <<pc, raised, result>>
    BY <1>3 DEF Abort, CancelRun, vars
  <2>2. Done' = Done /\ Errors' = Errors
    BY <2>1 DEF Done, Errors
  <2> QED BY <1>3, <2>1, <2>2 DEF GroupInv, Abort, CancelRun, vars
<1> QED BY <1>1, <1>2, <1>3, NextSplit DEF GroupStep

-----------------------------------------------------------------------------
(* Queues as sequences of numbers, and the moves on them.                  *)

LEMMA QueueType ==
    ASSUME TypeInv, NEW u \in Producers
    PROVE  queue[u] \in Seq(Nat) /\ queue[u] \in Seq(Items(u))
<1>1. queue[u] \in Seq(Items(u)) /\ Items(u) \subseteq Nat
  BY SizeAssumption DEF TypeInv, TypeOK, QueueOK, Items
<1> QED BY <1>1, SeqMonotonic

LEMMA PutMoves ==
    ASSUME TypeInv, NEW u \in Producers, NEW x, Put(u, x)
    PROVE  queue'[u] = Append(queue[u], x)
BY DEF Put, TypeInv, TypeOK, QueueOK

LEMMA TakeMoves ==
    ASSUME TypeInv, NEW s \in Stages \ {"fetch"}, Take(s)
    PROVE  /\ queue[Upstream[s]] # <<>>
           /\ queue'[Upstream[s]] = Tail(queue[Upstream[s]])
           /\ Arrival(s) = Head(queue[Upstream[s]])
           /\ Upstream[s] \in Producers /\ Upstream[s] # s
           /\ (s # "publish" => queue'[s] = queue[s])
<1>1. Upstream[s] \in Producers /\ Upstream[s] # s /\ (s # "publish" => s \in Producers)
  BY DEF Upstream, Producers, Stages
<1> QED BY <1>1 DEF Take, Arrived, Arrival, TypeInv, TypeOK, QueueOK

LEMMA KindsType ==
    /\ Wanted \subseteq Passing /\ Passing \subseteq Records /\ Records \subseteq Nat \ {0}
    /\ EOS \notin Records /\ EOS \notin 1..NumPayloads /\ 1..NumPayloads \subseteq Nat
BY SizeAssumption DEF Wanted, Passing, Records, EOS

LEMMA InitKindInv == Init => KindInv /\ SentinelInv
<1> SUFFICES ASSUME Init PROVE KindInv /\ SentinelInv
  OBVIOUS
<1>1. \A u \in Producers : Range(queue[u]) = {}
  BY RangeEmpty DEF Init
<1>2. SentinelInv
  BY <1>1 DEF SentinelInv
<1>3. \A u \in {"normalize", "enrich", "dedup"} : Range(queue[u]) = {}
  BY <1>1 DEF Producers, Stages
<1>4. \A s \in {"fetch", "normalize", "enrich", "dedup"} : pc[s] \in {"next", "get"}
  BY DEF Init, Stages
<1> QED BY <1>2, <1>3, <1>4 DEF KindInv

\* What a step of a stage does to the queue it fills and to the one it reads.
LEMMA QueueMoves ==
    ASSUME TypeInv, KindInv, NEW s \in Stages, StageStep(s)
    PROVE  /\ s \in Producers =>
                 \/ queue'[s] = queue[s]
                 \/ \E x \in Nat : /\ queue'[s] = Append(queue[s], x)
                                   /\ x # EOS \/ pc'[s] = "done"
           /\ s # "fetch" =>
                 \/ queue'[Upstream[s]] = queue[Upstream[s]]
                 \/ /\ queue[Upstream[s]] # <<>>
                    /\ queue'[Upstream[s]] = Tail(queue[Upstream[s]])
<1>0. /\ pc \in [Stages -> Locations] /\ hand \in [Stages -> Nat] /\ emitted \in Nat
      /\ EOS \in Nat /\ batch \in Seq(Records)
  BY SizeAssumption DEF TypeInv, TypeOK, TaskOK, HandOK, BatchOK, EOS
<1>1. CASE s \in Producers /\ Close(s)
  <2>1. queue'[s] = Append(queue[s], EOS) /\ pc'[s] = "done"
    BY <1>0, <1>1, PutMoves DEF Close, GoTo
  <2>2. s # "fetch" => queue'[Upstream[s]] = queue[Upstream[s]]
    BY <1>1 DEF Close, Put, Upstream, TypeInv, TypeOK, QueueOK, Producers, Stages
  <2> QED BY <1>0, <2>1, <2>2
<1>2. CASE s \in {"normalize", "enrich", "dedup"} /\ Pass(s)
  <2>1. s \in Producers /\ queue'[s] = Append(queue[s], hand[s])
    BY <1>2, PutMoves DEF Pass, Producers, Stages
  <2>2. hand[s] \in Records
    BY <1>2, KindsType DEF Pass, At, KindInv
  <2>3. queue'[Upstream[s]] = queue[Upstream[s]]
    BY <1>2 DEF Pass, Put, Upstream, TypeInv, TypeOK, QueueOK, Producers, Stages
  <2> QED BY <1>0, <2>1, <2>2, <2>3, KindsType
<1>3. CASE s \in Stages \ {"fetch"} /\ Take(s)
  <2>1. s \in Producers => s # "publish"
    BY DEF Producers
  <2> QED BY <1>3, <2>1, TakeMoves
<1>4. CASE UNCHANGED queue
  BY <1>4
<1>5. CASE s = "fetch" /\ FetchPut
  <2>1. queue'[s] = Append(queue[s], hand[s]) /\ hand[s] # EOS
    BY <1>5, PutMoves DEF FetchPut, At, KindInv, Producers, Stages
  <2> QED BY <1>0, <1>5, <2>1
<1>6. CASE s = "parse" /\ ParsePut
  <2>1. queue'[s] = Append(queue[s], emitted + 1)
    BY <1>6, PutMoves DEF ParsePut, Producers, Stages
  <2>2. emitted + 1 \in Nat /\ emitted + 1 # EOS
    BY <1>0 DEF EOS
  <2>3. queue'[Upstream[s]] = queue[Upstream[s]]
    BY <1>6 DEF ParsePut, Put, Upstream, TypeInv, TypeOK, QueueOK, Producers, Stages
  <2> QED BY <2>1, <2>2, <2>3
<1>7. CASE s = "persist" /\ PersistForward
  <2>1. queue'[s] = Append(queue[s], Head(batch))
    BY <1>7, PutMoves DEF PersistForward, Producers, Stages
  <2>2. batch # <<>>
    BY <1>7 DEF PersistForward, At, TypeInv, LocationInv
  <2>3. Head(batch) \in Records
    BY <1>0, <2>2, HeadTailProperties
  <2>4. queue'[Upstream[s]] = queue[Upstream[s]]
    BY <1>7 DEF PersistForward, Put, Upstream, TypeInv, TypeOK, QueueOK, Producers, Stages
  <2> QED BY <2>1, <2>3, <2>4, KindsType
<1>8. CASE s = "fetch" /\ RunFetch
  BY <1>1, <1>4, <1>5, <1>8 DEF RunFetch, FetchNext, Producers, Stages
<1>9. CASE s = "parse" /\ RunParse
  BY <1>1, <1>3, <1>4, <1>6, <1>9 DEF RunParse, ParseGet, ParseExhausted, Producers, Stages
<1>10. CASE s = "normalize" /\ RunNormalize
  BY <1>1, <1>2, <1>3, <1>10 DEF RunNormalize, NormalizeGet, Producers, Stages
<1>11. CASE s = "enrich" /\ RunEnrich
  BY <1>1, <1>2, <1>3, <1>4, <1>11 DEF RunEnrich, EnrichGet, EnrichWork, Producers, Stages
<1>12. CASE s = "dedup" /\ RunDedup
  BY <1>1, <1>2, <1>3, <1>12 DEF RunDedup, DedupGet, Producers, Stages
<1>13. CASE s = "persist" /\ RunPersist
  BY <1>1, <1>3, <1>4, <1>7, <1>13 DEF RunPersist, PersistGet, PersistCommit, Producers, Stages
<1>14. CASE s = "publish" /\ RunPublish
  BY <1>3, <1>4, <1>14 DEF RunPublish, PublishGet, PublishOffer, PublishOffered, PublishSend,
                           Stages
<1>15. CASE Deliver(s) \/ (s \in DOMAIN PluginCall /\ Fault(s))
  BY <1>4, <1>15 DEF Deliver, Fault
<1> QED
  BY <1>8, <1>9, <1>10, <1>11, <1>12, <1>13, <1>14, <1>15 DEF StageStep

LEMMA StepSentinelInv ==
    ASSUME TypeInv, KindInv, SentinelInv, [Next]_vars
    PROVE  SentinelInv'
<1>1. CASE GroupStep
  BY <1>1 DEF GroupStep, Abort, CancelRun, Finish, vars, SentinelInv
<1>2. ASSUME NEW s \in Stages, StageStep(s), NEW u \in Producers, EOS \in Range(queue'[u])
      PROVE  pc'[u] = "done"
  <2>1. /\ u # s => pc'[u] = pc[u]
        /\ u # s /\ (s = "fetch" \/ u # Upstream[s]) => queue'[u] = queue[u]
    BY <1>2, StageFrame DEF Producers
  <2>2. queue[u] \in Seq(Nat) /\ EOS \in Nat
    BY QueueType DEF EOS
  <2>3. CASE u = s
    <3>1. CASE queue'[s] = queue[s]
      <4>1. pc[s] # "done"
        BY <1>2, DoneStays
      <4> QED BY <1>2, <2>3, <3>1, <4>1 DEF SentinelInv
    <3>2. ASSUME NEW x \in Nat, queue'[s] = Append(queue[s], x), x # EOS \/ pc'[s] = "done"
          PROVE  pc'[u] = "done"
      <4>1. Range(queue'[s]) = Range(queue[s]) \cup {x}
        BY <2>2, <2>3, <3>2, AppendAt
      <4>2. EOS \notin Range(queue[s])
        BY <1>2, <2>3, DoneStays DEF SentinelInv
      <4> QED BY <1>2, <2>3, <3>2, <4>1, <4>2
    <3> QED BY <1>2, <2>3, <3>1, <3>2, QueueMoves
  <2>4. CASE u # s /\ s # "fetch" /\ u = Upstream[s]
    <3>1. Range(queue'[u]) \subseteq Range(queue[u])
      <4>1. CASE queue[u] # <<>> /\ queue'[u] = Tail(queue[u])
        BY <2>2, <4>1, TailAt
      <4> QED BY <1>2, <2>4, <4>1, QueueMoves
    <3> QED BY <1>2, <2>1, <2>4, <3>1 DEF SentinelInv
  <2>5. CASE u # s /\ (s = "fetch" \/ u # Upstream[s])
    BY <1>2, <2>1, <2>5 DEF SentinelInv
  <2> QED BY <2>3, <2>4, <2>5
<1>3. CASE \E s \in Stages : StageStep(s)
  BY <1>2, <1>3 DEF SentinelInv
<1> QED BY <1>1, <1>3, NextSplit

\* The items in the hands and queues of the middle stages, stage by stage.
LEMMA NormalizeKinds ==
    ASSUME TypeInv, KindInv, NEW s \in {"normalize", "enrich"}, StageStep(s)
    PROVE  /\ Range(queue'["normalize"]) \subseteq Passing \cup {EOS}
           /\ pc'["normalize"] = "put" => hand'["normalize"] \in Passing
<1>0. /\ pc \in [Stages -> Locations] /\ hand \in [Stages -> Nat]
      /\ "normalize" \in Producers /\ "normalize" \in Stages /\ s \in Stages
      /\ queue["normalize"] \in Seq(Nat) /\ EOS \in Nat
  BY QueueType DEF TypeInv, TypeOK, TaskOK, HandOK, Producers, Stages, EOS
<1>1. CASE s = "enrich"
  <2>1. pc'["normalize"] = pc["normalize"] /\ hand'["normalize"] = hand["normalize"]
    BY <1>0, <1>1, StageFrame
  <2>2. Range(queue'["normalize"]) \subseteq Range(queue["normalize"])
    <3>1. \/ queue'["normalize"] = queue["normalize"]
          \/ queue["normalize"] # <<>> /\ queue'["normalize"] = Tail(queue["normalize"])
      BY <1>0, <1>1, QueueMoves DEF Upstream
    <3> QED BY <1>0, <3>1, TailAt
  <2> QED BY <2>1, <2>2 DEF KindInv
<1>2. CASE s = "normalize" /\ NormalizeGet
  <2>1. queue'["normalize"] = queue["normalize"]
    BY <1>0, <1>2, TakeMoves DEF NormalizeGet
  <2>2. Arrival("normalize") \in 0..NumRecords
    BY <1>2, TakeOK DEF NormalizeGet, TypeInv, TypeOK, Items, Upstream, Stages
  <2>3. pc'["normalize"] = "put" => hand'["normalize"] \in Passing
    BY <1>0, <1>2, <2>2, SizeAssumption DEF NormalizeGet, At, GoTo, Raise, Unwind, Passing,
                                             Records, EOS
  <2> QED BY <2>1, <2>3 DEF KindInv
<1>3. CASE s = "normalize" /\ Pass("normalize")
  <2>1. /\ queue'["normalize"] = Append(queue["normalize"], hand["normalize"])
        /\ pc'["normalize"] = "get" /\ hand["normalize"] \in Passing
    BY <1>0, <1>3, PutMoves DEF Pass, GoTo, At, KindInv
  <2> QED BY <1>0, <2>1, AppendAt DEF KindInv
<1>4. CASE s = "normalize" /\ Close("normalize")
  <2>1. queue'["normalize"] = Append(queue["normalize"], EOS) /\ pc'["normalize"] = "done"
    BY <1>0, <1>4, PutMoves DEF Close, GoTo
  <2> QED BY <1>0, <2>1, AppendAt DEF KindInv
<1>5. CASE Deliver(s) \/ (s \in DOMAIN PluginCall /\ Fault(s))
  <2>1. UNCHANGED <<queue, hand>> /\ pc'[s] # "put" /\ (s # "normalize" => pc'["normalize"] = pc["normalize"])
    BY <1>0, <1>5, Unwinds, StageFrame
  <2> QED BY <2>1 DEF KindInv
<1> QED BY <1>1, <1>2, <1>3, <1>4, <1>5 DEF StageStep, RunNormalize

LEMMA EnrichKinds ==
    ASSUME TypeInv, KindInv, NEW s \in {"enrich", "dedup"}, StageStep(s)
    PROVE  /\ Range(queue'["enrich"]) \subseteq Wanted \cup {EOS}
           /\ pc'["enrich"] = "work" => hand'["enrich"] \in Passing
           /\ pc'["enrich"] = "put" => hand'["enrich"] \in Wanted
<1>0. /\ pc \in [Stages -> Locations] /\ hand \in [Stages -> Nat]
      /\ "enrich" \in Producers /\ "enrich" \in Stages /\ s \in Stages
      /\ queue["enrich"] \in Seq(Nat) /\ EOS \in Nat
  BY QueueType DEF TypeInv, TypeOK, TaskOK, HandOK, Producers, Stages, EOS
<1>1. CASE s = "dedup"
  <2>1. pc'["enrich"] = pc["enrich"] /\ hand'["enrich"] = hand["enrich"]
    BY <1>0, <1>1, StageFrame
  <2>2. Range(queue'["enrich"]) \subseteq Range(queue["enrich"])
    <3>1. \/ queue'["enrich"] = queue["enrich"]
          \/ queue["enrich"] # <<>> /\ queue'["enrich"] = Tail(queue["enrich"])
      BY <1>0, <1>1, QueueMoves DEF Upstream
    <3> QED BY <1>0, <3>1, TailAt
  <2> QED BY <2>1, <2>2 DEF KindInv
<1>2. CASE s = "enrich" /\ EnrichGet
  <2>1. /\ queue'["enrich"] = queue["enrich"]
        /\ queue["normalize"] # <<>> /\ Arrival("enrich") = Head(queue["normalize"])
    BY <1>0, <1>2, TakeMoves DEF EnrichGet, Upstream
  <2>2. Arrival("enrich") \in Passing \cup {EOS}
    <3>1. queue["normalize"] \in Seq(Nat)
      BY QueueType DEF Producers, Stages
    <3> QED BY <2>1, <3>1, TailAt DEF KindInv
  <2>3. /\ pc'["enrich"] \in {"closing", "work"}
        /\ pc'["enrich"] = "work" => hand'["enrich"] \in Passing
    BY <1>0, <1>2, <2>2 DEF EnrichGet, GoTo
  <2> QED BY <2>1, <2>3 DEF KindInv
<1>3. CASE s = "enrich" /\ EnrichWork
  <2>1. UNCHANGED <<queue, hand>> /\ hand["enrich"] \in Passing
    BY <1>3 DEF EnrichWork, At, KindInv
  <2>2. /\ pc'["enrich"] \in {"get", "put"}
        /\ pc'["enrich"] = "put" => Kind[hand["enrich"]] # "rejected"
    BY <1>0, <1>3 DEF EnrichWork, GoTo
  <2> QED BY <2>1, <2>2 DEF KindInv, Passing, Wanted
<1>4. CASE s = "enrich" /\ Pass("enrich")
  <2>1. /\ queue'["enrich"] = Append(queue["enrich"], hand["enrich"])
        /\ pc'["enrich"] = "get" /\ hand["enrich"] \in Wanted
    BY <1>0, <1>4, PutMoves DEF Pass, GoTo, At, KindInv
  <2> QED BY <1>0, <2>1, AppendAt DEF KindInv
<1>5. CASE s = "enrich" /\ Close("enrich")
  <2>1. queue'["enrich"] = Append(queue["enrich"], EOS) /\ pc'["enrich"] = "done"
    BY <1>0, <1>5, PutMoves DEF Close, GoTo
  <2> QED BY <1>0, <2>1, AppendAt DEF KindInv
<1>6. CASE s = "enrich" /\ (Deliver(s) \/ (s \in DOMAIN PluginCall /\ Fault(s)))
  <2>1. UNCHANGED <<queue, hand>> /\ pc'[s] \in {"closing", "done"}
    BY <1>0, <1>6, Unwinds
  <2> QED BY <1>6, <2>1 DEF KindInv
<1> QED BY <1>1, <1>2, <1>3, <1>4, <1>5, <1>6 DEF StageStep, RunEnrich

LEMMA DedupKinds ==
    ASSUME TypeInv, KindInv, NEW s \in {"dedup", "persist"}, StageStep(s)
    PROVE  /\ Range(queue'["dedup"]) \subseteq Wanted \cup {EOS}
           /\ pc'["dedup"] = "put" => hand'["dedup"] \in Wanted
<1>0. /\ pc \in [Stages -> Locations] /\ hand \in [Stages -> Nat]
      /\ "dedup" \in Producers /\ "dedup" \in Stages /\ s \in Stages
      /\ queue["dedup"] \in Seq(Nat) /\ EOS \in Nat
  BY QueueType DEF TypeInv, TypeOK, TaskOK, HandOK, Producers, Stages, EOS
<1>1. CASE s = "persist"
  <2>1. pc'["dedup"] = pc["dedup"] /\ hand'["dedup"] = hand["dedup"]
    BY <1>0, <1>1, StageFrame
  <2>2. Range(queue'["dedup"]) \subseteq Range(queue["dedup"])
    <3>1. \/ queue'["dedup"] = queue["dedup"]
          \/ queue["dedup"] # <<>> /\ queue'["dedup"] = Tail(queue["dedup"])
      BY <1>0, <1>1, QueueMoves DEF Upstream
    <3> QED BY <1>0, <3>1, TailAt
  <2> QED BY <2>1, <2>2 DEF KindInv
<1>2. CASE s = "dedup" /\ DedupGet
  <2>1. /\ queue'["dedup"] = queue["dedup"]
        /\ queue["enrich"] # <<>> /\ Arrival("dedup") = Head(queue["enrich"])
    BY <1>0, <1>2, TakeMoves DEF DedupGet, Upstream
  <2>2. Arrival("dedup") \in Wanted \cup {EOS}
    <3>1. queue["enrich"] \in Seq(Nat)
      BY QueueType DEF Producers, Stages
    <3> QED BY <2>1, <3>1, TailAt DEF KindInv
  <2>3. pc'["dedup"] = "put" => hand'["dedup"] \in Wanted
    BY <1>0, <1>2, <2>2 DEF DedupGet, GoTo
  <2> QED BY <2>1, <2>3 DEF KindInv
<1>3. CASE s = "dedup" /\ Pass("dedup")
  <2>1. /\ queue'["dedup"] = Append(queue["dedup"], hand["dedup"])
        /\ pc'["dedup"] = "get" /\ hand["dedup"] \in Wanted
    BY <1>0, <1>3, PutMoves DEF Pass, GoTo, At, KindInv
  <2> QED BY <1>0, <2>1, AppendAt DEF KindInv
<1>4. CASE s = "dedup" /\ Close("dedup")
  <2>1. queue'["dedup"] = Append(queue["dedup"], EOS) /\ pc'["dedup"] = "done"
    BY <1>0, <1>4, PutMoves DEF Close, GoTo
  <2> QED BY <1>0, <2>1, AppendAt DEF KindInv
<1>5. CASE s = "dedup" /\ (Deliver(s) \/ (s \in DOMAIN PluginCall /\ Fault(s)))
  <2>1. UNCHANGED <<queue, hand>> /\ pc'[s] \in {"closing", "done"}
    BY <1>0, <1>5, Unwinds
  <2> QED BY <1>5, <2>1 DEF KindInv
<1> QED BY <1>1, <1>2, <1>3, <1>4, <1>5 DEF StageStep, RunDedup

LEMMA StepKindInv ==
    ASSUME TypeInv, KindInv, [Next]_vars
    PROVE  KindInv'
<1>1. CASE GroupStep
  BY <1>1 DEF GroupStep, Abort, CancelRun, Finish, vars, KindInv
<1>2. ASSUME NEW s \in Stages, StageStep(s) PROVE KindInv'
  <2>0. /\ \A t \in Stages \ {s} : pc'[t] = pc[t] /\ hand'[t] = hand[t]
        /\ s \notin {"normalize", "enrich"} => queue'["normalize"] = queue["normalize"]
        /\ s \notin {"enrich", "dedup"} => queue'["enrich"] = queue["enrich"]
        /\ s \notin {"dedup", "persist"} => queue'["dedup"] = queue["dedup"]
    BY <1>2, StageFrame DEF Stages, Producers, Upstream
  <2>1. pc'["fetch"] = "put" => hand'["fetch"] # EOS
    <3>1. CASE s = "fetch" /\ RunFetch
      BY <3>1 DEF RunFetch, FetchNext, FetchPut, Close, GoTo, TypeInv, TypeOK, TaskOK,
                  HandOK, Stages, EOS
    <3>2. CASE s = "fetch" /\ (Deliver(s) \/ (s \in DOMAIN PluginCall /\ Fault(s)))
      <4>1. pc'[s] \in {"closing", "done"}
        BY <3>2, Unwinds
      <4> QED BY <3>2, <4>1
    <3>3. CASE s # "fetch"
      BY <2>0, <3>3 DEF KindInv, Stages
    <3> QED BY <1>2, <3>1, <3>2, <3>3 DEF StageStep
  <2>2. /\ Range(queue'["normalize"]) \subseteq Passing \cup {EOS}
        /\ pc'["normalize"] = "put" => hand'["normalize"] \in Passing
    BY <1>2, <2>0, NormalizeKinds DEF KindInv, Stages
  <2>3. /\ Range(queue'["enrich"]) \subseteq Wanted \cup {EOS}
        /\ pc'["enrich"] = "work" => hand'["enrich"] \in Passing
        /\ pc'["enrich"] = "put" => hand'["enrich"] \in Wanted
    BY <1>2, <2>0, EnrichKinds DEF KindInv, Stages
  <2>4. /\ Range(queue'["dedup"]) \subseteq Wanted \cup {EOS}
        /\ pc'["dedup"] = "put" => hand'["dedup"] \in Wanted
    BY <1>2, <2>0, DedupKinds DEF KindInv, Stages
  <2>5. Wanted' = Wanted /\ Passing' = Passing
    BY DEF Wanted, Passing
  <2> QED BY <2>1, <2>2, <2>3, <2>4, <2>5 DEF KindInv
<1> QED BY <1>1, <1>2, NextSplit

-----------------------------------------------------------------------------
(* The links through the steps that several stages share.                  *)

\* Only a stage that has not raised is anywhere but at its end.
LEMMA AliveStage ==
    ASSUME GroupInv, NEW s \in Stages, pc[s] \notin {"closing", "done"}
    PROVE  raised[s] = "none"
BY DEF GroupInv

LEMMA OpenQueue ==
    ASSUME TypeInv, SentinelInv, NEW u \in Producers, pc[u] # "done"
    PROVE  EOS \notin Range(queue[u]) /\ queue[u] \in Seq(Nat)
BY QueueType DEF SentinelInv

LEMMA CloseLink ==
    ASSUME TypeInv, SentinelInv, NEW u \in Producers, Close(u),
           NEW W \in SUBSET Nat, EOS \notin W, NEW lo \in Nat, NEW top \in Nat,
           Fed(queue[u], W, lo, top, pc[u], raised[u])
    PROVE  Fed(queue'[u], W, lo, top, pc'[u], raised'[u])
<1>1. pc[u] = "closing" /\ pc'[u] = "done" /\ raised' = raised
  BY DEF Close, At, GoTo, TypeInv, TypeOK, TaskOK, Producers
<1>2. queue'[u] = Append(queue[u], EOS)
  BY PutMoves DEF Close
<1>3. EOS \notin Range(queue[u]) /\ queue[u] \in Seq(Nat)
  BY <1>1, OpenQueue
<1> QED BY <1>1, <1>2, <1>3, FedClose

LEMMA PassLink ==
    ASSUME TypeInv, SentinelInv, GroupInv, NEW u \in {"normalize", "enrich", "dedup"}, Pass(u),
           NEW W \in SUBSET Nat, NEW lo \in Nat,
           Fed(queue[u], W, lo, hand[u], pc[u], raised[u])
    PROVE  Fed(queue'[u], W, lo, hand'[u], pc'[u], raised'[u])
<1>0. u \in Producers /\ u \in Stages /\ hand[u] \in Nat
  BY DEF Producers, Stages, TypeInv, TypeOK, HandOK
<1>1. pc[u] = "put" /\ pc'[u] = "get" /\ UNCHANGED <<raised, hand>>
  BY <1>0 DEF Pass, At, GoTo, TypeInv, TypeOK, TaskOK
<1>2. raised[u] = "none"
  BY <1>0, <1>1, AliveStage
<1>3. queue'[u] = Append(queue[u], hand[u])
  BY <1>0, PutMoves DEF Pass
<1>4. EOS \notin Range(queue[u]) /\ queue[u] \in Seq(Nat)
  BY <1>0, <1>1, OpenQueue
<1>5. "get" \notin Busy
  BY DEF Busy
<1> QED BY <1>0, <1>1, <1>2, <1>3, <1>4, <1>5, FedPut

LEMMA RaiseLink ==
    ASSUME TypeInv, NEW s \in Stages, s \in Producers,
           Deliver(s) \/ (s \in DOMAIN PluginCall /\ Fault(s)),
           NEW W, NEW lo, NEW top, Fed(queue[s], W, lo, top, pc[s], raised[s])
    PROVE  Fed(queue'[s], W, lo, top, pc'[s], raised'[s])
<1>1. raised'[s] # "none" /\ queue' = queue
  BY Unwinds
<1> QED BY <1>1, FedRaise

LEMMA TakeLink ==
    ASSUME TypeInv, NEW s \in Stages \ {"fetch"}, NEW u \in Producers, u = Upstream[s], Take(s),
           NEW W \in SUBSET Nat, EOS \notin W, NEW lo \in Nat, NEW top, NEW loc, NEW exc,
           Fed(queue[u], W, lo, top, loc, exc)
    PROVE  /\ Arrival(s) \in Nat
           /\ Arrival(s) \in W => /\ lo < Arrival(s)
                                  /\ Fed(queue'[u], W, Arrival(s), top, loc, exc)
           /\ Arrival(s) \notin W => Fed(queue'[u], W, lo, top, loc, exc)
           /\ Arrival(s) = EOS => queue'[u] = <<>>
           /\ Arrival(s) # EOS => \A r \in W : lo < r => Arrival(s) <= r
<1>1. /\ queue[u] # <<>> /\ queue'[u] = Tail(queue[u])
      /\ Arrival(s) = Head(queue[u])
  BY TakeMoves
<1>2. queue[u] \in Seq(Nat)
  BY QueueType
<1>3. Head(queue[u]) \in Nat
  BY <1>1, <1>2, TailAt
<1> QED BY <1>1, <1>2, <1>3, FedTake

-----------------------------------------------------------------------------
(* The links, stage by stage.                                              *)

LEMMA StageTypes ==
    ASSUME TypeInv
    PROVE  /\ \A s \in Stages : hand[s] \in Nat /\ pc[s] \in Locations
           /\ emitted \in Nat
           /\ Stages = {"fetch", "parse", "normalize", "enrich", "dedup", "persist", "publish"}
           /\ Producers = {"fetch", "parse", "normalize", "enrich", "dedup", "persist"}
           /\ Wanted \in SUBSET Nat /\ Passing \in SUBSET Nat /\ 1..NumPayloads \in SUBSET Nat
           /\ EOS \notin Wanted /\ EOS \notin Passing /\ EOS \notin 1..NumPayloads
<1>1. /\ \A s \in Stages : hand[s] \in Nat /\ pc[s] \in Locations
      /\ emitted \in Nat
  BY DEF TypeInv, TypeOK, HandOK, TaskOK
<1>2. /\ Stages = {"fetch", "parse", "normalize", "enrich", "dedup", "persist", "publish"}
      /\ Producers = {"fetch", "parse", "normalize", "enrich", "dedup", "persist"}
  BY DEF Stages, Producers
<1>3. /\ Wanted \in SUBSET Nat /\ Passing \in SUBSET Nat /\ 1..NumPayloads \in SUBSET Nat
      /\ EOS \notin Wanted /\ EOS \notin Passing /\ EOS \notin 1..NumPayloads
  BY KindsType
<1> QED BY <1>1, <1>2, <1>3

LEMMA FetchFlow ==
    ASSUME TypeInv, SentinelInv, GroupInv, KindInv, FetchLink,
           NEW s \in {"fetch", "parse"}, StageStep(s)
    PROVE  FetchLink'
<1> USE StageTypes
<1> DEFINE W == 1..NumPayloads
<1> HIDE DEF W
<1>0. /\ Fed(queue["fetch"], W, hand["parse"], hand["fetch"], pc["fetch"], raised["fetch"])
      /\ W \in SUBSET Nat /\ EOS \notin W /\ s \in Stages
  BY DEF FetchLink, W
<1> SUFFICES Fed(queue'["fetch"], W, hand'["parse"], hand'["fetch"], pc'["fetch"], raised'["fetch"])
  BY DEF FetchLink, W
<1>1. CASE s = "fetch"
  <2>0. hand'["parse"] = hand["parse"]
    BY <1>1, StageFrame
  <2>1. CASE FetchNext
    <3>1. /\ pc["fetch"] = "next" /\ queue' = queue /\ raised' = raised
          /\ raised["fetch"] = "none"
      BY <2>1, AliveStage DEF FetchNext, At
    <3>2. CASE hand["fetch"] < NumPayloads
      <4>1. hand'["fetch"] = hand["fetch"] + 1 /\ pc'["fetch"] = "put"
        BY <2>1, <3>2 DEF FetchNext, GoTo, TypeInv, TypeOK, HandOK, TaskOK
      <4>2. \A r \in W : hand["fetch"] < r => hand["fetch"] + 1 <= r
        BY <1>0
      <4>3. "next" \notin Busy /\ "put" \in Busy
        BY DEF Busy
      <4>4. queue["fetch"] \in Seq(Nat)
        BY QueueType
      <4> QED BY <1>0, <2>0, <3>1, <4>1, <4>2, <4>3, <4>4, FedNext
    <3>3. CASE ~(hand["fetch"] < NumPayloads)
      <4>1. hand' = hand /\ pc'["fetch"] = "closing"
        BY <2>1, <3>3 DEF FetchNext, GoTo, TypeInv, TypeOK, TaskOK
      <4>2. "next" \notin Busy /\ "closing" \notin Busy
        BY DEF Busy
      <4> QED BY <1>0, <2>0, <3>1, <4>1, <4>2, FedMove
    <3> QED BY <3>2, <3>3
  <2>2. CASE FetchPut
    <3>1. /\ pc["fetch"] = "put" /\ pc'["fetch"] = "next" /\ UNCHANGED <<raised, hand>>
      BY <2>2 DEF FetchPut, At, GoTo, TypeInv, TypeOK, TaskOK
    <3>2. raised["fetch"] = "none"
      BY <3>1, AliveStage
    <3>3. queue'["fetch"] = Append(queue["fetch"], hand["fetch"])
      BY <2>2, PutMoves DEF FetchPut
    <3>4. EOS \notin Range(queue["fetch"]) /\ queue["fetch"] \in Seq(Nat)
      BY <3>1, OpenQueue
    <3>5. "next" \notin Busy
      BY DEF Busy
    <3> QED BY <1>0, <3>1, <3>2, <3>3, <3>4, <3>5, FedPut
  <2>3. CASE Close("fetch")
    <3>1. hand' = hand
      BY <2>3 DEF Close
    <3> QED BY <1>0, <2>3, <3>1, CloseLink
  <2>4. CASE Deliver(s) \/ (s \in DOMAIN PluginCall /\ Fault(s))
    <3>1. hand' = hand
      BY <1>0, <2>4, Unwinds
    <3> QED BY <1>0, <1>1, <2>4, <3>1, RaiseLink
  <2> QED BY <1>1, <2>1, <2>2, <2>3, <2>4 DEF StageStep, RunFetch
<1>2. CASE s = "parse"
  <2>0. /\ hand'["fetch"] = hand["fetch"] /\ pc'["fetch"] = pc["fetch"]
        /\ raised'["fetch"] = raised["fetch"]
    BY <1>2, StageFrame
  <2>1. CASE ParseGet
    <3>1. Take("parse") /\ Upstream["parse"] = "fetch"
      BY <2>1 DEF ParseGet, Upstream
    <3>2. Arrival("parse") \in 0..NumPayloads
      BY <3>1, TakeOK DEF TypeInv, TypeOK, Items
    <3>3. CASE Arrival("parse") = EOS
      <4>1. hand' = hand
        BY <2>1, <3>3 DEF ParseGet
      <4>2. Fed(queue'["fetch"], W, hand["parse"], hand["fetch"], pc["fetch"], raised["fetch"])
        BY <1>0, <3>1, <3>3, TakeLink
      <4> QED BY <2>0, <4>1, <4>2
    <3>4. CASE Arrival("parse") # EOS
      <4>1. hand'["parse"] = Arrival("parse") /\ Arrival("parse") \in W
        BY <2>1, <3>2, <3>4, SizeAssumption DEF ParseGet, TypeInv, TypeOK, HandOK, W, EOS
      <4>2. Fed(queue'["fetch"], W, Arrival("parse"), hand["fetch"], pc["fetch"], raised["fetch"])
        BY <1>0, <3>1, <4>1, TakeLink
      <4> QED BY <2>0, <4>1, <4>2
    <3> QED BY <3>3, <3>4
  <2>2. CASE ~ParseGet
    <3>1. hand'["parse"] = hand["parse"] /\ queue'["fetch"] = queue["fetch"]
      BY <1>2, <2>2, Unwinds DEF StageStep, RunParse, ParsePut, ParseExhausted, Close, Put,
                                  TypeInv, TypeOK, QueueOK
    <3> QED BY <1>0, <2>0, <3>1
  <2> QED BY <2>1, <2>2
<1> QED BY <1>1, <1>2

\* The kind of the item a middle stage takes.
LEMMA ArrivalKind ==
    ASSUME TypeInv, KindInv, NEW s \in {"enrich", "dedup", "persist"}, Take(s)
    PROVE  /\ s = "enrich" => Arrival(s) \in Passing \cup {EOS}
           /\ s # "enrich" => Arrival(s) \in Wanted \cup {EOS}
<1> USE StageTypes
<1>1. /\ s \in Stages \ {"fetch"} /\ Upstream[s] \in Producers
      /\ s = "enrich" => Upstream[s] = "normalize"
      /\ s = "dedup" => Upstream[s] = "enrich"
      /\ s = "persist" => Upstream[s] = "dedup"
  BY DEF Upstream
<1>2. queue[Upstream[s]] # <<>> /\ Arrival(s) = Head(queue[Upstream[s]])
  BY <1>1, TakeMoves
<1>3. queue[Upstream[s]] \in Seq(Nat)
  BY <1>1, QueueType
<1>4. Arrival(s) \in Range(queue[Upstream[s]])
  BY <1>2, <1>3, TailAt
<1> QED BY <1>1, <1>4 DEF KindInv

\* What normalize does with the record it takes.
LEMMA NormalizeTakes ==
    ASSUME TypeInv, NormalizeGet
    PROVE  /\ Take("normalize") /\ UNCHANGED emitted
           /\ pc["normalize"] = "get" /\ queue'["normalize"] = queue["normalize"]
           /\ Arrival("normalize") \in Passing =>
                 /\ hand'["normalize"] = Arrival("normalize")
                 /\ pc'["normalize"] = "put" /\ raised' = raised
           /\ Arrival("normalize") \notin Passing =>
                 /\ hand' = hand
                 /\ \/ pc'["normalize"] \in {"get", "closing"} /\ raised' = raised
                    \/ pc'["normalize"] = "closing" /\ raised'["normalize"] # "none"
<1> USE StageTypes
<1>0. /\ pc \in [Stages -> Locations] /\ hand \in [Stages -> Nat]
      /\ DOMAIN raised = Stages /\ raised = [t \in Stages |-> raised[t]]
  BY DEF TypeInv, TypeOK, TaskOK, HandOK
<1>1. Take("normalize") /\ UNCHANGED emitted /\ pc["normalize"] = "get"
  BY DEF NormalizeGet, At
<1>2. queue'["normalize"] = queue["normalize"]
  BY <1>1, TakeMoves
<1>3. Arrival("normalize") \in 0..NumRecords
  BY <1>1, TakeOK DEF TypeInv, TypeOK, Items, Upstream
<1> DEFINE r == Arrival("normalize")
<1> HIDE DEF r
<1>4. /\ r \in Passing => Kind[r] \in {"good", "rejected"} /\ r # EOS
      /\ r \notin Passing => r = EOS \/ Kind[r] \notin {"good", "rejected"}
  BY <1>3, SizeAssumption, KindsType DEF Passing, Records, EOS, r
<1>5. r \in Passing => hand'["normalize"] = r /\ pc'["normalize"] = "put" /\ raised' = raised
  BY <1>0, <1>4 DEF NormalizeGet, GoTo, ErrorKinds, r
<1>6. r \notin Passing =>
         /\ hand' = hand
         /\ \/ pc'["normalize"] \in {"get", "closing"} /\ raised' = raised
            \/ pc'["normalize"] = "closing" /\ raised'["normalize"] # "none"
  BY <1>0, <1>1, <1>4 DEF NormalizeGet, GoTo, Raise, Unwind, ErrorKinds, r
<1> QED BY <1>1, <1>2, <1>5, <1>6 DEF r

LEMMA ParseFlow ==
    ASSUME TypeInv, SentinelInv, GroupInv, KindInv, ParseLink,
           NEW s \in {"parse", "normalize"}, StageStep(s)
    PROVE  ParseLink'
<1> USE StageTypes
<1>0. /\ Fed(queue["parse"], Passing, hand["normalize"], emitted, pc["parse"], raised["parse"])
      /\ s \in Stages
  BY DEF ParseLink
<1> SUFFICES Fed(queue'["parse"], Passing, hand'["normalize"], emitted', pc'["parse"], raised'["parse"])
  BY DEF ParseLink, Passing
<1>1. CASE s = "parse"
  <2>0. hand'["normalize"] = hand["normalize"]
    BY <1>1, StageFrame
  <2>1. CASE ParseGet
    <3>1. /\ pc["parse"] = "get" /\ pc'["parse"] \in {"emit", "closing"}
          /\ UNCHANGED <<raised, emitted>> /\ Take("parse")
      BY <2>1 DEF ParseGet, At, GoTo, TypeInv, TypeOK, TaskOK
    <3>2. queue'["parse"] = queue["parse"]
      BY <3>1, TakeMoves
    <3>3. "get" \notin Busy /\ pc'["parse"] \notin Busy
      BY <3>1 DEF Busy
    <3> QED BY <1>0, <2>0, <3>1, <3>2, <3>3, FedMove
  <2>2. CASE ParsePut
    <3>1. /\ pc["parse"] = "emit" /\ UNCHANGED <<raised, pc>> /\ emitted' = emitted + 1
      BY <2>2 DEF ParsePut, At
    <3>2. raised["parse"] = "none"
      BY <3>1, AliveStage
    <3>3. queue'["parse"] = Append(queue["parse"], emitted + 1)
      BY <2>2, PutMoves DEF ParsePut
    <3>4. EOS \notin Range(queue["parse"]) /\ queue["parse"] \in Seq(Nat)
      BY <3>1, OpenQueue
    <3>5. "emit" \notin Busy
      BY DEF Busy
    <3> QED BY <1>0, <2>0, <3>1, <3>2, <3>3, <3>4, <3>5, FedEmit
  <2>3. CASE ParseExhausted
    <3>1. /\ pc["parse"] = "emit" /\ pc'["parse"] = "get"
          /\ UNCHANGED <<raised, emitted, queue>>
      BY <2>3 DEF ParseExhausted, At, GoTo, TypeInv, TypeOK, TaskOK
    <3>2. "emit" \notin Busy /\ "get" \notin Busy
      BY DEF Busy
    <3> QED BY <1>0, <2>0, <3>1, <3>2, FedMove
  <2>4. CASE Close("parse")
    <3>1. emitted' = emitted
      BY <2>4 DEF Close
    <3> QED BY <1>0, <2>0, <2>4, <3>1, CloseLink
  <2>5. CASE Deliver(s) \/ (s \in DOMAIN PluginCall /\ Fault(s))
    <3>1. emitted' = emitted
      BY <1>0, <2>5, Unwinds
    <3> QED BY <1>0, <1>1, <2>0, <2>5, <3>1, RaiseLink
  <2> QED BY <1>1, <2>1, <2>2, <2>3, <2>4, <2>5 DEF StageStep, RunParse
<1>2. CASE s = "normalize"
  <2>0. emitted' = emitted /\ pc'["parse"] = pc["parse"] /\ raised'["parse"] = raised["parse"]
    BY <1>2, StageFrame
  <2>1. CASE NormalizeGet
    <3>1. Take("normalize") /\ Upstream["normalize"] = "parse"
      BY <2>1, NormalizeTakes DEF Upstream
    <3>2. CASE Arrival("normalize") \in Passing
      <4>1. hand'["normalize"] = Arrival("normalize")
        BY <2>1, <3>2, NormalizeTakes
      <4>2. Fed(queue'["parse"], Passing, Arrival("normalize"), emitted, pc["parse"], raised["parse"])
        BY <1>0, <3>1, <3>2, TakeLink
      <4> QED BY <2>0, <4>1, <4>2
    <3>3. CASE Arrival("normalize") \notin Passing
      <4>1. hand' = hand
        BY <2>1, <3>3, NormalizeTakes
      <4>2. Fed(queue'["parse"], Passing, hand["normalize"], emitted, pc["parse"], raised["parse"])
        BY <1>0, <3>1, <3>3, TakeLink
      <4> QED BY <2>0, <4>1, <4>2
    <3> QED BY <3>2, <3>3
  <2>2. CASE ~NormalizeGet
    <3>1. hand'["normalize"] = hand["normalize"] /\ queue'["parse"] = queue["parse"]
      BY <1>2, <2>2, Unwinds DEF StageStep, RunNormalize, Pass, Close, Put,
                                  TypeInv, TypeOK, QueueOK
    <3> QED BY <1>0, <2>0, <3>1
  <2> QED BY <2>1, <2>2
<1> QED BY <1>1, <1>2

LEMMA NormalizeFlow ==
    ASSUME TypeInv, SentinelInv, GroupInv, KindInv, ParseLink, NormalizeLink,
           NEW s \in {"normalize", "enrich"}, StageStep(s)
    PROVE  NormalizeLink'
<1> USE StageTypes
<1>0. /\ Fed(queue["normalize"], Passing, hand["enrich"], hand["normalize"], pc["normalize"],
             raised["normalize"])
      /\ Fed(queue["parse"], Passing, hand["normalize"], emitted, pc["parse"], raised["parse"])
      /\ s \in Stages
  BY DEF NormalizeLink, ParseLink
<1> SUFFICES Fed(queue'["normalize"], Passing, hand'["enrich"], hand'["normalize"],
                 pc'["normalize"], raised'["normalize"])
  BY DEF NormalizeLink, Passing
<1>1. CASE s = "normalize"
  <2>0. hand'["enrich"] = hand["enrich"]
    BY <1>1, StageFrame
  <2>1. CASE NormalizeGet
    <3>1. /\ Take("normalize") /\ Upstream["normalize"] = "parse"
          /\ pc["normalize"] = "get" /\ queue'["normalize"] = queue["normalize"]
      BY <2>1, NormalizeTakes DEF Upstream
    <3>2. raised["normalize"] = "none" /\ queue["normalize"] \in Seq(Nat) /\ "get" \notin Busy
      BY <3>1, AliveStage, QueueType DEF Busy
    <3>3. CASE Arrival("normalize") \in Passing
      <4>1. /\ hand'["normalize"] = Arrival("normalize")
            /\ pc'["normalize"] = "put" /\ raised' = raised /\ "put" \in Busy
        BY <2>1, <3>3, NormalizeTakes DEF Busy
      <4>2. /\ Arrival("normalize") \in Nat /\ hand["normalize"] < Arrival("normalize")
            /\ \A r \in Passing : hand["normalize"] < r => Arrival("normalize") <= r
        BY <1>0, <3>1, <3>3, TakeLink
      <4>3. Fed(queue["normalize"], Passing, hand["enrich"], Arrival("normalize"), "put", "none")
        BY <1>0, <3>1, <3>2, <4>1, <4>2, FedNext
      <4> QED BY <2>0, <3>1, <3>2, <4>1, <4>3
    <3>4. CASE Arrival("normalize") \notin Passing
      <4>1. /\ hand' = hand
            /\ \/ pc'["normalize"] \in {"get", "closing"} /\ raised' = raised
               \/ pc'["normalize"] = "closing" /\ raised'["normalize"] # "none"
        BY <2>1, <3>4, NormalizeTakes
      <4>2. CASE raised' = raised
        <5>1. pc'["normalize"] \notin Busy
          BY <4>1 DEF Busy
        <5> QED BY <1>0, <3>1, <3>2, <4>1, <4>2, <5>1, FedMove
      <4>3. CASE raised'["normalize"] # "none"
        BY <1>0, <3>1, <4>1, <4>3, FedRaise
      <4> QED BY <4>1, <4>2, <4>3
    <3> QED BY <3>3, <3>4
  <2>2. CASE Pass("normalize")
    BY <1>0, <2>0, <2>2, PassLink
  <2>3. CASE Close("normalize")
    <3>1. hand' = hand
      BY <2>3 DEF Close
    <3> QED BY <1>0, <2>3, <3>1, CloseLink
  <2>4. CASE Deliver(s) \/ (s \in DOMAIN PluginCall /\ Fault(s))
    <3>1. hand' = hand
      BY <1>0, <2>4, Unwinds
    <3> QED BY <1>0, <1>1, <2>4, <3>1, RaiseLink
  <2> QED BY <1>1, <2>1, <2>2, <2>3, <2>4 DEF StageStep, RunNormalize
<1>2. CASE s = "enrich"
  <2>0. /\ hand'["normalize"] = hand["normalize"] /\ pc'["normalize"] = pc["normalize"]
        /\ raised'["normalize"] = raised["normalize"]
    BY <1>2, StageFrame
  <2>1. CASE EnrichGet
    <3>1. Take("enrich") /\ Upstream["enrich"] = "normalize"
      BY <2>1 DEF EnrichGet, Upstream
    <3>2. CASE Arrival("enrich") = EOS
      <4>1. hand' = hand
        BY <2>1, <3>2 DEF EnrichGet
      <4>2. Fed(queue'["normalize"], Passing, hand["enrich"], hand["normalize"],
                pc["normalize"], raised["normalize"])
        BY <1>0, <3>1, <3>2, TakeLink
      <4> QED BY <2>0, <4>1, <4>2
    <3>3. CASE Arrival("enrich") # EOS
      <4>1. hand'["enrich"] = Arrival("enrich")
        BY <2>1, <3>3 DEF EnrichGet, TypeInv, TypeOK, HandOK
      <4>2. Arrival("enrich") \in Passing
        BY <3>1, <3>3, ArrivalKind
      <4>3. Fed(queue'["normalize"], Passing, Arrival("enrich"), hand["normalize"],
                pc["normalize"], raised["normalize"])
        BY <1>0, <3>1, <4>2, TakeLink
      <4> QED BY <2>0, <4>1, <4>3
    <3> QED BY <3>2, <3>3
  <2>2. CASE ~EnrichGet
    <3>1. hand'["enrich"] = hand["enrich"] /\ queue'["normalize"] = queue["normalize"]
      BY <1>2, <2>2, Unwinds DEF StageStep, RunEnrich, EnrichWork, Pass, Close, Put,
                                  TypeInv, TypeOK, QueueOK
    <3> QED BY <1>0, <2>0, <3>1
  <2> QED BY <2>1, <2>2
<1> QED BY <1>1, <1>2

LEMMA EnrichFlow ==
    ASSUME TypeInv, SentinelInv, GroupInv, KindInv, NormalizeLink, EnrichLink,
           NEW s \in {"enrich", "dedup"}, StageStep(s)
    PROVE  EnrichLink'
<1> USE StageTypes
<1>0. /\ Fed(queue["enrich"], Wanted, hand["dedup"], hand["enrich"], pc["enrich"],
             raised["enrich"])
      /\ Fed(queue["normalize"], Passing, hand["enrich"], hand["normalize"], pc["normalize"],
             raised["normalize"])
      /\ s \in Stages
  BY DEF NormalizeLink, EnrichLink
<1> SUFFICES Fed(queue'["enrich"], Wanted, hand'["dedup"], hand'["enrich"],
                 pc'["enrich"], raised'["enrich"])
  BY DEF EnrichLink, Wanted
<1>1. CASE s = "enrich"
  <2>0. hand'["dedup"] = hand["dedup"]
    BY <1>1, StageFrame
  <2>1. CASE EnrichGet
    <3>1. /\ Take("enrich") /\ Upstream["enrich"] = "normalize"
          /\ pc["enrich"] = "get" /\ raised' = raised
      BY <2>1 DEF EnrichGet, At, Upstream
    <3>2. /\ raised["enrich"] = "none" /\ queue["enrich"] \in Seq(Nat) /\ "get" \notin Busy
          /\ queue'["enrich"] = queue["enrich"]
      BY <3>1, AliveStage, QueueType, TakeMoves DEF Busy
    <3>3. CASE Arrival("enrich") # EOS
      <4>1. /\ hand'["enrich"] = Arrival("enrich") /\ pc'["enrich"] = "work" /\ "work" \in Busy
            /\ Arrival("enrich") \in Passing
        BY <2>1, <3>1, <3>3, ArrivalKind DEF EnrichGet, GoTo, TypeInv, TypeOK, TaskOK, HandOK, Busy
      <4>2. /\ Arrival("enrich") \in Nat /\ hand["enrich"] < Arrival("enrich")
            /\ \A r \in Passing : hand["enrich"] < r => Arrival("enrich") <= r
        BY <1>0, <3>1, <3>3, <4>1, TakeLink
      <4>3. \A r \in Wanted : hand["enrich"] < r => Arrival("enrich") <= r
        BY <4>2, KindsType
      <4>4. Fed(queue["enrich"], Wanted, hand["dedup"], Arrival("enrich"), "work", "none")
        BY <1>0, <3>1, <3>2, <4>1, <4>2, <4>3, FedNext
      <4> QED BY <2>0, <3>1, <3>2, <4>1, <4>4
    <3>4. CASE Arrival("enrich") = EOS
      <4>1. hand' = hand /\ pc'["enrich"] = "closing" /\ "closing" \notin Busy
        BY <2>1, <3>4 DEF EnrichGet, GoTo, TypeInv, TypeOK, TaskOK, Busy
      <4> QED BY <1>0, <3>1, <3>2, <4>1, FedMove
    <3> QED BY <3>3, <3>4
  <2>2. CASE EnrichWork
    <3>1. /\ pc["enrich"] = "work" /\ UNCHANGED <<queue, hand, raised>>
          /\ pc'["enrich"] = IF Kind[hand["enrich"]] = "rejected" THEN "get" ELSE "put"
      BY <2>2 DEF EnrichWork, At, GoTo, TypeInv, TypeOK, TaskOK
    <3>2. raised["enrich"] = "none" /\ queue["enrich"] \in Seq(Nat)
      BY <3>1, AliveStage, QueueType
    <3>3. CASE Kind[hand["enrich"]] = "rejected"
      <4>1. hand["enrich"] \notin Wanted
        BY <3>3 DEF Wanted
      <4> QED BY <1>0, <3>1, <3>2, <3>3, <4>1, FedDrop
    <3>4. CASE Kind[hand["enrich"]] # "rejected"
      BY <1>0, <3>1, <3>4 DEF Fed
    <3> QED BY <3>3, <3>4
  <2>3. CASE Pass("enrich")
    BY <1>0, <2>0, <2>3, PassLink
  <2>4. CASE Close("enrich")
    <3>1. hand' = hand
      BY <2>4 DEF Close
    <3> QED BY <1>0, <2>4, <3>1, CloseLink
  <2>5. CASE Deliver(s) \/ (s \in DOMAIN PluginCall /\ Fault(s))
    <3>1. hand' = hand
      BY <1>0, <2>5, Unwinds
    <3> QED BY <1>0, <1>1, <2>5, <3>1, RaiseLink
  <2> QED BY <1>1, <2>1, <2>2, <2>3, <2>4, <2>5 DEF StageStep, RunEnrich
<1>2. CASE s = "dedup"
  <2>0. /\ hand'["enrich"] = hand["enrich"] /\ pc'["enrich"] = pc["enrich"]
        /\ raised'["enrich"] = raised["enrich"]
    BY <1>2, StageFrame
  <2>1. CASE DedupGet
    <3>1. Take("dedup") /\ Upstream["dedup"] = "enrich"
      BY <2>1 DEF DedupGet, Upstream
    <3>2. CASE Arrival("dedup") = EOS
      <4>1. hand' = hand
        BY <2>1, <3>2 DEF DedupGet
      <4>2. Fed(queue'["enrich"], Wanted, hand["dedup"], hand["enrich"], pc["enrich"],
                raised["enrich"])
        BY <1>0, <3>1, <3>2, TakeLink
      <4> QED BY <2>0, <4>1, <4>2
    <3>3. CASE Arrival("dedup") # EOS
      <4>1. hand'["dedup"] = Arrival("dedup")
        BY <2>1, <3>3 DEF DedupGet, TypeInv, TypeOK, HandOK
      <4>2. Arrival("dedup") \in Wanted
        BY <3>1, <3>3, ArrivalKind
      <4>3. Fed(queue'["enrich"], Wanted, Arrival("dedup"), hand["enrich"], pc["enrich"],
                raised["enrich"])
        BY <1>0, <3>1, <4>2, TakeLink
      <4> QED BY <2>0, <4>1, <4>3
    <3> QED BY <3>2, <3>3
  <2>2. CASE ~DedupGet
    <3>1. hand'["dedup"] = hand["dedup"] /\ queue'["enrich"] = queue["enrich"]
      BY <1>2, <2>2, Unwinds DEF StageStep, RunDedup, Pass, Close, Put,
                                  TypeInv, TypeOK, QueueOK
    <3> QED BY <1>0, <2>0, <3>1
  <2> QED BY <2>1, <2>2
<1> QED BY <1>1, <1>2

\* dedup feeds persist, wherever persist is.
LEMMA DedupFed ==
    ASSUME TypeInv, SentinelInv, GroupInv, KindInv, EnrichLink, StageStep("dedup"),
           NEW lo \in Nat,
           Fed(queue["dedup"], Wanted, lo, hand["dedup"], pc["dedup"], raised["dedup"])
    PROVE  Fed(queue'["dedup"], Wanted, lo, hand'["dedup"], pc'["dedup"], raised'["dedup"])
<1> USE StageTypes
<1>0. Fed(queue["enrich"], Wanted, hand["dedup"], hand["enrich"], pc["enrich"],
          raised["enrich"])
  BY DEF EnrichLink
<1>1. CASE DedupGet
  <2>1. /\ Take("dedup") /\ Upstream["dedup"] = "enrich"
        /\ pc["dedup"] = "get" /\ raised' = raised
    BY <1>1 DEF DedupGet, At, Upstream
  <2>2. /\ raised["dedup"] = "none" /\ queue["dedup"] \in Seq(Nat) /\ "get" \notin Busy
        /\ queue'["dedup"] = queue["dedup"]
    BY <2>1, AliveStage, QueueType, TakeMoves DEF Busy
  <2>3. CASE Arrival("dedup") # EOS
    <3>1. /\ hand'["dedup"] = Arrival("dedup") /\ pc'["dedup"] = "put" /\ "put" \in Busy
          /\ Arrival("dedup") \in Wanted
      BY <1>1, <2>1, <2>3, ArrivalKind DEF DedupGet, GoTo, TypeInv, TypeOK, TaskOK, HandOK, Busy
    <3>2. /\ Arrival("dedup") \in Nat /\ hand["dedup"] < Arrival("dedup")
          /\ \A r \in Wanted : hand["dedup"] < r => Arrival("dedup") <= r
      BY <1>0, <2>1, <2>3, <3>1, TakeLink
    <3>3. Fed(queue["dedup"], Wanted, lo, Arrival("dedup"), "put", "none")
      BY <2>1, <2>2, <3>1, <3>2, FedNext
    <3> QED BY <2>1, <2>2, <3>1, <3>3
  <2>4. CASE Arrival("dedup") = EOS
    <3>1. hand' = hand /\ pc'["dedup"] = "closing" /\ "closing" \notin Busy
      BY <1>1, <2>4 DEF DedupGet, GoTo, TypeInv, TypeOK, TaskOK, Busy
    <3> QED BY <2>1, <2>2, <3>1, FedMove
  <2> QED BY <2>3, <2>4
<1>2. CASE Pass("dedup")
  BY <1>2, PassLink
<1>3. CASE Close("dedup")
  <2>1. hand' = hand
    BY <1>3 DEF Close
  <2> QED BY <1>3, <2>1, CloseLink
<1>4. CASE Deliver("dedup") \/ ("dedup" \in DOMAIN PluginCall /\ Fault("dedup"))
  <2>1. hand' = hand
    BY <1>4, Unwinds
  <2> QED BY <1>4, <2>1, RaiseLink
<1> QED BY <1>1, <1>2, <1>3, <1>4 DEF StageStep, RunDedup

-----------------------------------------------------------------------------
(* persist: the rows, the batch and what is forwarded.                     *)

LEMMA IncreasingAppend ==
    ASSUME NEW q \in Seq(Nat), Increasing(q), NEW x \in Nat, \A y \in Range(q) : y < x
    PROVE  Increasing(Append(q, x))
<1>1. /\ Len(q) \in Nat /\ Len(Append(q, x)) = Len(q) + 1
      /\ \A i \in 1..Len(q) : Append(q, x)[i] = q[i] /\ q[i] \in Nat
      /\ Append(q, x)[Len(q) + 1] = x
  BY AppendAt
<1>2. \A i \in 1..Len(q) : q[i] < x
  BY RangeAt
<1> QED BY <1>1, <1>2 DEF Increasing

LEMMA IncreasingTail ==
    ASSUME NEW q \in Seq(Nat), Increasing(q), q # <<>>
    PROVE  Increasing(Tail(q)) /\ \A y \in Range(Tail(q)) : Head(q) < y
<1> DEFINE t == Tail(q)
<1>1. /\ t \in Seq(Nat) /\ Len(q) \in Nat /\ Len(t) = Len(q) - 1
      /\ Head(q) = q[1]
      /\ \A i \in 1..Len(t) : t[i] = q[i + 1] /\ i + 1 \in 1..Len(q) /\ 1 \in 1..Len(q)
  BY TailAt
<1>2. \A y \in Range(t) : \E i \in 1..Len(t) : t[i] = y
  BY <1>1, RangeAt
<1> HIDE DEF t
<1>3. \A i \in 1..Len(t) : Head(q) < t[i]
  <2>1. ASSUME NEW i \in 1..Len(t) PROVE 1 < i + 1
    OBVIOUS
  <2> QED BY <1>1, <2>1 DEF Increasing
<1>4. Increasing(t)
  <2>1. ASSUME NEW i \in 1..Len(t), NEW j \in 1..Len(t), i < j PROVE t[i] < t[j]
    <3>1. i + 1 < j + 1
      BY <2>1
    <3> QED BY <1>1, <3>1 DEF Increasing
  <2> QED BY <2>1 DEF Increasing
<1> QED BY <1>2, <1>3, <1>4 DEF t

LEMMA IncreasingConcat ==
    ASSUME NEW d \in Seq(Nat), NEW b \in Seq(Nat), Increasing(d), Increasing(b),
           \A y \in Range(d), z \in Range(b) : y < z
    PROVE  Increasing(d \o b) /\ Range(d \o b) = Range(d) \cup Range(b)
<1> DEFINE c == d \o b
<1>1. /\ Len(d) \in Nat /\ Len(b) \in Nat /\ Len(c) = Len(d) + Len(b) /\ c \in Seq(Nat)
      /\ \A i \in 1..Len(c) : c[i] = IF i <= Len(d) THEN d[i] ELSE b[i - Len(d)]
  BY ConcatProperties, LenProperties
<1>2. /\ \A i \in 1..Len(d) : d[i] \in Nat /\ d[i] \in Range(d)
      /\ \A i \in 1..Len(b) : b[i] \in Nat /\ b[i] \in Range(b)
  BY RangeAt
<1> HIDE DEF c
<1>3. \A i \in 1..Len(c) : /\ i <= Len(d) => i \in 1..Len(d) /\ c[i] = d[i]
                           /\ ~(i <= Len(d)) => i - Len(d) \in 1..Len(b) /\ c[i] = b[i - Len(d)]
  BY <1>1
<1>4. ASSUME NEW i \in 1..Len(c), NEW j \in 1..Len(c), i < j PROVE c[i] < c[j]
  <2>1. CASE j <= Len(d)
    <3>1. i <= Len(d)
      BY <1>1, <1>4, <2>1
    <3> QED BY <1>3, <1>4, <2>1, <3>1 DEF Increasing
  <2>2. CASE i <= Len(d) /\ ~(j <= Len(d))
    BY <1>2, <1>3, <2>2
  <2>3. CASE ~(i <= Len(d))
    <3>1. ~(j <= Len(d)) /\ i - Len(d) < j - Len(d)
      BY <1>1, <1>4, <2>3
    <3> QED BY <1>3, <2>3, <3>1 DEF Increasing
  <2> QED BY <2>1, <2>2, <2>3
<1>5. Range(c) = Range(d) \cup Range(b)
  BY RangeConcatenation DEF c
<1> QED BY <1>4, <1>5 DEF Increasing, c

\* A consumer may as well be further back, if there is nothing in between.
LEMMA FedBack ==
    ASSUME NEW q, NEW W \in SUBSET Nat, NEW lo \in Nat, NEW m \in Nat, NEW top, NEW loc,
           NEW exc, Fed(q, W, lo, top, loc, exc), m <= lo, Between(W, m, lo) = {}
    PROVE  Fed(q, W, m, top, loc, exc)
<1>1. ASSUME NEW hi \in Nat, Link(q, W, lo, hi) PROVE Link(q, W, m, hi)
  <2>1. lo <= hi /\ m <= hi
    BY <1>1 DEF Link
  <2>2. ASSUME NEW r \in W PROVE lo < r /\ r <= hi <=> m < r /\ r <= hi
    <3>1. ~(m < r /\ r <= lo)
      BY BetweenEmpty
    <3> QED BY <3>1
  <2>3. Between(W, lo, hi) = Between(W, m, hi)
    BY <2>2 DEF Between
  <2> QED BY <1>1, <2>1, <2>3 DEF Link
<1> QED BY <1>1 DEF Fed

\* A record joins the batch.
LEMMA BatchNext ==
    ASSUME NEW W \in SUBSET Nat, NEW b \in Seq(Nat), NEW m \in Nat, NEW lo \in Nat, m <= lo,
           Increasing(b), Range(b) = Between(W, m, lo),
           NEW x \in W, lo < x, \A r \in W : lo < r => x <= r
    PROVE  /\ Increasing(Append(b, x)) /\ m <= x
           /\ Range(Append(b, x)) = Between(W, m, x)
<1>1. ASSUME NEW y \in Range(b) PROVE y < x
  <2>1. y \in W /\ y <= lo
    BY <1>1, BetweenIs
  <2> QED BY <2>1
<1>2. Increasing(Append(b, x))
  BY <1>1, IncreasingAppend
<1>3. Range(Append(b, x)) = Range(b) \cup {x}
  BY AppendAt
<1>4. ASSUME NEW r \in W PROVE (m < r /\ r <= lo) \/ r = x <=> m < r /\ r <= x
  OBVIOUS
<1>5. ASSUME NEW r PROVE r \in Range(Append(b, x)) <=> r \in Between(W, m, x)
  <2>1. /\ r \in Range(b) <=> r \in W /\ m < r /\ r <= lo
        /\ r \in Between(W, m, x) <=> r \in W /\ m < r /\ r <= x
    BY BetweenIs
  <2> QED BY <1>3, <1>4, <2>1
<1>6. Range(Append(b, x)) = Between(W, m, x)
  BY <1>5
<1> QED BY <1>2, <1>6

\* The batch is committed behind the rows.
LEMMA CommitRows ==
    ASSUME NEW W \in SUBSET Nat, NEW d \in Seq(Nat), NEW b \in Seq(Nat), NEW m \in Nat,
           NEW lo \in Nat, m <= lo, Increasing(d), Range(d) = UpTo(W, m),
           Increasing(b), Range(b) = Between(W, m, lo)
    PROVE  Increasing(d \o b) /\ Range(d \o b) = UpTo(W, lo)
<1>1. ASSUME NEW y \in Range(d), NEW z \in Range(b) PROVE y < z
  <2>1. y \in W /\ y <= m /\ z \in W /\ m < z
    BY BetweenIs DEF UpTo
  <2> QED BY <2>1
<1>2. Increasing(d \o b) /\ Range(d \o b) = Range(d) \cup Range(b)
  BY <1>1, IncreasingConcat
<1>3. ASSUME NEW r \in W PROVE r <= m \/ (m < r /\ r <= lo) <=> r <= lo
  OBVIOUS
<1> QED BY <1>2, <1>3 DEF Between, UpTo

\* The first record of the batch is forwarded.
LEMMA ForwardNext ==
    ASSUME NEW W \in SUBSET Nat, EOS \notin W, NEW b \in Seq(Nat), b # <<>>, Increasing(b),
           NEW m \in Nat, NEW hi \in Nat, Range(b) = Between(W, hi, m),
           NEW q \in Seq(Nat), EOS \notin Range(q), NEW h \in Nat, Link(q, W, h, hi)
    PROVE  /\ Head(b) \in Nat /\ Head(b) <= m
           /\ Link(Append(q, Head(b)), W, h, Head(b))
           /\ Increasing(Tail(b)) /\ Range(Tail(b)) = Between(W, Head(b), m)
<1> DEFINE x == Head(b)
<1>1. Range(b) = Range(Tail(b)) \cup {x} /\ x \in Nat
  BY TailAt
<1>2. Increasing(Tail(b)) /\ \A y \in Range(Tail(b)) : x < y
  BY IncreasingTail
<1> HIDE DEF x
<1>3. x \in W /\ hi < x /\ x <= m /\ x \in Nat \ {0} /\ x - 1 \in Nat /\ hi <= x - 1
  <2>1. x \in Between(W, hi, m)
    BY <1>1
  <2>2. x \in W /\ hi < x /\ x <= m
    BY <2>1, BetweenIs
  <2> QED BY <1>1, <2>2
<1>4. ASSUME NEW r \in W PROVE ~(hi < r /\ r <= x - 1)
  <2>1. SUFFICES ASSUME hi < r, r <= x - 1 PROVE FALSE
    OBVIOUS
  <2>2. r \in Range(b)
    BY <1>3, <2>1 DEF Between
  <2> QED BY <1>1, <1>2, <1>3, <2>1, <2>2
<1>5. Between(W, hi, x - 1) = {}
  BY <1>4, BetweenEmpty, Zenon
<1>6. Link(q, W, h, x - 1)
  BY <1>3, <1>5, LinkUpTo
<1>7. Link(Append(q, x), W, h, x)
  BY <1>3, <1>6, LinkPut
<1>8. Range(Tail(b)) = Between(W, x, m)
  <2>1. ASSUME NEW r \in W PROVE r \in Range(Tail(b)) <=> x < r /\ r <= m
    <3>1. r \in Range(b) <=> hi < r /\ r <= m
      BY DEF Between
    <3> QED BY <1>1, <1>2, <1>3, <3>1
  <2>2. Range(Tail(b)) \subseteq W
    BY <1>1 DEF Between
  <2> QED BY <2>1, <2>2 DEF Between
<1> QED BY <1>2, <1>3, <1>7, <1>8 DEF x

\* The batch and the rows are sequences of numbers.
LEMMA BatchTypes ==
    ASSUME TypeInv
    PROVE  batch \in Seq(Nat) /\ db \in Seq(Nat)
<1>1. batch \in Seq(Records) /\ db \in Seq(Records) /\ Records \subseteq Nat
  BY KindsType DEF TypeInv, TypeOK, BatchOK
<1> QED BY <1>1, SeqMonotonic

LEMMA PersistGetFlow ==
    ASSUME TypeInv, SentinelInv, GroupInv, KindInv, PersistLine, PersistGet
    PROVE  PersistLine'
<1> USE StageTypes
<1>0. /\ pc["persist"] = "get" /\ Take("persist") /\ Upstream["persist"] = "dedup"
      /\ UNCHANGED <<hand, raised, db>> /\ batch \in Seq(Nat)
      /\ pc \in [Stages -> Locations]
  BY BatchTypes DEF PersistGet, At, Upstream, TypeInv, TypeOK, TaskOK
<1>1. raised["persist"] = "none" /\ queue'["persist"] = queue["persist"]
  BY <1>0, AliveStage, TakeMoves
<1>2. pc'["dedup"] = pc["dedup"]
  BY <1>0 DEF PersistGet, GoTo
<1>3. PICK m \in Nat, hi \in Nat, lo \in Nat :
         /\ Increasing(db) /\ Range(db) = UpTo(Wanted, m)
         /\ hi <= m /\ Link(queue["persist"], Wanted, hand["publish"], hi)
         /\ m <= lo /\ Increasing(batch)
         /\ Between(Wanted, hi, m) = {} /\ Range(batch) = Between(Wanted, m, lo)
         /\ Fed(queue["dedup"], Wanted, lo, hand["dedup"], pc["dedup"], raised["dedup"])
  BY <1>0, <1>1 DEF PersistLine, Line
<1> DEFINE x == Arrival("persist")
<1>4. /\ x \in Nat
      /\ x \in Wanted => /\ lo < x
                         /\ Fed(queue'["dedup"], Wanted, x, hand["dedup"], pc["dedup"], raised["dedup"])
      /\ x \notin Wanted => Fed(queue'["dedup"], Wanted, lo, hand["dedup"], pc["dedup"], raised["dedup"])
      /\ x # EOS => \A r \in Wanted : lo < r => x <= r
  BY <1>0, <1>3, TakeLink
<1>5. x \in Wanted \cup {EOS}
  BY <1>0, ArrivalKind
<1> SUFFICES Line(queue'["dedup"], hand["dedup"], pc["dedup"], raised["dedup"], db, batch',
                  pc'["persist"], raised["persist"], queue["persist"], hand["publish"])
  BY <1>0, <1>1, <1>2 DEF PersistLine, Line, Wanted
<1>6. CASE x # EOS
  <2>1. batch' = Append(batch, x) /\ pc'["persist"] \in {"get", "commit"}
    BY <1>0, <1>6 DEF PersistGet, GoTo, FlushStart
  <2>2. Increasing(batch') /\ m <= x /\ Range(batch') = Between(Wanted, m, x)
    <3>1. x \in Wanted /\ lo < x /\ \A r \in Wanted : lo < r => x <= r
      BY <1>4, <1>5, <1>6
    <3> HIDE DEF x
    <3>2. batch \in Seq(Nat) /\ Wanted \in SUBSET Nat
      BY <1>0
    <3>3. m <= lo /\ Increasing(batch) /\ Range(batch) = Between(Wanted, m, lo)
      BY <1>3
    <3>4. /\ Increasing(Append(batch, x)) /\ m <= x
          /\ Range(Append(batch, x)) = Between(Wanted, m, x)
      BY ONLY <3>1, <3>2, <3>3, BatchNext, m \in Nat, lo \in Nat
    <3> QED BY <2>1, <3>4
  <2>3. Fed(queue'["dedup"], Wanted, x, hand["dedup"], pc["dedup"], raised["dedup"])
    BY <1>4, <1>5, <1>6
  <2> HIDE DEF x
  <2> QED BY <1>3, <1>4, <2>1, <2>2, <2>3 DEF Line
<1>7. CASE x = EOS
  <2>1. /\ batch' = batch /\ pc'["persist"] = IF batch = <<>> THEN "closing" ELSE "commit"
    BY <1>0, <1>7 DEF PersistGet, GoTo, FlushStart, FinalFlush
  <2>2. Fed(queue'["dedup"], Wanted, lo, hand["dedup"], pc["dedup"], raised["dedup"])
    BY <1>4, <1>7
  <2>3. CASE batch = <<>>
    <3>1. Range(batch) = {}
      BY <2>3, RangeEmpty
    <3>2. Fed(queue'["dedup"], Wanted, m, hand["dedup"], pc["dedup"], raised["dedup"])
      BY <1>3, <2>2, <3>1, FedBack
    <3>3. pc'["persist"] \notin {"get", "commit"} /\ batch' = batch
      BY <2>1, <2>3
    <3>4. Range(batch') = Between(Wanted, hi, m) /\ Increasing(batch') /\ m <= m
      BY <1>3, <3>1, <3>3
    <3> QED BY <1>3, <3>2, <3>3, <3>4 DEF Line
  <2>4. CASE batch # <<>>
    BY <1>3, <2>1, <2>2, <2>4 DEF Line
  <2> QED BY <2>3, <2>4
<1> QED BY <1>6, <1>7

\* A commit, also one whose answer is lost.
LEMMA CommitFlow ==
    ASSUME TypeInv, GroupInv, PersistLine, pc["persist"] = "commit"
    PROVE  \E m \in Nat, hi \in Nat :
              /\ Increasing(db \o batch) /\ Range(db \o batch) = UpTo(Wanted, m)
              /\ hi <= m /\ Link(queue["persist"], Wanted, hand["publish"], hi)
              /\ Increasing(batch) /\ Range(batch) = Between(Wanted, hi, m)
              /\ Fed(queue["dedup"], Wanted, m, hand["dedup"], pc["dedup"], raised["dedup"])
<1> USE StageTypes
<1>1. raised["persist"] = "none" /\ batch \in Seq(Nat) /\ db \in Seq(Nat)
  BY AliveStage, BatchTypes
<1>2. PICK m \in Nat, hi \in Nat, lo \in Nat :
         /\ Increasing(db) /\ Range(db) = UpTo(Wanted, m)
         /\ hi <= m /\ Link(queue["persist"], Wanted, hand["publish"], hi)
         /\ m <= lo /\ Increasing(batch)
         /\ Between(Wanted, hi, m) = {} /\ Range(batch) = Between(Wanted, m, lo)
         /\ Fed(queue["dedup"], Wanted, lo, hand["dedup"], pc["dedup"], raised["dedup"])
  BY <1>1 DEF PersistLine, Line
<1>3. Increasing(db \o batch) /\ Range(db \o batch) = UpTo(Wanted, lo)
  BY <1>1, <1>2, CommitRows
<1>4. Between(Wanted, hi, lo) = Between(Wanted, m, lo)
  <2>1. ASSUME NEW r \in Wanted PROVE hi < r /\ r <= lo <=> m < r /\ r <= lo
    <3>1. ~(hi < r /\ r <= m)
      BY <1>2, BetweenEmpty
    <3> QED BY <1>2, <3>1
  <2> QED BY <2>1 DEF Between
<1>5. hi <= lo
  BY <1>2
<1> QED BY <1>2, <1>3, <1>4, <1>5

LEMMA PersistCommitFlow ==
    ASSUME TypeInv, GroupInv, PersistLine, PersistCommit
    PROVE  PersistLine'
<1> USE StageTypes
<1>0. /\ pc["persist"] = "commit" /\ UNCHANGED <<hand, queue, batch>>
      /\ pc \in [Stages -> Locations]
      /\ DOMAIN raised = Stages /\ raised = [t \in Stages |-> raised[t]]
  BY DEF PersistCommit, At, TypeInv, TypeOK, TaskOK
<1>1. /\ pc'["dedup"] = pc["dedup"] /\ raised'["dedup"] = raised["dedup"]
  BY <1>0 DEF PersistCommit, GoTo, Raise
<1> SUFFICES Line(queue["dedup"], hand["dedup"], pc["dedup"], raised["dedup"], db', batch,
                  pc'["persist"], raised'["persist"], queue["persist"], hand["publish"])
  BY <1>0, <1>1 DEF PersistLine, Line, Wanted
<1>2. CASE Acceptable(batch)
  <2>1. db' = db \o batch /\ pc'["persist"] = "forward"
    BY <1>0, <1>2 DEF PersistCommit, GoTo
  <2> QED BY <1>0, <2>1, CommitFlow DEF Line
<1>3. CASE ~Acceptable(batch)
  <2>1. db' = db /\ raised'["persist"] = "other"
    BY <1>0, <1>3 DEF PersistCommit, Raise
  <2> QED BY <2>1 DEF PersistLine, Line
<1> QED BY <1>2, <1>3

LEMMA PersistForwardFlow ==
    ASSUME TypeInv, SentinelInv, GroupInv, PersistLine, PersistForward
    PROVE  PersistLine'
<1> USE StageTypes
<1>0. /\ pc["persist"] = "forward" /\ UNCHANGED <<hand, db, raised>> /\ batch' = Tail(batch)
      /\ pc \in [Stages -> Locations]
      /\ batch \in Seq(Nat) /\ batch # <<>>
  BY BatchTypes DEF PersistForward, At, TypeInv, TypeOK, TaskOK, LocationInv
<1>1. /\ pc'["dedup"] = pc["dedup"] /\ queue'["dedup"] = queue["dedup"]
      /\ queue'["persist"] = Append(queue["persist"], Head(batch))
      /\ pc'["persist"] = "get" => ~(Len(batch) > 1)
      /\ pc'["persist"] \in {"get", "forward", "closing"}
  BY <1>0, PutMoves DEF PersistForward, GoTo, Put, TypeInv, TypeOK, QueueOK
<1>2. /\ raised["persist"] = "none"
      /\ EOS \notin Range(queue["persist"]) /\ queue["persist"] \in Seq(Nat)
  BY <1>0, AliveStage, OpenQueue
<1>3. PICK m \in Nat, hi \in Nat :
         /\ Increasing(db) /\ Range(db) = UpTo(Wanted, m)
         /\ hi <= m /\ Link(queue["persist"], Wanted, hand["publish"], hi)
         /\ Increasing(batch) /\ Range(batch) = Between(Wanted, hi, m)
         /\ Fed(queue["dedup"], Wanted, m, hand["dedup"], pc["dedup"], raised["dedup"])
  BY <1>0, <1>2 DEF PersistLine, Line
<1> DEFINE x == Head(batch)
<1>4. /\ x \in Nat /\ x <= m
      /\ Link(queue'["persist"], Wanted, hand["publish"], x)
      /\ Increasing(batch') /\ Range(batch') = Between(Wanted, x, m)
  <2>1. /\ Head(batch) \in Nat /\ Head(batch) <= m
        /\ Link(Append(queue["persist"], Head(batch)), Wanted, hand["publish"], Head(batch))
        /\ Increasing(Tail(batch)) /\ Range(Tail(batch)) = Between(Wanted, Head(batch), m)
    BY <1>0, <1>2, <1>3, ForwardNext
  <2> QED BY <1>0, <1>1, <2>1
<1>5. pc'["persist"] = "get" => Range(batch') = {}
  <2>1. Len(batch') = Len(batch) - 1 /\ batch' \in Seq(Nat) /\ Len(batch) \in Nat
    BY <1>0, TailAt
  <2>2. pc'["persist"] = "get" => batch' = <<>>
    BY <1>0, <1>1, <2>1, TailAt, EmptySeq
  <2> QED BY <2>2, RangeEmpty
<1>6. Between(Wanted, m, m) = {}
  <2>1. \A r \in Wanted : ~(m < r /\ r <= m)
    OBVIOUS
  <2> QED BY <2>1, BetweenEmpty, Zenon
<1> HIDE DEF x
<1>7. Line(queue["dedup"], hand["dedup"], pc["dedup"], raised["dedup"], db, batch',
           pc'["persist"], raised["persist"], queue'["persist"], hand["publish"])
  <2>1. CASE pc'["persist"] = "get"
    <3>1. Between(Wanted, x, m) = {} /\ Range(batch') = Between(Wanted, m, m)
      BY <1>4, <1>5, <1>6, <2>1
    <3> QED BY <1>3, <1>4, <2>1, <3>1 DEF Line
  <2>2. CASE pc'["persist"] \notin {"get", "commit"}
    BY <1>3, <1>4, <2>2 DEF Line
  <2> QED BY <1>1, <2>1, <2>2
<1> QED BY <1>0, <1>1, <1>7 DEF PersistLine, Line, Wanted

LEMMA PersistFlow ==
    ASSUME TypeInv, SentinelInv, GroupInv, KindInv, PersistLine, StageStep("persist")
    PROVE  PersistLine'
<1> USE StageTypes
<1>1. CASE PersistGet \/ PersistCommit \/ PersistForward
  BY <1>1, PersistGetFlow, PersistCommitFlow, PersistForwardFlow
<1>2. CASE Close("persist")
  <2>0. /\ UNCHANGED <<hand, db, batch, raised>> /\ pc["persist"] = "closing"
        /\ pc'["persist"] = "done" /\ pc'["dedup"] = pc["dedup"]
        /\ queue'["dedup"] = queue["dedup"]
        /\ queue'["persist"] = Append(queue["persist"], EOS)
    BY <1>2, PutMoves DEF Close, At, GoTo, Put, TypeInv, TypeOK, TaskOK, QueueOK
  <2>1. EOS \notin Range(queue["persist"]) /\ queue["persist"] \in Seq(Nat)
    BY <2>0, OpenQueue
  <2>2. \A hi \in Nat : Link(queue["persist"], Wanted, hand["publish"], hi)
                           => Link(queue'["persist"], Wanted, hand["publish"], hi)
    BY <2>0, <2>1, LinkClose
  <2>3. Line(queue["dedup"], hand["dedup"], pc["dedup"], raised["dedup"], db, batch,
             "done", raised["persist"], queue'["persist"], hand["publish"])
    BY <2>0, <2>2 DEF PersistLine, Line
  <2> QED BY <2>0, <2>3 DEF PersistLine, Line, Wanted
<1>3. CASE Deliver("persist") \/ ("persist" \in DOMAIN PluginCall /\ Fault("persist"))
  <2>0. UNCHANGED <<hand, batch, queue>> /\ raised'["persist"] # "none"
    BY <1>3, Unwinds
  <2>1. db' = db \/ (db' = db \o batch /\ pc["persist"] = "commit")
    BY <1>3 DEF Deliver, Fault, SideEffect
  <2>2. \E m, hi \in Nat :
           /\ Increasing(db') /\ Range(db') = UpTo(Wanted, m)
           /\ hi <= m /\ Link(queue["persist"], Wanted, hand["publish"], hi)
    <3>1. CASE db' = db
      BY <3>1 DEF PersistLine, Line
    <3>2. CASE db' = db \o batch /\ pc["persist"] = "commit"
      BY <3>2, CommitFlow
    <3> QED BY <2>1, <3>1, <3>2
  <2>3. Line(queue["dedup"], hand["dedup"], pc'["dedup"], raised'["dedup"], db', batch,
             pc'["persist"], raised'["persist"], queue["persist"], hand["publish"])
    BY <2>0, <2>2 DEF Line
  <2> QED BY <2>0, <2>3 DEF PersistLine, Line, Wanted
<1> QED BY <1>1, <1>2, <1>3 DEF StageStep, RunPersist

\* What publish takes is a record behind the one it took last, or the sentinel.
LEMMA PublishTakes ==
    ASSUME TypeInv, FenceInv, PersistLine, Take("publish"),
           NEW hi \in Nat, Link(queue["persist"], Wanted, hand["publish"], hi)
    PROVE  /\ Arrival("publish") \in Wanted \cup {EOS}
           /\ Arrival("publish") = EOS =>
                 /\ Link(queue'["persist"], Wanted, hand["publish"], hi)
                 /\ queue'["persist"] = <<>>
           /\ Arrival("publish") # EOS =>
                 /\ Link(queue'["persist"], Wanted, Arrival("publish"), hi)
                 /\ hand["publish"] < Arrival("publish")
                 /\ \A r \in Wanted : hand["publish"] < r => Arrival("publish") <= r
<1> USE StageTypes
<1>1. /\ queue["persist"] # <<>> /\ queue'["persist"] = Tail(queue["persist"])
      /\ Arrival("publish") = Head(queue["persist"])
  BY TakeMoves DEF Upstream
<1>2. queue["persist"] \in Seq(Nat)
  BY QueueType
<1>3. Arrival("publish") \in Wanted \cup {EOS}
  <2>1. Range(queue["persist"]) \subseteq Stored \cup {EOS}
    BY DEF FenceInv, DurabilityFence
  <2>2. Stored \subseteq Wanted
    BY DEF PersistLine, Line, Stored, UpTo
  <2>3. Head(queue["persist"]) \in Range(queue["persist"])
    BY <1>1, <1>2, TailAt
  <2> QED BY <1>1, <2>1, <2>2, <2>3
<1>4. /\ Head(queue["persist"]) \in Wanted => /\ hand["publish"] < Head(queue["persist"])
                                              /\ Link(Tail(queue["persist"]), Wanted, Head(queue["persist"]), hi)
      /\ Head(queue["persist"]) \notin Wanted => Link(Tail(queue["persist"]), Wanted, hand["publish"], hi)
      /\ Head(queue["persist"]) = EOS => Tail(queue["persist"]) = <<>>
      /\ Head(queue["persist"]) # EOS => \A r \in Wanted : hand["publish"] < r => Head(queue["persist"]) <= r
  BY <1>1, <1>2, LinkTake
<1> QED BY <1>1, <1>3, <1>4

LEMMA PublishFlow ==
    ASSUME TypeInv, FenceInv, PersistLine, StageStep("publish")
    PROVE  PersistLine'
<1> USE StageTypes
<1>0. /\ hand'["dedup"] = hand["dedup"] /\ pc'["dedup"] = pc["dedup"]
      /\ raised'["dedup"] = raised["dedup"] /\ pc'["persist"] = pc["persist"]
      /\ raised'["persist"] = raised["persist"] /\ UNCHANGED <<db, batch>>
      /\ queue'["dedup"] = queue["dedup"]
  BY StageFrame DEF Upstream
<1>1. \A hi \in Nat : Link(queue["persist"], Wanted, hand["publish"], hi)
                         => Link(queue'["persist"], Wanted, hand'["publish"], hi)
  <2>1. CASE PublishGet
    <3>1. Take("publish")
      BY <2>1 DEF PublishGet
    <3>2. /\ Arrival("publish") = EOS => hand' = hand
          /\ Arrival("publish") # EOS => hand'["publish"] = Arrival("publish")
      BY <2>1 DEF PublishGet, TypeInv, TypeOK, HandOK
    <3> QED BY <3>1, <3>2, PublishTakes
  <2>2. CASE ~PublishGet
    <3>1. UNCHANGED <<hand, queue>>
      BY <2>2, Unwinds DEF StageStep, RunPublish, PublishOffer, PublishOffered, PublishSend
    <3> QED BY <3>1
  <2> QED BY <2>1, <2>2
<1>2. Line(queue["dedup"], hand["dedup"], pc["dedup"], raised["dedup"], db, batch,
           pc["persist"], raised["persist"], queue'["persist"], hand'["publish"])
  BY <1>1 DEF PersistLine, Line
<1> QED BY <1>0, <1>2 DEF PersistLine, Line, Wanted

LEMMA DedupFlow ==
    ASSUME TypeInv, SentinelInv, GroupInv, KindInv, EnrichLink, PersistLine, StageStep("dedup")
    PROVE  PersistLine'
<1> USE StageTypes
<1>0. /\ hand'["publish"] = hand["publish"] /\ pc'["persist"] = pc["persist"]
      /\ raised'["persist"] = raised["persist"] /\ UNCHANGED <<db, batch>>
      /\ queue'["persist"] = queue["persist"]
  BY StageFrame DEF Upstream
<1>1. \A lo \in Nat :
         Fed(queue["dedup"], Wanted, lo, hand["dedup"], pc["dedup"], raised["dedup"])
            => Fed(queue'["dedup"], Wanted, lo, hand'["dedup"], pc'["dedup"], raised'["dedup"])
  BY DedupFed
<1>2. Line(queue'["dedup"], hand'["dedup"], pc'["dedup"], raised'["dedup"], db, batch,
           pc["persist"], raised["persist"], queue["persist"], hand["publish"])
  BY <1>1 DEF PersistLine, Line
<1> QED BY <1>0, <1>2 DEF PersistLine, Line, Wanted

-----------------------------------------------------------------------------
(* The links hold in every state.                                          *)

LEMMA InitFlowInv == Init => FlowInv
<1> SUFFICES ASSUME Init PROVE FlowInv
  OBVIOUS
<1>1. /\ \A u \in {"fetch", "parse", "normalize", "enrich", "dedup", "persist"} :
            queue[u] = <<>> /\ pc[u] \notin {"work", "put", "commit"}
      /\ \A s \in Stages : hand[s] = 0
      /\ emitted = 0 /\ batch = <<>> /\ db = <<>>
      /\ pc["persist"] = "get"
  BY DEF Init, Producers, Stages
<1>2. Len(<<>>) = 0 /\ Range(<<>>) = {}
  BY RangeEmpty, EmptySeq
<1>3. ASSUME NEW W \in SUBSET Nat PROVE Between(W, 0, 0) = {}
  <2>1. \A r \in W : ~(0 < r /\ r <= 0)
    OBVIOUS
  <2> QED BY <2>1, BetweenEmpty, Zenon
<1>4. ASSUME NEW W \in SUBSET Nat PROVE Link(<<>>, W, 0, 0)
  BY <1>2, <1>3 DEF Link, Ordered
<1>5. ASSUME NEW W \in SUBSET Nat, NEW loc, loc \notin {"work", "put"}, NEW exc
      PROVE  Fed(<<>>, W, 0, 0, loc, exc)
  BY <1>4, <1>5 DEF Fed
<1>6. Wanted \in SUBSET Nat /\ Passing \in SUBSET Nat /\ 1..NumPayloads \in SUBSET Nat
  BY KindsType
<1>7. FetchLink /\ ParseLink /\ NormalizeLink /\ EnrichLink
  BY <1>1, <1>5, <1>6 DEF FetchLink, ParseLink, NormalizeLink, EnrichLink, Stages
<1>8. PersistLine
  <2>1. Increasing(<<>>) /\ UpTo(Wanted, 0) = {} /\ Range(<<>>) = {}
    <3>1. \A r \in Wanted : ~(r <= 0)
      BY KindsType
    <3>2. UpTo(Wanted, 0) = {}
      BY <3>1 DEF UpTo
    <3>3. Increasing(<<>>)
      BY <1>2 DEF Increasing
    <3> QED BY <1>2, <3>2, <3>3
  <2>2. /\ Link(<<>>, Wanted, 0, 0) /\ Between(Wanted, 0, 0) = {}
        /\ Fed(<<>>, Wanted, 0, 0, pc["dedup"], raised["dedup"])
    BY <1>1, <1>3, <1>4, <1>5, <1>6
  <2>3. Line(<<>>, 0, pc["dedup"], raised["dedup"], <<>>, <<>>, "get", raised["persist"], <<>>, 0)
    <3> DEFINE z == 0
    <3>1. z \in Nat /\ z <= z
      OBVIOUS
    <3>2. /\ Increasing(<<>>) /\ Range(<<>>) = UpTo(Wanted, z)
          /\ Link(<<>>, Wanted, z, z)
          /\ Between(Wanted, z, z) = {} /\ Range(<<>>) = Between(Wanted, z, z)
          /\ Fed(<<>>, Wanted, z, z, pc["dedup"], raised["dedup"])
      BY <2>1, <2>2
    <3> HIDE DEF z
    <3>3. Line(<<>>, z, pc["dedup"], raised["dedup"], <<>>, <<>>, "get", raised["persist"], <<>>, z)
      BY ONLY <3>1, <3>2 DEF Line
    <3> QED BY <3>3 DEF z
  <2> QED BY <1>1, <2>3 DEF PersistLine, Stages
<1> QED BY <1>7, <1>8 DEF FlowInv

LEMMA StepFlowInv ==
    ASSUME TypeInv, FenceInv, SentinelInv, GroupInv, KindInv, FlowInv, [Next]_vars
    PROVE  FlowInv'
<1> USE StageTypes
<1>1. CASE GroupStep
  <2>1. UNCHANGED <<pc, queue, hand, emitted, batch, raised, db>>
    BY <1>1 DEF GroupStep, Abort, CancelRun, Finish, vars
  <2> QED BY <2>1 DEF FlowInv, FetchLink, ParseLink, NormalizeLink, EnrichLink, PersistLine
<1>2. ASSUME NEW s \in Stages, StageStep(s) PROVE FlowInv'
  <2>0. /\ \A t \in Stages \ {s} : pc'[t] = pc[t] /\ hand'[t] = hand[t] /\ raised'[t] = raised[t]
        /\ s # "parse" => UNCHANGED emitted
        /\ s # "persist" => UNCHANGED <<db, batch>>
        /\ s \notin {"fetch", "parse"} => queue'["fetch"] = queue["fetch"]
        /\ s \notin {"parse", "normalize"} => queue'["parse"] = queue["parse"]
        /\ s \notin {"normalize", "enrich"} => queue'["normalize"] = queue["normalize"]
        /\ s \notin {"enrich", "dedup"} => queue'["enrich"] = queue["enrich"]
        /\ s \notin {"dedup", "persist"} => queue'["dedup"] = queue["dedup"]
        /\ s \notin {"persist", "publish"} => queue'["persist"] = queue["persist"]
    BY <1>2, StageFrame DEF Upstream
  <2>1. FetchLink'
    <3>1. CASE s \in {"fetch", "parse"}
      BY <1>2, <3>1, FetchFlow DEF FlowInv
    <3>2. CASE s \notin {"fetch", "parse"}
      BY <2>0, <3>2 DEF FlowInv, FetchLink
    <3> QED BY <3>1, <3>2
  <2>2. ParseLink'
    <3>1. CASE s \in {"parse", "normalize"}
      BY <1>2, <3>1, ParseFlow DEF FlowInv
    <3>2. CASE s \notin {"parse", "normalize"}
      BY <2>0, <3>2 DEF FlowInv, ParseLink, Passing
    <3> QED BY <3>1, <3>2
  <2>3. NormalizeLink'
    <3>1. CASE s \in {"normalize", "enrich"}
      BY <1>2, <3>1, NormalizeFlow DEF FlowInv
    <3>2. CASE s \notin {"normalize", "enrich"}
      BY <2>0, <3>2 DEF FlowInv, NormalizeLink, Passing
    <3> QED BY <3>1, <3>2
  <2>4. EnrichLink'
    <3>1. CASE s \in {"enrich", "dedup"}
      BY <1>2, <3>1, EnrichFlow DEF FlowInv
    <3>2. CASE s \notin {"enrich", "dedup"}
      BY <2>0, <3>2 DEF FlowInv, EnrichLink, Wanted
    <3> QED BY <3>1, <3>2
  <2>5. PersistLine'
    <3>1. CASE s = "dedup"
      BY <1>2, <3>1, DedupFlow DEF FlowInv
    <3>2. CASE s = "persist"
      BY <1>2, <3>2, PersistFlow DEF FlowInv
    <3>3. CASE s = "publish"
      BY <1>2, <3>3, PublishFlow DEF FlowInv
    <3>4. CASE s \notin {"dedup", "persist", "publish"}
      <4>1. PersistLine
        BY DEF FlowInv
      <4>2. /\ pc'["dedup"] = pc["dedup"] /\ raised'["dedup"] = raised["dedup"]
            /\ hand'["dedup"] = hand["dedup"] /\ hand'["publish"] = hand["publish"]
            /\ pc'["persist"] = pc["persist"] /\ raised'["persist"] = raised["persist"]
            /\ queue'["dedup"] = queue["dedup"] /\ queue'["persist"] = queue["persist"]
            /\ UNCHANGED <<db, batch>>
        BY <2>0, <3>4
      <4> QED BY ONLY <4>1, <4>2 DEF PersistLine
    <3> QED BY <3>1, <3>2, <3>3, <3>4
  <2> QED BY <2>1, <2>2, <2>3, <2>4, <2>5 DEF FlowInv
<1> QED BY <1>1, <1>2, NextSplit

-----------------------------------------------------------------------------
(* What is stored, in order and without a loss.                            *)

OrderInv == TypeInv /\ FenceInv /\ SentinelInv /\ GroupInv /\ KindInv /\ FlowInv

LEMMA InitOrderInv == Init => OrderInv
BY InitTypeInv, InitFenceInv, InitKindInv, InitGroupInv, InitFlowInv DEF OrderInv

LEMMA StepOrderInv ==
    ASSUME OrderInv, [Next]_vars
    PROVE  OrderInv'
BY NextTypeInv, NextFenceInv, StepSentinelInv, StepGroupInv, StepKindInv, StepFlowInv
   DEF OrderInv

\* The rows a run leaves behind are wanted records, each once and in feed
\* order, whatever fails, is cancelled or times out on the way.
THEOREM RowsInOrder == Spec => []PersistInOrder
<1>1. OrderInv /\ [Next]_vars => OrderInv'
  BY StepOrderInv
<1>2. OrderInv => PersistInOrder
  BY DEF OrderInv, FlowInv, PersistLine, Line, Increasing, UpTo, PersistInOrder, Stored
<1> QED BY InitOrderInv, <1>1, <1>2, PTL DEF Spec

\* A stage from which nothing is to come stays so.
LEMMA DrainedStays ==
    ASSUME TypeInv, KindInv, NEW s \in Stages, StageStep(s), NEW u \in Producers, Drained(u)
    PROVE  pc'[u] = "done" /\ queue'[u] = <<>>
<1>1. u # s /\ pc[u] = "done" /\ queue[u] = <<>> /\ u \in Stages
  BY DoneStays DEF Drained, Producers
<1>2. pc'[u] = pc[u] /\ (s = "fetch" \/ u # Upstream[s] => queue'[u] = queue[u])
  BY <1>1, StageFrame
<1>3. s # "fetch" /\ u = Upstream[s] => queue'[u] = queue[u]
  BY <1>1, QueueMoves
<1> QED BY <1>1, <1>2, <1>3

\* A stage that gets the sentinel leaves nothing behind it.
LEMMA EosDrains ==
    ASSUME OrderInv, NEW s \in Stages \ {"fetch"}, StageStep(s), Take(s), pc[s] = "get",
           Arrival(s) = EOS
    PROVE  pc'[Upstream[s]] = "done" /\ queue'[Upstream[s]] = <<>>
<1> USE StageTypes DEF OrderInv
<1> DEFINE u == Upstream[s]
<1>1. /\ queue[u] # <<>> /\ Arrival(s) = Head(queue[u])
      /\ u \in Producers /\ u # s /\ u \in Stages
  BY TakeMoves DEF Producers
<1>2. EOS \in Range(queue[u])
  <2>1. queue[u] \in Seq(Nat)
    BY <1>1, QueueType
  <2> QED BY <1>1, <2>1, TailAt
<1>3. pc[u] = "done" /\ pc'[u] = pc[u]
  BY <1>1, <1>2, StageFrame DEF SentinelInv
<1>4. queue'[u] = <<>>
  <2>1. CASE s = "parse"
    BY <2>1, TakeLink DEF FlowInv, FetchLink, Upstream
  <2>2. CASE s = "normalize"
    BY <2>2, TakeLink DEF FlowInv, ParseLink, Upstream
  <2>3. CASE s = "enrich"
    BY <2>3, TakeLink DEF FlowInv, NormalizeLink, Upstream
  <2>4. CASE s = "dedup"
    BY <2>4, TakeLink DEF FlowInv, EnrichLink, Upstream
  <2>5. CASE s = "persist"
    <3>1. raised["persist"] = "none"
      BY <2>5, AliveStage
    <3>2. PICK lo \in Nat : Fed(queue["dedup"], Wanted, lo, hand["dedup"], pc["dedup"], raised["dedup"])
      BY <3>1 DEF FlowInv, PersistLine, Line
    <3> QED BY <2>5, <3>2, TakeLink DEF Upstream
  <2>6. CASE s = "publish"
    <3>1. PICK hi \in Nat : Link(queue["persist"], Wanted, hand["publish"], hi)
      BY DEF FlowInv, PersistLine, Line
    <3> QED BY <2>6, <3>1, PublishTakes DEF FlowInv, Upstream
  <2> QED BY <2>1, <2>2, <2>3, <2>4, <2>5, <2>6
<1> QED BY <1>3, <1>4

LEMMA InitEndsInv == Init => EndsInv
BY FeedAssumption, SizeAssumption DEF Init, EndsInv, Stages

\* fetch and parse.
LEMMA FrontEnds ==
    ASSUME OrderInv, EndsInv, NEW s \in Stages, StageStep(s)
    PROVE  /\ raised'["fetch"] = "none" /\ pc'["fetch"] \in {"closing", "done"}
                 => hand'["fetch"] = NumPayloads
           /\ raised'["parse"] = "none" /\ pc'["parse"] # "emit"
                 => LastOf[hand'["parse"]] <= emitted'
           /\ pc'["parse"] \in {"get", "emit", "closing", "done"}
<1> USE StageTypes DEF OrderInv
<1>0. /\ pc \in [Stages -> Locations] /\ hand \in [Stages -> Nat] /\ hand["fetch"] <= NumPayloads
      /\ hand["parse"] \in 0..NumPayloads /\ emitted \in Nat /\ NumPayloads \in Nat
  BY SizeAssumption DEF TypeInv, TypeOK, TaskOK, HandOK
<1>1. CASE s = "fetch"
  <2>0. /\ pc'["parse"] = pc["parse"] /\ hand'["parse"] = hand["parse"]
        /\ raised'["parse"] = raised["parse"] /\ emitted' = emitted
    BY <1>1, StageFrame
  <2>1. CASE RunFetch
    BY <1>0, <2>0, <2>1 DEF RunFetch, FetchNext, FetchPut, Close, GoTo, At, EndsInv
  <2>2. CASE Deliver(s) \/ (s \in DOMAIN PluginCall /\ Fault(s))
    BY <1>1, <2>0, <2>2, Unwinds DEF EndsInv
  <2> QED BY <1>1, <2>1, <2>2 DEF StageStep
<1>2. CASE s = "parse"
  <2>0. /\ pc'["fetch"] = pc["fetch"] /\ hand'["fetch"] = hand["fetch"]
        /\ raised'["fetch"] = raised["fetch"]
    BY <1>2, StageFrame
  <2>1. CASE ParseGet
    BY <1>0, <2>0, <2>1 DEF ParseGet, GoTo, At, EndsInv
  <2>2. CASE ParsePut
    BY <1>0, <2>0, <2>2 DEF ParsePut, At, EndsInv
  <2>3. CASE ParseExhausted
    <3>1. LastOf[hand["parse"]] \in Nat
      BY <1>0, FeedAssumption, SizeAssumption
    <3> QED BY <1>0, <2>0, <2>3, <3>1 DEF ParseExhausted, GoTo, At, EndsInv
  <2>4. CASE Close("parse")
    BY <1>0, <2>0, <2>4 DEF Close, GoTo, At, EndsInv
  <2>5. CASE Deliver(s) \/ (s \in DOMAIN PluginCall /\ Fault(s))
    BY <1>2, <2>0, <2>5, Unwinds DEF EndsInv
  <2> QED BY <1>2, <2>1, <2>2, <2>3, <2>4, <2>5 DEF StageStep, RunParse
<1>3. CASE s \notin {"fetch", "parse"}
  BY <1>3, StageFrame DEF EndsInv
<1> QED BY <1>1, <1>2, <1>3

\* A middle stage ends normally only on the sentinel.
LEMMA MiddleEnds ==
    ASSUME OrderInv, NEW s \in {"parse", "normalize", "enrich", "dedup"}, StageStep(s),
           raised'[s] = "none", pc'[s] \in {"closing", "done"}
    PROVE  \/ pc[s] = "closing" /\ raised[s] = "none"
           \/ Take(s) /\ pc[s] = "get" /\ Arrival(s) = EOS
<1> USE StageTypes DEF OrderInv
<1>0. /\ pc \in [Stages -> Locations]
      /\ DOMAIN raised = Stages /\ raised = [t \in Stages |-> raised[t]]
  BY DEF TypeInv, TypeOK, TaskOK
<1>1. CASE s = "parse" /\ RunParse
  BY <1>0, <1>1 DEF RunParse, ParseGet, ParsePut, ParseExhausted, Close, GoTo, At
<1>2. CASE s = "normalize" /\ RunNormalize
  <2>1. CASE NormalizeGet
    <3>1. /\ Take("normalize") /\ pc["normalize"] = "get"
          /\ Arrival("normalize") # EOS => pc'["normalize"] \in {"get", "put"} \/ raised'["normalize"] # "none"
      BY <1>0, <2>1 DEF NormalizeGet, GoTo, At, Raise, ErrorKinds
    <3> QED BY <1>2, <3>1
  <2> QED BY <1>0, <1>2, <2>1 DEF RunNormalize, Pass, Close, GoTo, At
<1>3. CASE s = "enrich" /\ RunEnrich
  BY <1>0, <1>3 DEF RunEnrich, EnrichGet, EnrichWork, Pass, Close, GoTo, At
<1>4. CASE s = "dedup" /\ RunDedup
  BY <1>0, <1>4 DEF RunDedup, DedupGet, Pass, Close, GoTo, At
<1>5. CASE Deliver(s) \/ (s \in DOMAIN PluginCall /\ Fault(s))
  BY <1>5, Unwinds
<1> QED BY <1>1, <1>2, <1>3, <1>4, <1>5 DEF StageStep

LEMMA PersistEnds ==
    ASSUME OrderInv, EndsInv, StageStep("persist")
    PROVE  /\ "persist" \in ended' =>
                 \/ "persist" \in ended
                 \/ Take("persist") /\ pc["persist"] = "get" /\ Arrival("persist") = EOS
           /\ raised'["persist"] = "none" /\ pc'["persist"] \in {"closing", "done"}
                 => "persist" \in ended' /\ batch' = <<>>
<1> USE StageTypes DEF OrderInv
<1>0. /\ pc \in [Stages -> Locations]
      /\ DOMAIN raised = Stages /\ raised = [t \in Stages |-> raised[t]]
  BY DEF TypeInv, TypeOK, TaskOK
<1>1. CASE PersistGet
  BY <1>0, <1>1 DEF PersistGet, GoTo, At, FinalFlush, FlushStart
<1>2. CASE PersistCommit
  BY <1>0, <1>2 DEF PersistCommit, GoTo, At, Raise
<1>3. CASE PersistForward
  <2>1. pc["persist"] = "forward" /\ batch' = Tail(batch) /\ ended' = ended
    BY <1>3 DEF PersistForward, At
  <2>2. batch # <<>> /\ batch \in Seq(Nat)
    BY <2>1, BatchTypes DEF TypeInv, LocationInv
  <2>3. Len(batch) \in Nat /\ Len(Tail(batch)) = Len(batch) - 1 /\ Tail(batch) \in Seq(Nat)
    BY <2>2, TailAt
  <2>4. Len(batch) >= 1
    BY <2>2, TailAt
  <2>5. ~(Len(batch) > 1) => batch' = <<>>
    <3>1. ~(Len(batch) > 1) => Len(Tail(batch)) = 0
      BY <2>3, <2>4
    <3> QED BY <2>1, <2>3, <3>1, EmptySeq
  <2>6. pc'["persist"] \in {"closing", "done"} => ~(Len(batch) > 1) /\ "persist" \in ended
    BY <1>0, <1>3 DEF PersistForward, GoTo
  <2> QED BY <2>1, <2>5, <2>6
<1>4. CASE Close("persist")
  BY <1>0, <1>4 DEF Close, GoTo, At, EndsInv
<1>5. CASE Deliver("persist") \/ ("persist" \in DOMAIN PluginCall /\ Fault("persist"))
  BY <1>5, Unwinds
<1> QED BY <1>1, <1>2, <1>3, <1>4, <1>5 DEF StageStep, RunPersist

LEMMA PublishEnds ==
    ASSUME OrderInv, StageStep("publish"), "publish" \in ended'
    PROVE  \/ "publish" \in ended
           \/ Take("publish") /\ pc["publish"] = "get" /\ Arrival("publish") = EOS
<1> USE StageTypes DEF OrderInv
<1>1. CASE RunPublish
  BY <1>1 DEF RunPublish, PublishGet, PublishOffer, PublishOffered, PublishSend, At
<1>2. CASE Deliver("publish") \/ ("publish" \in DOMAIN PluginCall /\ Fault("publish"))
  BY <1>2, Unwinds
<1> QED BY <1>1, <1>2 DEF StageStep

LEMMA StepEndsInv ==
    ASSUME OrderInv, EndsInv, [Next]_vars
    PROVE  EndsInv'
<1> USE StageTypes DEF OrderInv
<1>1. CASE GroupStep
  <2>1. UNCHANGED <<pc, queue, hand, emitted, batch, ended, raised>>
    BY <1>1 DEF GroupStep, Abort, CancelRun, Finish, vars
  <2> QED BY <2>1 DEF EndsInv, Drained
<1>2. ASSUME NEW s \in Stages, StageStep(s) PROVE EndsInv'
  <2>0. /\ \A t \in Stages \ {s} : pc'[t] = pc[t] /\ raised'[t] = raised[t]
        /\ s # "persist" => ("persist" \in ended' <=> "persist" \in ended)
        /\ s # "publish" => ("publish" \in ended' <=> "publish" \in ended)
    BY <1>2, StageFrame
  <2>1. \A u \in Producers : Drained(u) => pc'[u] = "done" /\ queue'[u] = <<>>
    BY <1>2, DrainedStays
  <2>2. /\ raised'["fetch"] = "none" /\ pc'["fetch"] \in {"closing", "done"}
              => hand'["fetch"] = NumPayloads
        /\ raised'["parse"] = "none" /\ pc'["parse"] # "emit"
              => LastOf[hand'["parse"]] <= emitted'
        /\ pc'["parse"] \in {"get", "emit", "closing", "done"}
    BY <1>2, FrontEnds
  <2>3. ASSUME NEW t \in {"parse", "normalize", "enrich", "dedup"},
               raised'[t] = "none", pc'[t] \in {"closing", "done"}
        PROVE  pc'[Upstream[t]] = "done" /\ queue'[Upstream[t]] = <<>>
    <3>1. Upstream[t] \in Producers
      BY DEF Upstream
    <3>2. CASE t # s
      BY <2>0, <2>1, <2>3, <3>1, <3>2 DEF EndsInv
    <3>3. CASE t = s /\ Take(s) /\ pc[s] = "get" /\ Arrival(s) = EOS
      BY <1>2, <3>3, EosDrains
    <3>4. CASE t = s /\ pc[s] = "closing" /\ raised[s] = "none"
      BY <2>1, <3>1, <3>4 DEF EndsInv
    <3> QED BY <1>2, <2>3, <3>2, <3>3, <3>4, MiddleEnds
  <2>4. ASSUME "persist" \in ended' PROVE pc'["dedup"] = "done" /\ queue'["dedup"] = <<>>
    <3>1. CASE "persist" \in ended
      BY <2>1, <3>1 DEF EndsInv
    <3>2. CASE s = "persist" /\ Take(s) /\ pc[s] = "get" /\ Arrival(s) = EOS
      BY <1>2, <3>2, EosDrains DEF Upstream
    <3> QED BY <1>2, <2>0, <2>4, <3>1, <3>2, PersistEnds
  <2>5. raised'["persist"] = "none" /\ pc'["persist"] \in {"closing", "done"}
           => "persist" \in ended' /\ batch' = <<>>
    <3>1. CASE s = "persist"
      BY <1>2, <3>1, PersistEnds
    <3>2. CASE s # "persist"
      BY <1>2, <2>0, <3>2, StageFrame DEF EndsInv
    <3> QED BY <3>1, <3>2
  <2>6. ASSUME "publish" \in ended' PROVE pc'["persist"] = "done" /\ queue'["persist"] = <<>>
    <3>1. CASE "publish" \in ended
      BY <2>1, <3>1 DEF EndsInv
    <3>2. CASE s = "publish" /\ Take(s) /\ pc[s] = "get" /\ Arrival(s) = EOS
      BY <1>2, <3>2, EosDrains DEF Upstream
    <3> QED BY <1>2, <2>0, <2>6, <3>1, <3>2, PublishEnds
  <2> QED BY <2>2, <2>3, <2>4, <2>5, <2>6 DEF EndsInv, Drained
<1> QED BY <1>1, <1>2, NextSplit

-----------------------------------------------------------------------------
(* Nothing is lost.                                                        *)

\* A record that a producer got to is with its consumer, in the queue or in
\* the producer's hand.
LEMMA Somewhere ==
    ASSUME NEW q, NEW W \in SUBSET Nat, NEW lo \in Nat, NEW top \in Nat, NEW loc,
           Fed(q, W, lo, top, loc, "none"), NEW r \in W, r <= top
    PROVE  r <= lo \/ r \in Range(q) \/ (loc \in {"work", "put"} /\ r = top)
<1>1. PICK hi \in Nat :
         /\ Range(q) \cap W = Between(W, lo, hi)
         /\ hi = IF loc \in {"work", "put"} THEN top - 1 ELSE top
  BY DEF Fed, Link
<1>2. r \in Between(W, lo, hi) <=> lo < r /\ r <= hi
  BY BetweenIs
<1>3. CASE loc \in {"work", "put"}
  BY <1>1, <1>2, <1>3
<1>4. CASE loc \notin {"work", "put"}
  BY <1>1, <1>2, <1>4
<1> QED BY <1>3, <1>4

\* What the links say of a record of a run in which no stage has raised.
LEMMA FlowLosesNothing ==
    ASSUME OrderInv, EndsInv, \A s \in Stages : raised[s] = "none",
           NEW r \in Wanted, r <= emitted
    PROVE  r \in Stored \cup InFlight
<1> USE StageTypes DEF OrderInv
<1>0. r \in Nat /\ r \in Passing
  BY KindsType
<1>1. r \in Range(queue["parse"]) \/ r <= hand["normalize"]
  <2>1. Fed(queue["parse"], Passing, hand["normalize"], emitted, pc["parse"], "none")
    BY DEF FlowInv, ParseLink
  <2>2. pc["parse"] \notin {"work", "put"}
    BY DEF EndsInv
  <2> QED BY <1>0, <2>1, <2>2, Somewhere
<1>2. r <= hand["normalize"] =>
         r \in Range(queue["normalize"]) \/ r <= hand["enrich"]
         \/ (pc["normalize"] \in {"work", "put"} /\ r = hand["normalize"])
  <2>1. Fed(queue["normalize"], Passing, hand["enrich"], hand["normalize"], pc["normalize"], "none")
    BY DEF FlowInv, NormalizeLink
  <2> QED BY <1>0, <2>1, Somewhere
<1>3. r <= hand["enrich"] =>
         r \in Range(queue["enrich"]) \/ r <= hand["dedup"]
         \/ (pc["enrich"] \in {"work", "put"} /\ r = hand["enrich"])
  <2>1. Fed(queue["enrich"], Wanted, hand["dedup"], hand["enrich"], pc["enrich"], "none")
    BY DEF FlowInv, EnrichLink
  <2> QED BY <1>0, <2>1, Somewhere
<1>4. PICK m \in Nat, hi \in Nat, lo \in Nat :
         /\ Range(db) = UpTo(Wanted, m) /\ m <= lo
         /\ IF pc["persist"] \in {"get", "commit"}
            THEN Range(batch) = Between(Wanted, m, lo)
            ELSE lo = m
         /\ Fed(queue["dedup"], Wanted, lo, hand["dedup"], pc["dedup"], "none")
  BY DEF FlowInv, PersistLine, Line
<1>5. r <= hand["dedup"] =>
         r \in Range(queue["dedup"]) \/ r <= lo
         \/ (pc["dedup"] \in {"work", "put"} /\ r = hand["dedup"])
  BY <1>0, <1>4, Somewhere
<1>6. r <= lo => r \in Stored \/ (pc["persist"] \in {"get", "commit"} /\ r \in Range(batch))
  <2>1. r <= m => r \in Stored
    BY <1>4 DEF UpTo, Stored
  <2>2. pc["persist"] \in {"get", "commit"} /\ m < r /\ r <= lo => r \in Range(batch)
    BY <1>4, BetweenIs
  <2> QED BY <1>0, <1>4, <2>1, <2>2
<1>7. \A s \in {"parse", "normalize", "enrich", "dedup"} : r \in Range(queue[s]) => r \in InFlight
  BY DEF InFlight
<1> DEFINE Queued == UNION {Range(queue[s]) : s \in {"parse", "normalize", "enrich", "dedup"}}
           Held == {x \in Stages \ {"fetch"} : pc[x] \in {"work", "put"}}
           Hands == {hand[s] : s \in Held}
           Batched == IF pc["persist"] \in {"get", "commit"} THEN Range(batch) ELSE {}
<1>8. InFlight = Queued \cup Hands \cup Batched
  BY DEF InFlight
<1>9. \A s \in Stages \ {"fetch"} : pc[s] \in {"work", "put"} => hand[s] \in Hands
  OBVIOUS
<1>10. pc["persist"] \in {"get", "commit"} => Batched = Range(batch)
  OBVIOUS
<1> HIDE DEF Queued, Hands, Batched
<1>11. \A s \in Stages \ {"fetch"} : pc[s] \in {"work", "put"} /\ r = hand[s] => r \in InFlight
  BY <1>8, <1>9
<1>12. pc["persist"] \in {"get", "commit"} /\ r \in Range(batch) => r \in InFlight
  BY <1>8, <1>10
<1> QED BY <1>1, <1>2, <1>3, <1>5, <1>6, <1>7, <1>11, <1>12

\* Until a stage raises or is cancelled, every wanted record the parser has
\* emitted is a row, or in a queue, a hand or the batch on its way to one.
THEOREM NothingIsLost == Spec => []NothingLost
<1>1. OrderInv /\ [Next]_vars => OrderInv'
  BY StepOrderInv
<1>2. OrderInv /\ EndsInv /\ [Next]_vars => EndsInv'
  BY StepEndsInv
<1>3. OrderInv /\ EndsInv => NothingLost
  BY FlowLosesNothing DEF NothingLost
<1> QED BY InitOrderInv, InitEndsInv, <1>1, <1>2, <1>3, PTL DEF Spec

-----------------------------------------------------------------------------
(* The run as its caller sees it.                                          *)

\* When every stage has ended normally, all there was to store is stored.
LEMMA CompleteRun ==
    ASSUME OrderInv, EndsInv, \A s \in Stages : raised[s] = "none", Done = Stages
    PROVE  Stored = Wanted
<1> USE StageTypes DEF OrderInv
<1>1. \A s \in Stages : pc[s] = "done"
  BY DEF Done
<1>2. \A u \in {"fetch", "parse", "normalize", "enrich", "dedup"} : queue[u] = <<>>
  BY <1>1 DEF EndsInv, Drained, Upstream
<1>3. hand["parse"] = NumPayloads
  <2>1. Fed(queue["fetch"], 1..NumPayloads, hand["parse"], NumPayloads, "done", "none")
    BY <1>1 DEF FlowInv, FetchLink, EndsInv
  <2>2. Range(queue["fetch"]) = {}
    BY <1>2, RangeEmpty
  <2>3. NumPayloads \in Nat /\ hand["parse"] <= NumPayloads
    BY SizeAssumption DEF TypeInv, TypeOK, HandOK
  <2>4. ASSUME NEW r \in 1..NumPayloads PROVE r <= hand["parse"]
    <3> DEFINE W == 1..NumPayloads
    <3>1. W \in SUBSET Nat /\ r \in W /\ r <= NumPayloads /\ hand["parse"] \in Nat
      BY <2>3
    <3>2. Fed(queue["fetch"], W, hand["parse"], NumPayloads, "done", "none")
      BY <2>1
    <3> HIDE DEF W
    <3>3. r <= hand["parse"] \/ r \in Range(queue["fetch"]) \/ "done" \in {"work", "put"}
      BY ONLY <2>3, <3>1, <3>2, Somewhere
    <3> QED BY <2>2, <3>3
  <2>5. CASE NumPayloads = 0
    BY <2>3, <2>5
  <2>6. CASE NumPayloads \in 1..NumPayloads
    BY <2>3, <2>4, <2>6
  <2> QED BY <2>3, <2>5, <2>6
<1>4. NumRecords <= emitted
  BY <1>1, <1>3, FeedAssumption DEF EndsInv
<1>5. InFlight = {}
  <2>1. \A s \in {"parse", "normalize", "enrich", "dedup"} : Range(queue[s]) = {}
    BY <1>2, RangeEmpty
  <2>2. UNION {Range(queue[s]) : s \in {"parse", "normalize", "enrich", "dedup"}} = {}
    BY <2>1
  <2>3. {hand[s] : s \in {x \in Stages \ {"fetch"} : pc[x] \in {"work", "put"}}} = {}
    BY <1>1
  <2>4. pc["persist"] \notin {"get", "commit"}
    BY <1>1
  <2> QED BY <2>2, <2>3, <2>4 DEF InFlight
<1>6. ASSUME NEW r \in Wanted PROVE r \in Stored
  <2>1. r \in 1..NumRecords
    BY KindsType DEF Records
  <2>2. r <= emitted
    BY <1>4, <2>1, SizeAssumption
  <2> QED BY <1>5, <2>2, FlowLosesNothing
<1>7. Stored \subseteq Wanted
  BY DEF FlowInv, PersistLine, Line, UpTo, Stored
<1> QED BY <1>6, <1>7

\* A commit takes the rows to a further record of the feed.
LEMMA CommitExtends ==
    ASSUME OrderInv, pc["persist"] = "commit"
    PROVE  /\ Stored \subseteq Range(db \o batch)
           /\ \E upto \in Wanted : Range(db \o batch) = {r \in Wanted : r <= upto}
<1> USE StageTypes DEF OrderInv
<1>1. batch \in Seq(Nat) /\ db \in Seq(Nat) /\ batch # <<>>
  BY BatchTypes DEF TypeInv, LocationInv
<1>2. PICK m \in Nat, hi \in Nat :
         /\ Range(db \o batch) = UpTo(Wanted, m)
         /\ hi <= m /\ Increasing(batch) /\ Range(batch) = Between(Wanted, hi, m)
  BY CommitFlow DEF FlowInv
<1> DEFINE n == Len(batch)
           last == batch[n]
<1>3. n \in Nat /\ n >= 1 /\ n \in 1..n
  BY <1>1, TailAt
<1>4. /\ last \in Range(batch)
      /\ \A x \in Range(batch) : \E i \in 1..n : batch[i] = x
  BY <1>1, <1>3, RangeAt
<1>5. \A i \in 1..n : batch[i] <= last
  <2>1. ASSUME NEW i \in 1..n, i # n PROVE batch[i] < batch[n]
    BY <1>2, <1>3, <2>1 DEF Increasing
  <2>2. \A i \in 1..n : batch[i] \in Nat
    BY <1>1, RangeAt
  <2> QED BY <1>3, <2>1, <2>2
<1> HIDE DEF last, n
<1>6. last \in Wanted /\ hi < last /\ last <= m
  BY <1>2, <1>4, BetweenIs
<1>7. ASSUME NEW r \in Wanted PROVE r <= m <=> r <= last
  <2>1. CASE hi < r /\ r <= m
    <3>1. r \in Range(batch)
      BY <1>2, <2>1, BetweenIs
    <3> QED BY <1>4, <1>5, <2>1, <3>1
  <2>2. CASE ~(hi < r /\ r <= m)
    BY <1>2, <1>6, <2>2
  <2> QED BY <2>1, <2>2
<1>8. Range(db \o batch) = {r \in Wanted : r <= last}
  BY <1>2, <1>7 DEF UpTo
<1>9. Stored \subseteq Range(db \o batch)
  BY <1>1, RangeConcatenation DEF Stored
<1> QED BY <1>6, <1>8, <1>9

\* Rows are only written by a commit of persist.
LEMMA RowsChange ==
    ASSUME TypeInv, [Next]_vars, db' # db
    PROVE  db' = db \o batch /\ pc["persist"] = "commit" /\ result' = result
<1>1. CASE GroupStep
  BY <1>1 DEF GroupStep, Abort, CancelRun, Finish, vars
<1>2. ASSUME NEW s \in Stages, StageStep(s)
      PROVE  db' = db \o batch /\ pc["persist"] = "commit" /\ result' = result
  <2>1. s = "persist" /\ result' = result
    BY <1>2, StageFrame
  <2>2. CASE RunPersist
    BY <2>1, <2>2 DEF RunPersist, PersistGet, PersistCommit, PersistForward, Close, At
  <2>3. CASE Deliver("persist") \/ Fault("persist")
    BY <2>1, <2>3 DEF Deliver, Fault, SideEffect
  <2> QED BY <1>2, <2>1, <2>2, <2>3 DEF StageStep
<1> QED BY <1>1, <1>2, NextSplit

LEMMA ContractStep ==
    ASSUME OrderInv, EndsInv, [Next]_vars
    PROVE  [RC!Commit \/ RC!End]_<<Stored, result>>
<1> USE StageTypes DEF OrderInv
<1>1. CASE db' # db
  <2>1. db' = db \o batch /\ pc["persist"] = "commit" /\ result' = result
    BY <1>1, RowsChange
  <2>2. result = "none"
    BY <2>1 DEF GroupInv, Done
  <2>3. Stored' = Range(db \o batch)
    BY <2>1 DEF Stored
  <2>4. Wanted' = Wanted
    BY DEF Wanted
  <2> QED BY <2>1, <2>2, <2>3, CommitExtends DEF RC!Commit
<1>2. CASE db' = db /\ Finish
  <2>1. Stored' = Stored /\ result = "none" /\ Done = Stages /\ UNCHANGED raised
    BY <1>2 DEF Stored, Finish
  <2>2. result' \in {"SUCCESS", "PARTIAL", "FAILED", "raised"}
    BY <1>2 DEF Finish, Outcome
  <2>3. GroupInv'
    BY StepGroupInv
  <2>4. result' = "SUCCESS" => \A s \in Stages : raised[s] = "none"
    BY <2>1, <2>3 DEF GroupInv
  <2>5. result' = "SUCCESS" => Stored = Wanted
    BY <2>1, <2>4, CompleteRun
  <2> QED BY <2>1, <2>2, <2>5 DEF RC!End, RC!Outcomes
<1>3. CASE db' = db /\ ~Finish
  <2>1. result' = result
    <3>1. CASE GroupStep
      BY <1>3, <3>1 DEF GroupStep, Abort, CancelRun, vars
    <3>2. CASE \E s \in Stages : StageStep(s)
      BY <3>2, StageFrame
    <3> QED BY <3>1, <3>2, NextSplit
  <2> QED BY <1>3, <2>1 DEF Stored
<1> QED BY <1>1, <1>2, <1>3

\* A run implements what manager/runner.py relies on: the rows grow by
\* stretches of the feed, and SUCCESS is reported only when all are there.
THEOREM RunImplementsContract == Spec => ImplementsContract
<1>1. OrderInv /\ [Next]_vars => OrderInv'
  BY StepOrderInv
<1>2. OrderInv /\ EndsInv /\ [Next]_vars => EndsInv'
  BY StepEndsInv
<1>3. OrderInv /\ EndsInv /\ [Next]_vars => [RC!Commit \/ RC!End]_<<Stored, result>>
  BY ContractStep
<1>4. Init => RC!ContractInit
  BY RangeEmpty DEF Init, RC!ContractInit, Stored
<1> QED BY InitOrderInv, InitEndsInv, <1>1, <1>2, <1>3, <1>4, PTL
        DEF Spec, ImplementsContract, RC!Contract

-----------------------------------------------------------------------------
(* What the extra publishers get.                                          *)

\* The place of a publisher in the loop.
LEMMA AwaitsIs ==
    ASSUME NEW i \in 1..Len(Publishers), NEW loc, NEW t \in Nat, NEW over
    PROVE  /\ Publishers[i] \in Sinks /\ Len(Publishers) \in Nat
           /\ Awaits(Publishers[i], loc, t, over)
                 <=> "publish" \notin over /\ ((loc = "offer" /\ t <= i) \/ (loc = "send" /\ t < i))
<1>1. Publishers[i] \in Sinks /\ Len(Publishers) \in Nat
  BY PluginAssumption, ElementOfSeq, LenProperties
<1> QED BY <1>1, PluginAssumption DEF Awaits

LEMMA OfferedIs ==
    ASSUME NEW i \in 1..Len(Publishers), NEW t \in Nat, NEW over, NEW h \in Nat
    PROVE  /\ Offered(Publishers[i], "offer", t, over, h) =
                 IF "publish" \notin over /\ t <= i THEN h - 1 ELSE h
           /\ Offered(Publishers[i], "send", t, over, h) =
                 IF "publish" \notin over /\ t < i THEN h - 1 ELSE h
           /\ \A loc \in {"get", "done"} : Offered(Publishers[i], loc, t, over, h) = h
<1>1. Awaits(Publishers[i], "offer", t, over) <=> "publish" \notin over /\ t <= i
  <2>1. ASSUME NEW loc, loc = "offer"
        PROVE  Awaits(Publishers[i], loc, t, over) <=> "publish" \notin over /\ t <= i
    <3>1. loc # "send"
      BY <2>1
    <3>2. Awaits(Publishers[i], loc, t, over)
             <=> "publish" \notin over /\ ((loc = "offer" /\ t <= i) \/ (loc = "send" /\ t < i))
      BY AwaitsIs
    <3> QED BY ONLY <2>1, <3>1, <3>2
  <2> QED BY <2>1
<1>2. Awaits(Publishers[i], "send", t, over) <=> "publish" \notin over /\ t < i
  BY AwaitsIs
<1>3. \A loc \in {"get", "done"} : ~Awaits(Publishers[i], loc, t, over)
  BY AwaitsIs
<1> QED BY <1>1, <1>2, <1>3 DEF Offered

LEMMA SinkPlace ==
    ASSUME NEW p \in Sinks
    PROVE  \E i \in 1..Len(Publishers) : Publishers[i] = p
<1>1. Range(Publishers) = {Publishers[i] : i \in 1..Len(Publishers)}
  BY PluginAssumption, RangeEquality
<1> QED BY <1>1 DEF Sinks

\* The next record is further on.
LEMMA ShareNext ==
    ASSUME NEW d, NEW b, NEW p, NEW top \in Nat, NEW x \in Nat, top < x,
           Share(d, b, p, top), \A r \in Wanted : top < r => x <= r
    PROVE  Share(d, b, p, x - 1)
<1>1. PICK cut \in Nat :
         cut <= top /\ UNION Range(d) = Due(p, cut) /\ Range(b) = Between(Wanted, cut, top)
  BY DEF Share
<1>2. ASSUME NEW r \in Wanted PROVE cut < r /\ r <= top <=> cut < r /\ r <= x - 1
  <2>1. r \in Nat
    BY KindsType
  <2> QED BY <2>1
<1>3. Between(Wanted, cut, top) = Between(Wanted, cut, x - 1)
  BY <1>2 DEF Between
<1>4. cut <= x - 1
  BY <1>1
<1> QED BY <1>1, <1>3, <1>4 DEF Share

\* A record joins the publisher's batch.
LEMMA ShareJoin ==
    ASSUME NEW d, NEW b \in Seq(Nat), NEW p, NEW x \in Wanted, Share(d, b, p, x - 1)
    PROVE  Share(d, Append(b, x), p, x)
<1>0. x \in Nat
  BY KindsType
<1>1. PICK cut \in Nat :
         cut <= x - 1 /\ UNION Range(d) = Due(p, cut) /\ Range(b) = Between(Wanted, cut, x - 1)
  BY DEF Share
<1>2. Range(Append(b, x)) = Range(b) \cup {x}
  BY <1>0, AppendAt
<1>3. ASSUME NEW r PROVE r \in Range(Append(b, x)) <=> r \in Between(Wanted, cut, x)
  <2>1. /\ r \in Range(b) <=> r \in Wanted /\ cut < r /\ r <= x - 1
        /\ r \in Between(Wanted, cut, x) <=> r \in Wanted /\ cut < r /\ r <= x
    BY <1>1, BetweenIs
  <2>2. r \in Wanted => r \in Nat
    BY KindsType
  <2> QED BY <1>0, <1>1, <1>2, <2>1, <2>2
<1>4. Range(Append(b, x)) = Between(Wanted, cut, x)
  BY <1>3
<1>5. cut <= x
  BY <1>0, <1>1
<1> QED BY <1>1, <1>4, <1>5 DEF Share

\* The batch, as far as the publisher is cleared for it, is sent.
LEMMA ShareSend ==
    ASSUME NEW d \in Seq(SUBSET Records), NEW b, NEW p, NEW top \in Nat, Share(d, b, p, top),
           NEW C \in SUBSET Records, C = {r \in Range(b) : Tlp[r] <= MaxTlp[p]},
           NEW e, e = IF C = {} THEN d ELSE Append(d, C)
    PROVE  Share(e, <<>>, p, top)
<1>1. PICK cut \in Nat :
         cut <= top /\ UNION Range(d) = Due(p, cut) /\ Range(b) = Between(Wanted, cut, top)
  BY DEF Share
<1>2. UNION Range(e) = (UNION Range(d)) \cup C
  <2>1. CASE C = {}
    BY <2>1
  <2>2. CASE C # {}
    <3>1. e = Append(d, C) /\ C \in SUBSET Records /\ d \in Seq(SUBSET Records)
      BY <2>2
    <3>2. Range(e) = Range(d) \cup {C}
      BY ONLY <3>1, RangeAppend
    <3> QED BY <3>2
  <2> QED BY <2>1, <2>2
<1>3. ASSUME NEW r PROVE r \in UNION Range(e) <=> r \in Due(p, top)
  <2>1. r \in Range(b) <=> r \in Wanted /\ cut < r /\ r <= top
    BY <1>1, BetweenIs
  <2>2. r \in C <=> r \in Range(b) /\ Tlp[r] <= MaxTlp[p]
    OBVIOUS
  <2>3. r \in Wanted => r \in Nat
    BY KindsType
  <2>4. r \in UNION Range(d) <=> r \in Wanted /\ r <= cut /\ Tlp[r] <= MaxTlp[p]
    BY <1>1 DEF Due
  <2>5. r \in Due(p, top) <=> r \in Wanted /\ r <= top /\ Tlp[r] <= MaxTlp[p]
    BY DEF Due
  <2>6. r \in UNION Range(e) <=> r \in UNION Range(d) \/ r \in C
    BY <1>2
  <2> HIDE DEF Due
  <2> QED BY ONLY <1>1, <2>1, <2>2, <2>3, <2>4, <2>5, <2>6, top \in Nat, cut \in Nat
<1>4. UNION Range(e) = Due(p, top)
  BY <1>3
<1>5. Range(<<>>) = Between(Wanted, top, top)
  <2>1. \A r \in Wanted : ~(top < r /\ r <= top)
    BY KindsType
  <2> QED BY <2>1, RangeEmpty, BetweenEmpty, Zenon
<1>6. top <= top
  OBVIOUS
<1> QED BY <1>4, <1>5, <1>6 DEF Share

\* A request, whole or cut short, continues those before it.
LEMMA SendInOrder ==
    ASSUME NEW d \in Seq(SUBSET Records), NEW b, NEW p, NEW top, Share(d, b, p, top),
           NEW C \in SUBSET Records, C \subseteq {r \in Range(b) : Tlp[r] <= MaxTlp[p]},
           InOrder(d, p)
    PROVE  InOrder(Append(d, C), p)
<1> DEFINE e == Append(d, C)
<1>1. PICK cut \in Nat : UNION Range(d) = Due(p, cut) /\ Range(b) = Between(Wanted, cut, top)
  BY DEF Share
<1>2. /\ Len(d) \in Nat /\ Len(e) = Len(d) + 1
      /\ \A i \in 1..Len(d) : e[i] = d[i] /\ d[i] \in Range(d)
      /\ e[Len(d) + 1] = C /\ Range(e) = Range(d) \cup {C}
  <2>1. \A i \in 1..Len(d) : d[i] \in Range(d)
    BY RangeEquality
  <2> QED BY <2>1, AppendProperties, LenProperties, RangeAppend
<1> HIDE DEF e
<1>3. ASSUME NEW q \in UNION Range(d), NEW r \in C PROVE q < r
  <2>1. q \in Wanted /\ q <= cut
    BY <1>1, <1>3 DEF Due
  <2>2. r \in Range(b)
    OBVIOUS
  <2>3. r \in Wanted /\ cut < r
    BY <1>1, <2>2, BetweenIs
  <2> QED BY <2>1, <2>3, KindsType
<1>4. ASSUME NEW i \in 1..Len(e), NEW j \in 1..Len(e), i < j, NEW q \in e[i], NEW r \in e[j]
      PROVE  q < r
  <2>1. i \in 1..Len(d) /\ e[i] = d[i] /\ q \in UNION Range(d)
    BY <1>2, <1>4
  <2>2. CASE j \in 1..Len(d)
    BY <1>2, <1>4, <2>1, <2>2 DEF InOrder
  <2>3. CASE j = Len(d) + 1
    BY <1>2, <1>3, <1>4, <2>1, <2>3
  <2> QED BY <1>2, <2>2, <2>3
<1>5. \A r \in UNION Range(e) : Tlp[r] <= MaxTlp[p]
  BY <1>2 DEF InOrder
<1> QED BY <1>4, <1>5 DEF InOrder, e

LEMMA SinkTypes ==
    ASSUME TypeInv
    PROVE  /\ \A p \in Sinks : pending[p] \in Seq(Nat) /\ delivered[p] \in Seq(SUBSET Records)
           /\ DOMAIN pending = Sinks /\ DOMAIN delivered = Sinks
           /\ pc \in [Stages -> Locations] /\ hand \in [Stages -> Nat]
           /\ turn \in Nat /\ Len(Publishers) \in Nat
<1>1. /\ pending \in [Sinks -> Seq(Records)] /\ delivered \in [Sinks -> Seq(SUBSET Records)]
      /\ pc \in [Stages -> Locations] /\ hand \in [Stages -> Nat]
      /\ turn \in 1..(Len(Publishers) + 1)
  BY DEF TypeInv, TypeOK, BatchOK, TaskOK, HandOK
<1>2. Len(Publishers) \in Nat
  BY PluginAssumption, LenProperties
<1>3. \A p \in Sinks : pending[p] \in Seq(Nat)
  BY <1>1, KindsType, SeqMonotonic
<1> QED BY <1>1, <1>2, <1>3

LEMMA PublishGetSinks ==
    ASSUME OrderInv, EndsInv, SinkInv, PublishGet
    PROVE  SinkInv'
<1> USE StageTypes DEF OrderInv
<1>0. /\ pc["publish"] = "get" /\ pc'["publish"] = "offer" /\ turn' = 1 /\ Take("publish")
      /\ UNCHANGED <<pending, delivered, raised>>
  BY SinkTypes DEF PublishGet, At, GoTo
<1>1. raised["publish"] = "none"
  BY <1>0, AliveStage
<1>2. "publish" \notin ended
  BY <1>0 DEF EndsInv, Drained, Take, Arrived, Upstream
<1> DEFINE x == Arrival("publish")
           h == hand["publish"]
<1>3. /\ x = EOS => hand' = hand /\ "publish" \in ended'
      /\ x # EOS => hand'["publish"] = x /\ "publish" \notin ended'
  BY <1>2, SinkTypes DEF PublishGet
<1>4. PICK hi \in Nat : Link(queue["persist"], Wanted, hand["publish"], hi)
  BY DEF FlowInv, PersistLine, Line
<1>5. /\ x \in Wanted \cup {EOS}
      /\ x # EOS => h < x /\ \A r \in Wanted : h < r => x <= r
  BY <1>0, <1>4, PublishTakes DEF FlowInv
<1>6. h \in Nat /\ (x # EOS => x \in Nat)
  BY <1>5, KindsType
<1> HIDE DEF x, h
<1>7. ASSUME NEW p \in Sinks
      PROVE  Share(delivered[p], pending[p], p,
                   Offered(p, "offer", 1, ended', hand'["publish"]))
  <2>1. PICK i \in 1..Len(Publishers) : Publishers[i] = p
    BY SinkPlace
  <2>2. Share(delivered[p], pending[p], p, h)
    <3>1. Share(delivered[p], pending[p], p, Offered(p, "get", turn, ended, h))
      BY <1>0, <1>1 DEF SinkInv, h
    <3>2. Offered(p, "get", turn, ended, h) = h
      <4>1. turn \in Nat /\ "get" \in {"get", "done"}
        BY SinkTypes
      <4> QED BY ONLY <1>6, <2>1, <4>1, OfferedIs
    <3> QED BY <3>1, <3>2
  <2>3. CASE x = EOS
    <3>1. Offered(p, "offer", 1, ended', hand'["publish"]) = h
      BY <1>3, <1>6, <2>1, <2>3, OfferedIs DEF h
    <3> QED BY <2>2, <3>1
  <2>4. CASE x # EOS
    <3>1. Offered(p, "offer", 1, ended', hand'["publish"]) = x - 1
      <4>1. ~(x = EOS) /\ x \in Nat /\ hand'["publish"] = x /\ "publish" \notin ended' /\ 1 <= i
        BY <1>3, <1>6, <2>4
      <4> QED BY <2>1, <4>1, OfferedIs
    <3>2. Share(delivered[p], pending[p], p, x - 1)
      BY <1>5, <1>6, <2>2, <2>4, ShareNext
    <3> QED BY <3>1, <3>2
  <2> QED BY <2>3, <2>4
<1>8. \A i \in 1..Len(Publishers) : ~(i < 1)
  BY SinkTypes
<1> QED BY <1>0, <1>7, <1>8 DEF SinkInv

LEMMA PublishOfferSinks ==
    ASSUME OrderInv, SinkInv, PublishOffer
    PROVE  SinkInv'
<1> USE StageTypes DEF OrderInv
<1> DEFINE p == Publishers[turn]
           h == hand["publish"]
           last == "publish" \in ended
           b == IF last THEN pending[p] ELSE Append(pending[p], h)
<1>0. /\ pc["publish"] = "offer" /\ turn \in 1..Len(Publishers) /\ p \in Sinks
      /\ UNCHANGED <<hand, ended, delivered, raised>> /\ turn \in Nat
      /\ pending' = [pending EXCEPT ![p] = b]
      /\ h \in Nat
      /\ \/ pc'["publish"] = "send" /\ turn' = turn
         \/ pc'["publish"] = "offer" /\ turn' = turn + 1 /\ (last => b = <<>>)
  BY SinkTypes, TurnOK DEF PublishOffer, At, GoTo
<1>1. raised["publish"] = "none"
  BY <1>0, AliveStage
<1>2. ~last => h \in Wanted
  <2>1. Stored \subseteq Wanted
    BY DEF FlowInv, PersistLine, Line, Stored, UpTo
  <2> QED BY <1>0, <2>1 DEF FenceInv
<1>3. ASSUME NEW q \in Sinks
      PROVE  Share(delivered[q], pending'[q], q,
                   Offered(q, pc'["publish"], turn', ended, h))
  <2>1. PICK i \in 1..Len(Publishers) : Publishers[i] = q
    BY SinkPlace
  <2>2. Share(delivered[q], pending[q], q, Offered(q, "offer", turn, ended, h))
    BY <1>0, <1>1 DEF SinkInv
  <2>3. Offered(q, "offer", turn, ended, h) = IF ~last /\ turn <= i THEN h - 1 ELSE h
    BY <1>0, <2>1, OfferedIs
  <2>4. Offered(q, pc'["publish"], turn', ended, h) = IF ~last /\ turn < i THEN h - 1 ELSE h
    <3>1. CASE pc'["publish"] = "send" /\ turn' = turn
      BY <1>0, <2>1, <3>1, OfferedIs
    <3>2. CASE pc'["publish"] = "offer" /\ turn' = turn + 1
      <4>1. (turn + 1 <= i <=> turn < i) /\ turn + 1 \in Nat
        BY <1>0
      <4>2. Offered(q, "offer", turn + 1, ended, h) = IF ~last /\ turn + 1 <= i THEN h - 1 ELSE h
        BY <1>0, <2>1, <4>1, OfferedIs
      <4> QED BY <3>2, <4>1, <4>2
    <3> QED BY <1>0, <3>1, <3>2
  <2>5. CASE i # turn
    <3>1. q # p
      BY <1>0, <2>1, <2>5, PluginAssumption
    <3>2. pending'[q] = pending[q]
      BY <1>0, <3>1, SinkTypes
    <3>3. turn <= i <=> turn < i
      BY <1>0, <2>5
    <3> QED BY <2>2, <2>3, <2>4, <3>2, <3>3
  <2>6. CASE i = turn
    <3>1. q = p /\ turn <= i /\ ~(turn < i) /\ pending'[q] = b
      BY <1>0, <2>1, <2>6, SinkTypes
    <3>2. CASE last
      BY <2>2, <2>3, <2>4, <3>1, <3>2
    <3>3. CASE ~last
      <4>1. Share(delivered[q], pending[q], q, h - 1) /\ pending[q] \in Seq(Nat) /\ h \in Wanted
        BY <1>2, <2>2, <2>3, <3>1, <3>3, SinkTypes
      <4>2. Share(delivered[q], Append(pending[q], h), q, h)
        BY ONLY <4>1, ShareJoin
      <4> QED BY <2>4, <3>1, <3>3, <4>2
    <3> QED BY <3>2, <3>3
  <2> QED BY <2>5, <2>6
<1>4. ASSUME last, NEW i \in 1..Len(Publishers), i < turn' PROVE pending'[Publishers[i]] = <<>>
  <2>1. Publishers[i] \in Sinks
    BY AwaitsIs
  <2>2. CASE i < turn
    <3>1. pending[Publishers[i]] = <<>> /\ Publishers[i] # p
      BY <1>0, <1>1, <1>4, <2>2, PluginAssumption DEF SinkInv
    <3> QED BY <1>0, <2>1, <3>1, SinkTypes
  <2>3. CASE ~(i < turn)
    <3>1. i = turn /\ b = <<>>
      BY <1>0, <1>4, <2>3
    <3> QED BY <1>0, <3>1, SinkTypes
  <2> QED BY <2>2, <2>3
<1>5. pc'["publish"] # "done"
  BY <1>0
<1> HIDE DEF p, b
<1> QED BY <1>0, <1>3, <1>4, <1>5 DEF SinkInv

LEMMA PublishOfferedSinks ==
    ASSUME OrderInv, SinkInv, PublishOffered
    PROVE  SinkInv'
<1> USE StageTypes DEF OrderInv
<1>0. /\ pc["publish"] = "offer" /\ turn > Len(Publishers) /\ turn \in Nat
      /\ UNCHANGED <<hand, ended, delivered, raised, pending, turn>>
      /\ pc'["publish"] = IF "publish" \in ended THEN "done" ELSE "get"
  BY SinkTypes DEF PublishOffered, At, GoTo
<1>1. raised["publish"] = "none"
  BY <1>0, AliveStage
<1>2. ASSUME NEW p \in Sinks
      PROVE  Share(delivered[p], pending[p], p,
                   Offered(p, pc'["publish"], turn, ended, hand["publish"]))
  <2>1. PICK i \in 1..Len(Publishers) : Publishers[i] = p
    BY SinkPlace
  <2>2. Share(delivered[p], pending[p], p,
              Offered(p, "offer", turn, ended, hand["publish"]))
    BY <1>0, <1>1 DEF SinkInv
  <2>3. ~(turn <= i)
    BY <1>0, SinkTypes
  <2>4. /\ Offered(p, "offer", turn, ended, hand["publish"]) = hand["publish"]
        /\ Offered(p, pc'["publish"], turn, ended, hand["publish"]) = hand["publish"]
    BY <1>0, <2>1, <2>3, OfferedIs, SinkTypes
  <2> QED BY <2>2, <2>4
<1> QED BY <1>0, <1>1, <1>2 DEF SinkInv

LEMMA PublishSendSinks ==
    ASSUME OrderInv, SinkInv, PublishSend
    PROVE  SinkInv'
<1> USE StageTypes DEF OrderInv
<1> DEFINE p == Publishers[turn]
           h == hand["publish"]
           last == "publish" \in ended
           e == IF Cleared(p) = {} THEN delivered[p] ELSE Append(delivered[p], Cleared(p))
<1>0. /\ pc["publish"] = "send" /\ turn \in 1..Len(Publishers) /\ p \in Sinks
      /\ UNCHANGED <<hand, ended, raised>> /\ turn \in Nat /\ turn' = turn + 1
      /\ pc'["publish"] = "offer" /\ h \in Nat
      /\ pending'[p] = <<>> /\ \A q \in Sinks \ {p} : pending'[q] = pending[q]
      /\ delivered'[p] = e /\ \A q \in Sinks \ {p} : delivered'[q] = delivered[q]
  <2>1. pc["publish"] = "send" /\ turn <= Len(Publishers)
    BY DEF PublishSend, At, TypeInv, LocationInv
  <2>2. turn \in 1..Len(Publishers) /\ p \in Sinks
    BY <2>1, TurnOK
  <2>3. delivered'[p] = e /\ \A q \in Sinks \ {p} : delivered'[q] = delivered[q]
    BY <2>2, SinkTypes DEF PublishSend
  <2>4. pending'[p] = <<>> /\ \A q \in Sinks \ {p} : pending'[q] = pending[q]
    BY <2>2, SinkTypes DEF PublishSend
  <2> HIDE DEF e
  <2> QED BY <2>1, <2>2, <2>3, <2>4, SinkTypes DEF PublishSend, GoTo
<1>1. raised["publish"] = "none"
  BY <1>0, AliveStage
<1>2. Share(delivered[p], pending[p], p, h)
  <2>1. Share(delivered[p], pending[p], p, Offered(p, "send", turn, ended, h))
    BY <1>0, <1>1 DEF SinkInv
  <2>2. ~(turn < turn) /\ turn \in Nat /\ h \in Nat /\ turn \in 1..Len(Publishers)
    BY <1>0
  <2>3. Offered(Publishers[turn], "send", turn, ended, h) = h
    BY ONLY <2>2, OfferedIs
  <2> QED BY <2>1, <2>3
<1>3. /\ Cleared(p) \in SUBSET Records /\ delivered[p] \in Seq(SUBSET Records)
      /\ Cleared(p) = {r \in Range(pending[p]) : Tlp[r] <= MaxTlp[p]}
      /\ InOrder(delivered[p], p)
  BY <1>0, ClearedOK, SinkTypes DEF Cleared, SinkInv
<1> HIDE DEF p, h
<1>4. Share(e, <<>>, p, h)
  BY ONLY <1>0, <1>2, <1>3, ShareSend
<1>5. InOrder(e, p)
  <2>1. InOrder(Append(delivered[p], Cleared(p)), p)
    BY ONLY <1>2, <1>3, SendInOrder
  <2> QED BY <1>3, <2>1
<1> HIDE DEF e
<1>6. turn \in Nat /\ h \in Nat
  BY <1>0
<1>7. ASSUME NEW q \in Sinks
      PROVE  Share(delivered'[q], pending'[q], q, Offered(q, "offer", turn + 1, ended, h))
  <2>1. PICK i \in 1..Len(Publishers) : Publishers[i] = q
    BY SinkPlace
  <2>2. (turn + 1 <= i <=> turn < i) /\ turn + 1 \in Nat
    BY <1>0
  <2>3. Offered(q, "offer", turn + 1, ended, h) = IF ~last /\ turn < i THEN h - 1 ELSE h
    <3>1. Offered(q, "offer", turn + 1, ended, h) = IF ~last /\ turn + 1 <= i THEN h - 1 ELSE h
      BY ONLY <1>6, <2>1, <2>2, OfferedIs
    <3> QED BY <2>2, <3>1
  <2>4. CASE q = p
    <3>1. ~(turn < i)
      BY <1>0, <2>1, <2>4, PluginAssumption DEF p
    <3> QED BY <1>0, <1>4, <2>3, <2>4, <3>1
  <2>5. CASE q # p
    <3>1. Share(delivered[q], pending[q], q, Offered(q, "send", turn, ended, h))
      BY <1>0, <1>1 DEF SinkInv, h
    <3>2. Offered(q, "send", turn, ended, h) = IF ~last /\ turn < i THEN h - 1 ELSE h
      <4>1. Offered(Publishers[i], "send", turn, ended, h)
               = IF "publish" \notin ended /\ turn < i THEN h - 1 ELSE h
        BY ONLY <1>6, i \in 1..Len(Publishers), OfferedIs
      <4> QED BY ONLY <2>1, <4>1
    <3> QED BY <1>0, <2>3, <2>5, <3>1, <3>2
  <2> QED BY <2>4, <2>5
<1>8. \A q \in Sinks : InOrder(delivered'[q], q)
  BY <1>0, <1>5 DEF SinkInv
<1>9. ASSUME last, NEW i \in 1..Len(Publishers), i < turn' PROVE pending'[Publishers[i]] = <<>>
  <2>1. Publishers[i] \in Sinks
    BY AwaitsIs
  <2>2. CASE i < turn
    BY <1>0, <1>1, <1>9, <2>1, <2>2 DEF SinkInv
  <2>3. CASE ~(i < turn)
    BY <1>0, <1>9, <2>3 DEF p
  <2> QED BY <2>2, <2>3
<1> QED BY <1>0, <1>7, <1>8, <1>9 DEF SinkInv, h

\* A fault or a cancellation may cut a request of publish short.
LEMMA PublishFailSinks ==
    ASSUME OrderInv, SinkInv,
           Deliver("publish") \/ ("publish" \in DOMAIN PluginCall /\ Fault("publish"))
    PROVE  SinkInv'
<1> USE StageTypes DEF OrderInv
<1>1. raised'["publish"] # "none"
  BY Unwinds
<1>2. SideEffect("publish")
  BY DEF Deliver, Fault
<1>3. \A q \in Sinks : InOrder(delivered'[q], q)
  <2>1. CASE UNCHANGED delivered
    BY <2>1 DEF SinkInv
  <2>2. CASE ~UNCHANGED delivered
    <3> DEFINE p == Publishers[turn]
    <3>1. pc["publish"] = "send"
      BY <1>2, <2>2 DEF SideEffect
    <3>2. turn \in 1..Len(Publishers) /\ p \in Sinks /\ turn \in Nat /\ hand["publish"] \in Nat
      BY <3>1, TurnOK, SinkTypes DEF TypeInv, LocationInv
    <3>3. PICK k \in Cleared(p) :
             delivered' = [delivered EXCEPT ![p] = Append(@, {r \in Cleared(p) : r <= k})]
      BY <1>2, <2>2 DEF SideEffect
    <3> DEFINE C == {r \in Cleared(p) : r <= k}
    <3>4. /\ C \in SUBSET Records /\ delivered[p] \in Seq(SUBSET Records)
          /\ C \subseteq {r \in Range(pending[p]) : Tlp[r] <= MaxTlp[p]}
          /\ InOrder(delivered[p], p)
      BY <3>2, ClearedOK, SinkTypes DEF Cleared, SinkInv
    <3>5. Share(delivered[p], pending[p], p, Offered(p, "send", turn, ended, hand["publish"]))
      BY <3>1, <3>2, AliveStage DEF SinkInv
    <3>6. delivered'[p] = Append(delivered[p], C) /\ \A q \in Sinks \ {p} : delivered'[q] = delivered[q]
      BY <3>2, <3>3, SinkTypes
    <3> HIDE DEF p, C
    <3>7. InOrder(Append(delivered[p], C), p)
      BY ONLY <3>4, <3>5, SendInOrder
    <3> QED BY <3>6, <3>7 DEF SinkInv
  <2> QED BY <2>1, <2>2
<1> QED BY <1>1, <1>3 DEF SinkInv

\* No other task and no step of the group touches what publish has.
LEMMA SinkFrame ==
    ASSUME OrderInv, SinkInv, [Next]_vars, ~StageStep("publish")
    PROVE  SinkInv'
<1> USE StageTypes DEF OrderInv
<1>1. /\ UNCHANGED <<pending, turn, delivered>>
      /\ pc'["publish"] = pc["publish"] /\ raised'["publish"] = raised["publish"]
      /\ hand'["publish"] = hand["publish"]
      /\ "publish" \in ended' <=> "publish" \in ended
  <2>1. CASE GroupStep
    BY <2>1 DEF GroupStep, Abort, CancelRun, Finish, vars
  <2>2. CASE \E s \in Stages : StageStep(s)
    BY <2>2, StageFrame
  <2> QED BY <2>1, <2>2, NextSplit
<1>2. ASSUME NEW p \in Sinks
      PROVE  Offered(p, pc["publish"], turn, ended', hand["publish"])
                = Offered(p, pc["publish"], turn, ended, hand["publish"])
  BY <1>1 DEF Offered, Awaits
<1> QED BY <1>1, <1>2 DEF SinkInv

LEMMA InitSinkInv == Init => SinkInv
<1> SUFFICES ASSUME Init PROVE SinkInv
  OBVIOUS
<1>1. /\ pc["publish"] = "get" /\ hand["publish"] = 0 /\ ended = {}
      /\ \A p \in Sinks : pending[p] = <<>> /\ delivered[p] = <<>>
  BY DEF Init, Stages
<1>2. ASSUME NEW p \in Sinks PROVE InOrder(<<>>, p)
  BY RangeEmpty DEF InOrder
<1>3. ASSUME NEW p \in Sinks
      PROVE  Share(<<>>, <<>>, p, Offered(p, "get", turn, ended, 0))
  <2>1. Offered(p, "get", turn, ended, 0) = 0
    BY DEF Offered, Awaits
  <2>2. \A r \in Wanted : ~(r <= 0)
    BY KindsType
  <2>3. UNION Range(<<>>) = Due(p, 0)
    BY <2>2, RangeEmpty DEF Due
  <2>4. Range(<<>>) = Between(Wanted, 0, 0)
    BY <2>2, RangeEmpty DEF Between
  <2> QED BY <2>1, <2>3, <2>4 DEF Share
<1> QED BY <1>1, <1>2, <1>3 DEF SinkInv

LEMMA StepSinkInv ==
    ASSUME OrderInv, EndsInv, SinkInv, [Next]_vars
    PROVE  SinkInv'
<1>1. CASE RunPublish
  BY <1>1, PublishGetSinks, PublishOfferSinks, PublishOfferedSinks, PublishSendSinks
     DEF RunPublish
<1>2. CASE Deliver("publish") \/ ("publish" \in DOMAIN PluginCall /\ Fault("publish"))
  BY <1>2, PublishFailSinks
<1>3. CASE ~StageStep("publish")
  BY <1>3, SinkFrame
<1> QED BY <1>1, <1>2, <1>3 DEF StageStep

\* Over all its requests, whole or cut short by a fault, an extra publisher
\* gets each record at most once, in feed order, and none above its max_tlp.
THEOREM FanOutIsOrdered == Spec => []FanOutInOrder
<1>1. OrderInv /\ [Next]_vars => OrderInv'
  BY StepOrderInv
<1>2. OrderInv /\ EndsInv /\ [Next]_vars => EndsInv'
  BY StepEndsInv
<1>3. OrderInv /\ EndsInv /\ SinkInv /\ [Next]_vars => SinkInv'
  BY StepSinkInv
<1>4. SinkInv => FanOutInOrder
  BY DEF SinkInv, InOrder, FanOutInOrder
<1> QED BY InitOrderInv, InitEndsInv, InitSinkInv, <1>1, <1>2, <1>3, <1>4, PTL DEF Spec

\* When every stage has ended normally, every publisher has got its share.
LEMMA CompleteFanOut ==
    ASSUME OrderInv, EndsInv, SinkInv, \A s \in Stages : raised[s] = "none", Done = Stages,
           NEW p \in Sinks
    PROVE  UNION Range(delivered[p]) = {r \in Wanted : Tlp[r] <= MaxTlp[p]}
<1> USE StageTypes DEF OrderInv
<1> DEFINE h == hand["publish"]
<1>1. pc["publish"] = "done" /\ pc["persist"] = "done"
  BY DEF Done
<1>2. "publish" \in ended /\ turn > Len(Publishers)
  BY <1>1 DEF SinkInv
<1>3. pending[p] = <<>>
  <2>1. PICK i \in 1..Len(Publishers) : Publishers[i] = p
    BY SinkPlace
  <2>2. i < turn
    BY <1>2, SinkTypes
  <2> QED BY <1>2, <2>1, <2>2 DEF SinkInv
<1>4. h \in Nat /\ queue["persist"] = <<>> /\ batch = <<>> /\ Stored = Wanted
  BY <1>1, <1>2, SinkTypes, CompleteRun DEF EndsInv, Drained
<1>5. \A r \in Wanted : r \in Nat /\ r <= h
  <2>1. PICK m, hi \in Nat :
           /\ Range(db) = UpTo(Wanted, m) /\ Link(queue["persist"], Wanted, h, hi)
           /\ Range(batch) = Between(Wanted, hi, m)
    BY <1>1 DEF FlowInv, PersistLine, Line
  <2>2. Range(queue["persist"]) = {} /\ Range(batch) = {}
    BY <1>4, RangeEmpty
  <2>3. Between(Wanted, h, hi) = {} /\ Between(Wanted, hi, m) = {}
    BY <2>1, <2>2 DEF Link
  <2>4. ASSUME NEW r \in Wanted PROVE r \in Nat /\ r <= h
    <3>1. r \in Nat /\ r <= m
      BY <1>4, <2>1, KindsType DEF Stored, UpTo
    <3>2. ~(hi < r /\ r <= m) /\ ~(h < r /\ r <= hi)
      BY <2>3, BetweenIs
    <3> QED BY <1>4, <3>1, <3>2
  <2> QED BY <2>4
<1>6. Share(delivered[p], <<>>, p, h)
  <2>1. Share(delivered[p], pending[p], p, Offered(p, "done", turn, ended, h))
    BY <1>1 DEF SinkInv
  <2>2. Offered(p, "done", turn, ended, h) = h
    BY DEF Offered, Awaits
  <2> QED BY <1>3, <2>1, <2>2
<1> HIDE DEF h
<1>7. PICK cut \in Nat :
         UNION Range(delivered[p]) = Due(p, cut) /\ Range(<<>>) = Between(Wanted, cut, h)
  BY <1>6 DEF Share
<1>8. ASSUME NEW r \in Wanted PROVE r <= cut
  <2>1. ~(cut < r /\ r <= h)
    BY <1>7, RangeEmpty, BetweenIs
  <2> QED BY <1>5, <2>1
<1> QED BY <1>7, <1>8 DEF Due

\* run_with_outcome reports SUCCESS only for a complete run: all wanted
\* records are stored, and every extra publisher got all it is cleared for.
THEOREM SuccessMeansComplete == Spec => []SuccessIsComplete
<1>1. OrderInv /\ [Next]_vars => OrderInv'
  BY StepOrderInv
<1>2. OrderInv /\ EndsInv /\ [Next]_vars => EndsInv'
  BY StepEndsInv
<1>3. OrderInv /\ EndsInv /\ SinkInv /\ [Next]_vars => SinkInv'
  BY StepSinkInv
<1>4. ASSUME OrderInv, EndsInv, SinkInv PROVE SuccessIsComplete
  <2> SUFFICES ASSUME result = "SUCCESS"
               PROVE  /\ Stored = Wanted
                      /\ \A p \in Sinks :
                            UNION Range(delivered[p]) = {r \in Wanted : Tlp[r] <= MaxTlp[p]}
    BY DEF SuccessIsComplete
  <2>1. Done = Stages /\ \A s \in Stages : raised[s] = "none"
    BY <1>4 DEF OrderInv, GroupInv
  <2> QED BY <1>4, <2>1, CompleteRun, CompleteFanOut
<1> QED BY InitOrderInv, InitEndsInv, InitSinkInv, <1>1, <1>2, <1>3, <1>4, PTL DEF Spec

-----------------------------------------------------------------------------
(* A healthy run never comes to rest.                                      *)

LEMMA InitPlacesInv == Init => PlacesInv /\ HandoverInv
<1> SUFFICES ASSUME Init PROVE PlacesInv /\ HandoverInv
  OBVIOUS
<1>1. \A s \in Stages : pc[s] = IF s = "fetch" THEN "next" ELSE "get"
  BY DEF Init
<1>2. PlacesInv
  BY <1>1 DEF PlacesInv, Places, Stages, Init
<1>3. \A c \in Stages \ {"fetch"} : Upstream[c] \in Stages
  BY DEF Upstream, Stages
<1> QED BY <1>1, <1>2, <1>3 DEF HandoverInv

\* A step takes a stage to one of its places.
LEMMA StagePlaces ==
    ASSUME TypeInv, PlacesInv, NEW s \in Stages, StageStep(s)
    PROVE  /\ pc'[s] \in Places[s]
           /\ s \in {"persist", "publish"} /\ s \in ended' => pc'[s] # "get"
<1> USE StageTypes
<1>0. pc \in [Stages -> Locations]
  BY DEF TypeInv, TypeOK, TaskOK
<1>1. CASE s = "fetch" /\ RunFetch
  BY <1>0, <1>1 DEF RunFetch, FetchNext, FetchPut, Close, GoTo, Places
<1>2. CASE s = "parse" /\ RunParse
  BY <1>0, <1>2 DEF RunParse, ParseGet, ParsePut, ParseExhausted, Close, GoTo, Places, PlacesInv
<1>3. CASE s = "normalize" /\ RunNormalize
  <2>1. pc' = pc \/ pc'[s] \in {"get", "put", "closing", "done"}
    BY <1>0, <1>3 DEF RunNormalize, NormalizeGet, Raise, Unwind, Pass, Close, GoTo
  <2> QED BY <1>3, <2>1 DEF Places, PlacesInv
<1>4. CASE s = "enrich" /\ RunEnrich
  BY <1>0, <1>4 DEF RunEnrich, EnrichGet, EnrichWork, Pass, Close, GoTo, Places
<1>5. CASE s = "dedup" /\ RunDedup
  BY <1>0, <1>5 DEF RunDedup, DedupGet, Pass, Close, GoTo, Places
<1>6. CASE s = "persist" /\ RunPersist
  <2>1. CASE PersistGet
    <3>1. pc'[s] \in {"get", "commit", "closing"} /\ (s \in ended' => s \in ended \/ pc'[s] # "get")
      BY <1>0, <1>6, <2>1 DEF PersistGet, GoTo, FinalFlush, FlushStart
    <3>2. s \notin ended
      BY <1>6, <2>1 DEF PersistGet, At, PlacesInv
    <3> QED BY <1>6, <3>1, <3>2 DEF Places
  <2>2. CASE PersistCommit
    BY <1>0, <1>6, <2>2 DEF PersistCommit, Raise, Unwind, GoTo, Places
  <2>3. CASE PersistForward
    BY <1>0, <1>6, <2>3 DEF PersistForward, GoTo, Places
  <2>4. CASE Close("persist")
    BY <1>0, <1>6, <2>4 DEF Close, GoTo, Places
  <2> QED BY <1>6, <2>1, <2>2, <2>3, <2>4 DEF RunPersist
<1>7. CASE s = "publish" /\ RunPublish
  <2>1. /\ pc'[s] \in {"get", "offer", "send", "done"}
        /\ pc'[s] = "get" => s \notin ended'
    BY <1>0, <1>7 DEF RunPublish, PublishGet, PublishOffer, PublishOffered, PublishSend, GoTo, At
  <2> QED BY <1>7, <2>1 DEF Places
<1>8. CASE Deliver(s) \/ (s \in DOMAIN PluginCall /\ Fault(s))
  <2>1. pc'[s] = "done" \/ (pc'[s] = "closing" /\ s # "publish")
    BY <1>0, <1>8 DEF Deliver, Fault, Raise, Unwind, GoTo, PlacesInv, Places
  <2> QED BY <2>1 DEF Places
<1> QED
  BY <1>1, <1>2, <1>3, <1>4, <1>5, <1>6, <1>7, <1>8 DEF StageStep

\* A stage that ends normally has just put its sentinel.
LEMMA ClosesQueue ==
    ASSUME TypeInv, NEW u \in Producers, StageStep(u), raised'[u] = "none", pc'[u] = "done"
    PROVE  EOS \in Range(queue'[u])
<1> USE StageTypes
<1>0. /\ pc \in [Stages -> Locations]
      /\ DOMAIN raised = Stages /\ raised = [t \in Stages |-> raised[t]]
  BY DEF TypeInv, TypeOK, TaskOK
<1>1. Close(u)
  <2>1. CASE u = "fetch" /\ RunFetch
    BY <1>0, <2>1 DEF RunFetch, FetchNext, FetchPut, GoTo
  <2>2. CASE u = "parse" /\ RunParse
    BY <1>0, <2>2 DEF RunParse, ParseGet, ParsePut, ParseExhausted, GoTo, At
  <2>3. CASE u = "normalize" /\ RunNormalize
    BY <1>0, <2>3 DEF RunNormalize, NormalizeGet, Raise, Unwind, Pass, GoTo, At
  <2>4. CASE u = "enrich" /\ RunEnrich
    BY <1>0, <2>4 DEF RunEnrich, EnrichGet, EnrichWork, Pass, GoTo
  <2>5. CASE u = "dedup" /\ RunDedup
    BY <1>0, <2>5 DEF RunDedup, DedupGet, Pass, GoTo
  <2>6. CASE u = "persist" /\ RunPersist
    BY <1>0, <2>6 DEF RunPersist, PersistGet, PersistCommit, PersistForward, Raise, Unwind,
                      FinalFlush, FlushStart, GoTo
  <2>7. CASE Deliver(u) \/ (u \in DOMAIN PluginCall /\ Fault(u))
    BY <2>7, Unwinds
  <2> QED BY <2>1, <2>2, <2>3, <2>4, <2>5, <2>6, <2>7 DEF StageStep
<1>2. queue'[u] = Append(queue[u], EOS)
  BY <1>1, PutMoves DEF Close
<1>3. queue[u] \in Seq(Nat) /\ EOS \in Nat
  BY QueueType DEF EOS
<1> QED BY <1>2, <1>3, AppendAt

\* A stage hears the sentinel it takes, and does not forget it.
LEMMA Hears ==
    ASSUME OrderInv, NEW c \in Stages \ {"fetch"}, StageStep(c)
    PROVE  /\ Heard(c) => Heard(c)'
           /\ \/ queue'[Upstream[c]] = queue[Upstream[c]]
              \/ Take(c) /\ (Arrival(c) = EOS => Heard(c)')
<1> USE StageTypes DEF OrderInv
<1>0. pc \in [Stages -> Locations]
  BY DEF TypeInv, TypeOK, TaskOK
<1>1. pc[c] # "done" /\ (pc[c] = "closing" => pc'[c] = "done")
  BY DoneStays, OwnStep
<1>2. CASE c \in Producers /\ Close(c)
  <2>1. queue'[Upstream[c]] = queue[Upstream[c]]
    BY <1>2 DEF Close, Put, Upstream, TypeInv, TypeOK, QueueOK
  <2> QED BY <1>0, <1>1, <1>2, <2>1 DEF Close, Heard, At
<1>3. CASE c \in {"normalize", "enrich", "dedup"} /\ Pass(c)
  <2>1. queue'[Upstream[c]] = queue[Upstream[c]]
    BY <1>3 DEF Pass, Put, Upstream, TypeInv, TypeOK, QueueOK
  <2> QED BY <1>0, <1>1, <1>3, <2>1 DEF Pass, Heard, At
<1>4. CASE c = "parse" /\ (ParseGet \/ ParsePut \/ ParseExhausted)
  BY <1>0, <1>4 DEF ParseGet, ParsePut, ParseExhausted, Put, GoTo, At, Heard, Upstream,
                    TypeInv, TypeOK, QueueOK
<1>5. CASE c = "normalize" /\ NormalizeGet
  <2>1. pc[c] = "get" /\ Take(c)
    BY <1>5 DEF NormalizeGet, At
  <2>2. Arrival(c) = EOS => pc'[c] = "closing"
    BY <1>0, <1>5 DEF NormalizeGet, GoTo
  <2> QED BY <1>5, <2>1, <2>2 DEF Heard
<1>6. CASE c = "enrich" /\ (EnrichGet \/ EnrichWork)
  BY <1>0, <1>6 DEF EnrichGet, EnrichWork, GoTo, At, Heard
<1>7. CASE c = "dedup" /\ DedupGet
  BY <1>0, <1>7 DEF DedupGet, GoTo, At, Heard
<1>8. CASE c = "persist" /\ (PersistGet \/ PersistCommit \/ PersistForward)
  <2>1. CASE PersistGet
    BY <1>8, <2>1 DEF PersistGet, At, Heard
  <2>2. CASE PersistCommit
    BY <1>8, <2>2 DEF PersistCommit, At, Heard
  <2>3. CASE PersistForward
    BY <1>8, <2>3 DEF PersistForward, Put, At, Heard, Upstream, TypeInv, TypeOK, QueueOK
  <2> QED BY <1>8, <2>1, <2>2, <2>3
<1>9. CASE c = "publish" /\ RunPublish
  BY <1>9 DEF RunPublish, PublishGet, PublishOffer, PublishOffered, PublishSend, At, Heard
<1>10. CASE Deliver(c) \/ (c \in DOMAIN PluginCall /\ Fault(c))
  BY <1>10, Unwinds DEF Heard
<1> QED
  BY <1>2, <1>3, <1>4, <1>5, <1>6, <1>7, <1>8, <1>9, <1>10
     DEF StageStep, RunParse, RunNormalize, RunEnrich, RunDedup, RunPersist

LEMMA StepMovesInv ==
    ASSUME OrderInv, PlacesInv, HandoverInv, [Next]_vars
    PROVE  PlacesInv' /\ HandoverInv'
<1> USE StageTypes DEF OrderInv
<1>1. CASE GroupStep
  <2>1. UNCHANGED <<pc, queue, ended, raised>>
    BY <1>1 DEF GroupStep, Abort, CancelRun, Finish, vars
  <2> QED BY <2>1 DEF PlacesInv, HandoverInv, Heard
<1>2. ASSUME NEW s \in Stages, StageStep(s) PROVE PlacesInv'
  <2>1. /\ \A t \in Stages \ {s} : pc'[t] = pc[t]
        /\ s # "persist" => ("persist" \in ended' <=> "persist" \in ended)
        /\ s # "publish" => ("publish" \in ended' <=> "publish" \in ended)
    BY <1>2, StageFrame
  <2>2. /\ pc'[s] \in Places[s]
        /\ s \in {"persist", "publish"} /\ s \in ended' => pc'[s] # "get"
    BY <1>2, StagePlaces
  <2> QED BY <2>1, <2>2 DEF PlacesInv
<1>3. ASSUME NEW s \in Stages, StageStep(s), NEW c \in Stages \ {"fetch"},
             raised'[Upstream[c]] = "none", pc'[Upstream[c]] = "done"
      PROVE  EOS \in Range(queue'[Upstream[c]]) \/ Heard(c)'
  <2> DEFINE u == Upstream[c]
  <2>0. u \in Producers /\ u \in Stages /\ u # c
    BY DEF Upstream
  <2> HIDE DEF u
  <2>1. CASE s = u
    BY <1>3, <2>0, <2>1, ClosesQueue DEF u
  <2>2. CASE s # u
    <3>1. pc[u] = "done" /\ raised[u] = "none"
      BY <1>3, <2>0, <2>2, StageFrame DEF u
    <3>2. EOS \in Range(queue[u]) \/ Heard(c)
      BY <3>1 DEF HandoverInv, u
    <3>3. CASE s = c
      <4>1. /\ Heard(c) => Heard(c)'
            /\ queue'[u] = queue[u] \/ (Take(c) /\ (Arrival(c) = EOS => Heard(c)'))
        BY <1>3, <3>3, Hears DEF u
      <4>2. CASE Take(c) /\ EOS \in Range(queue[u]) /\ Arrival(c) # EOS
        <5>1. queue[u] # <<>> /\ queue'[u] = Tail(queue[u]) /\ Arrival(c) = Head(queue[u])
          BY <4>2, TakeMoves DEF u
        <5>2. queue[u] \in Seq(Nat)
          BY <2>0, QueueType
        <5>3. Range(queue[u]) = Range(queue'[u]) \cup {Arrival(c)}
          BY <5>1, <5>2, TailAt
        <5> QED BY <4>2, <5>3 DEF u
      <4> QED BY <3>2, <4>1, <4>2 DEF u
    <3>4. CASE s # c
      <4>1. queue'[u] = queue[u]
        <5>1. s = "fetch" \/ u # Upstream[s]
          BY <3>4 DEF u, Upstream
        <5> QED BY <1>3, <2>0, <2>2, <5>1, StageFrame
      <4>2. /\ pc'[c] = pc[c]
            /\ c = "persist" => ("persist" \in ended' <=> "persist" \in ended)
            /\ c = "publish" => ("publish" \in ended' <=> "publish" \in ended)
        BY <1>3, <3>4, StageFrame
      <4>3. Heard(c) => Heard(c)'
        BY <4>2 DEF Heard
      <4> QED BY <3>2, <4>1, <4>3 DEF u
    <3> QED BY <3>3, <3>4
  <2> QED BY <2>1, <2>2
<1>4. CASE \E s \in Stages : StageStep(s)
  BY <1>2, <1>3, <1>4 DEF HandoverInv
<1> QED BY <1>1, <1>4, NextSplit

\* A stage that cannot go on although its consumer waits at an empty queue
\* waits at an empty queue itself.
LEMMA WaitsToo ==
    ASSUME OrderInv, PlacesInv, HandoverInv, \A s \in Stages : raised[s] = "none",
           \A s \in Stages : ~cancel[s] /\ ~CanStep(s),
           NEW c \in Stages \ {"fetch"}, pc[c] = "get", queue[Upstream[c]] = <<>>
    PROVE  /\ Upstream[c] # "fetch"
           /\ pc[Upstream[c]] = "get" /\ queue[Upstream[Upstream[c]]] = <<>>
<1> USE StageTypes DEF OrderInv
<1> DEFINE u == Upstream[c]
<1>0. u \in Producers /\ u \in Stages
  BY DEF Upstream
<1>1. Room(u)
  <2>1. Len(<<>>) = 0 /\ 0 < QueueMax
    BY SizeAssumption
  <2> QED BY <2>1 DEF Room
<1>2. ~Heard(c)
  BY DEF Heard, PlacesInv
<1>3. pc[u] # "done"
  <2>1. EOS \notin Range(queue[u])
    BY RangeEmpty
  <2> QED BY <1>0, <1>2, <2>1 DEF HandoverInv
<1> HIDE DEF u
<1>4. pc[u] \in Places[u] /\ ~CanStep(u) /\ ~cancel[u]
  BY <1>0 DEF PlacesInv
<1>5. /\ pc[u] \notin {"next", "work", "commit", "offer", "send", "emit", "put", "forward", "closing"}
      /\ pc[u] = "get" => ~Arrived(u)
  BY <1>1, <1>4 DEF CanStep
<1>6. pc[u] = "get" /\ u # "fetch"
  BY <1>0, <1>3, <1>4, <1>5 DEF Places
<1> QED BY <1>5, <1>6 DEF Arrived, u

\* When publish is done in a healthy run, so are all stages.
LEMMA AllDone ==
    ASSUME OrderInv, EndsInv, SinkInv, \A s \in Stages : raised[s] = "none",
           pc["publish"] = "done"
    PROVE  Done = Stages
<1> USE StageTypes DEF OrderInv
<1>1. pc["persist"] = "done"
  BY DEF SinkInv, EndsInv, Drained
<1>2. pc["dedup"] = "done"
  BY <1>1 DEF EndsInv, Drained
<1>3. pc["enrich"] = "done"
  BY <1>2 DEF EndsInv, Drained, Upstream
<1>4. pc["normalize"] = "done"
  BY <1>3 DEF EndsInv, Drained, Upstream
<1>5. pc["parse"] = "done"
  BY <1>4 DEF EndsInv, Drained, Upstream
<1>6. pc["fetch"] = "done"
  BY <1>5 DEF EndsInv, Drained, Upstream
<1>7. \A s \in Stages : pc[s] = "done"
  BY <1>1, <1>2, <1>3, <1>4, <1>5, <1>6
<1> QED BY <1>7 DEF Done

LEMMA HealthyMoves ==
    ASSUME OrderInv, EndsInv, SinkInv, PlacesInv, HandoverInv
    PROVE  KeepsMoving
<1> USE StageTypes DEF OrderInv
<1> SUFFICES ASSUME group = "open", \A s \in Stages : raised[s] = "none",
                    Done # Stages, \A s \in Stages : ~CanStep(s)
             PROVE  FALSE
  BY DEF KeepsMoving
<1>1. \A s \in Stages : ~cancel[s] /\ ~CanStep(s)
  BY DEF GroupInv
<1>2. pc["publish"] = "get" /\ queue["persist"] = <<>>
  <2>1. pc["publish"] # "done"
    BY AllDone
  <2>2. pc["publish"] \in {"get", "offer", "send", "done"}
    BY DEF PlacesInv, Places
  <2> QED BY <1>1, <2>1, <2>2 DEF CanStep, Arrived, Upstream
<1>3. \A c \in Stages \ {"fetch"} :
         pc[c] = "get" /\ queue[Upstream[c]] = <<>> =>
            /\ Upstream[c] # "fetch"
            /\ pc[Upstream[c]] = "get" /\ queue[Upstream[Upstream[c]]] = <<>>
  BY <1>1, WaitsToo
<1>4. pc["persist"] = "get" /\ queue["dedup"] = <<>>
  BY <1>2, <1>3 DEF Upstream
<1>5. pc["dedup"] = "get" /\ queue["enrich"] = <<>>
  BY <1>3, <1>4 DEF Upstream
<1>6. pc["enrich"] = "get" /\ queue["normalize"] = <<>>
  BY <1>3, <1>5 DEF Upstream
<1>7. pc["normalize"] = "get" /\ queue["parse"] = <<>>
  BY <1>3, <1>6 DEF Upstream
<1>8. pc["parse"] = "get" /\ queue["fetch"] = <<>>
  BY <1>3, <1>7 DEF Upstream
<1> QED BY <1>3, <1>8 DEF Upstream

\* Backpressure alone never blocks the stages, however small queue_maxsize
\* and batch_size: while nothing has raised and nobody has cancelled the run,
\* the tasks are all done or one of them finds the item, or the room, that
\* its next step needs.
THEOREM HealthyRunMoves == Spec => []KeepsMoving
<1>1. OrderInv /\ [Next]_vars => OrderInv'
  BY StepOrderInv
<1>2. OrderInv /\ EndsInv /\ [Next]_vars => EndsInv'
  BY StepEndsInv
<1>3. OrderInv /\ EndsInv /\ SinkInv /\ [Next]_vars => SinkInv'
  BY StepSinkInv
<1>4. OrderInv /\ PlacesInv /\ HandoverInv /\ [Next]_vars => PlacesInv' /\ HandoverInv'
  BY StepMovesInv
<1>5. OrderInv /\ EndsInv /\ SinkInv /\ PlacesInv /\ HandoverInv => KeepsMoving
  BY HealthyMoves
<1> QED BY InitOrderInv, InitEndsInv, InitSinkInv, InitPlacesInv, <1>1, <1>2, <1>3, <1>4,
           <1>5, PTL DEF Spec
=============================================================================
