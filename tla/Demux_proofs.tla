------------------------------ MODULE Demux_proofs ------------------------------
(***************************************************************************)
(* Proofs about Demux for any number of messages: the types at either end,  *)
(* and at the page that each endpoint reads a stream.                       *)
(***************************************************************************)
EXTENDS Demux, SequenceTheorems, TLAPS

-----------------------------------------------------------------------------
(* The inductive invariant of the page *)

\* At the page the endpoints are attached one by one, and before both readers run
\* the goroutine has read nothing and closed nothing.
Paused ==
    /\ pipe["called"] = "none" => owner < 1
    /\ pipe["served"] = "none" => owner < Attached
    /\ owner < Serving => loop = "reading" /\ \A e \in Endpoints : got[e] = <<>> /\ pipe[e] # "closed"

\* Messages as the other end sends them.
Message == [ep : Endpoints, n : 1..MaxSent]

\* Messages to an endpoint are on the wire in the order they were sent ...
Rising(w) == \A i, j \in 1..Len(w) : i < j /\ w[i].ep = w[j].ep => w[i].n < w[j].n

\* ... with none left out after the first r.
Chained(w, e, r) ==
    \A i \in 1..Len(w) : w[i].ep = e =>
        w[i].n > r /\ \A m \in (r + 1)..(w[i].n - 1) : \E j \in 1..(i - 1) : w[j] = [ep |-> e, n |-> m]

\* What the goroutine has read for an endpoint: what the reader took, and what is in
\* its hand.
Read(e) == Len(got[e]) + (IF hand.ep = e THEN 1 ELSE 0)

\* The next message of an endpoint is the one in the goroutine's hand, the ones after
\* that are on the wire, and while the websocket is up all that were sent are.
Streaming(e) ==
    /\ hand.ep = e => hand.n = Len(got[e]) + 1
    /\ Read(e) <= sent[e]
    /\ Chained(wire, e, Read(e))
    /\ conn = "up" => \A m \in (Read(e) + 1)..sent[e] :
                        \E j \in 1..Len(wire) : wire[j] = [ep |-> e, n |-> m]

\* Nothing is on the wire that was not sent.
Sent == \A i \in 1..Len(wire) : wire[i].n <= sent[wire[i].ep]

\* An endpoint that is closed misses what the goroutine reads for it from then on.
Streams == \A e \in Endpoints : pipe[e] # "closed" => Streaming(e)

IInv ==
    /\ TypeOK
    /\ Paused
    /\ Sent
    /\ Rising(wire)
    /\ Streams
    /\ StreamOrder

-----------------------------------------------------------------------------
(* Messages on the wire *)

\* The message that goes first is the next of its endpoint.
LEMMA FirstIsNext ==
  ASSUME NEW w \in Seq(Message), w # <<>>, NEW e \in Endpoints, NEW r \in Nat, Chained(w, e, r),
         w[1].ep = e
  PROVE  w[1].n = r + 1
<1>1. 1 \in 1..Len(w) /\ w[1].n \in Int
  <2>1. 1 \in 1..Len(w)
    BY EmptySeq
  <2>2. w[1] \in Message
    BY <2>1, ElementOfSeq
  <2> QED
    BY <2>1, <2>2, DemuxAssumption DEF Message
<1>2. w[1].n > r /\ \A m \in (r + 1)..(w[1].n - 1) : \E j \in 1..(1 - 1) : w[j] = [ep |-> e, n |-> m]
  BY <1>1 DEF Chained
<1>3. ASSUME r + 1 < w[1].n PROVE FALSE
  <2>1. r + 1 \in (r + 1)..(w[1].n - 1)
    BY <1>1, <1>3
  <2>2. PICK j \in 1..(1 - 1) : w[j] = [ep |-> e, n |-> r + 1]
    BY <1>2, <2>1
  <2> QED
    BY <2>2
<1> QED
  BY <1>1, <1>2, <1>3

\* What is left on the wire when it has gone is in order, and follows it.
LEMMA RestFollows ==
  ASSUME NEW w \in Seq(Message), w # <<>>, Rising(w)
  PROVE  /\ Rising(Tail(w))
         /\ \A e \in Endpoints, r \in Nat :
                Chained(w, e, r) => Chained(Tail(w), e, IF w[1].ep = e THEN r + 1 ELSE r)
<1>1. Len(Tail(w)) = Len(w) - 1 /\ \A i \in 1..Len(Tail(w)) : Tail(w)[i] = w[i + 1]
  BY HeadTailProperties
<1>2. Len(w) \in Nat /\ \A i \in 1..Len(w) : w[i].n \in Int /\ w[i].ep \in Endpoints
  <2>1. \A i \in 1..Len(w) : w[i] \in Message
    BY ElementOfSeq
  <2> QED
    BY <2>1, DemuxAssumption DEF Message
<1>3. Rising(Tail(w))
  BY <1>1, <1>2 DEF Rising
<1>4. ASSUME NEW e \in Endpoints, NEW r \in Nat, Chained(w, e, r), NEW s \in Nat,
             s = IF w[1].ep = e THEN r + 1 ELSE r,
             NEW i \in 1..Len(Tail(w)), Tail(w)[i].ep = e
      PROVE  /\ Tail(w)[i].n > s
             /\ \A m \in (s + 1)..(Tail(w)[i].n - 1) : \E j \in 1..(i - 1) : Tail(w)[j] = [ep |-> e, n |-> m]
  <2>1. i + 1 \in 1..Len(w) /\ Tail(w)[i] = w[i + 1] /\ 1 \in 1..Len(w)
    BY <1>1, <1>2
  <2>2. w[i + 1].n > r /\ \A m \in (r + 1)..(w[i + 1].n - 1) : \E j \in 1..i : w[j] = [ep |-> e, n |-> m]
    BY <1>4, <2>1 DEF Chained
  <2>3. w[1].ep = e => w[1].n = r + 1 /\ w[1].n < w[i + 1].n
    BY <1>4, <2>1, FirstIsNext DEF Rising
  <2>4. w[i + 1].n > s
    BY <1>2, <1>4, <2>1, <2>2, <2>3
  <2>5. ASSUME NEW m \in (s + 1)..(w[i + 1].n - 1) PROVE \E j \in 1..(i - 1) : Tail(w)[j] = [ep |-> e, n |-> m]
    <3>1. m \in (r + 1)..(w[i + 1].n - 1) /\ m > s
      BY <1>2, <1>4, <2>1
    <3>2. PICK j \in 1..i : w[j] = [ep |-> e, n |-> m]
      BY <2>2, <3>1
    <3>3. j # 1
      BY <1>4, <2>3, <3>1, <3>2
    <3>4. j - 1 \in 1..(i - 1) /\ j - 1 \in 1..Len(Tail(w)) /\ (j - 1) + 1 = j
      BY <3>3
    <3> QED
      BY <1>1, <3>2, <3>4
  <2> QED
    BY <2>1, <2>4, <2>5
<1>5. ASSUME NEW e \in Endpoints, NEW r \in Nat, Chained(w, e, r)
      PROVE  Chained(Tail(w), e, IF w[1].ep = e THEN r + 1 ELSE r)
  <2> DEFINE s == IF w[1].ep = e THEN r + 1 ELSE r
  <2>1. s \in Nat
    OBVIOUS
  <2> HIDE DEF s
  <2>2. \A i \in 1..Len(Tail(w)) : Tail(w)[i].ep = e =>
            /\ Tail(w)[i].n > s
            /\ \A m \in (s + 1)..(Tail(w)[i].n - 1) : \E j \in 1..(i - 1) : Tail(w)[j] = [ep |-> e, n |-> m]
    BY <1>4, <1>5, <2>1 DEF s
  <2>3. Chained(Tail(w), e, s)
    BY <2>2 DEF Chained
  <2> QED
    BY <2>3 DEF s
<1> QED
  BY <1>3, <1>5

\* A message that is sent goes last, and follows what is on the wire.
LEMMA SentIsLast ==
  ASSUME NEW w \in Seq(Message), NEW x \in Message
  PROVE  /\ Append(w, x) \in Seq(Message) /\ Len(Append(w, x)) = Len(w) + 1
         /\ Append(w, x)[Len(w) + 1] = x /\ \A i \in 1..Len(w) : Append(w, x)[i] = w[i]
BY AppendProperties

\* It is the next of its endpoint if it is one more than the last that was sent.
LEMMA SentFollows ==
  ASSUME NEW w \in Seq(Message), NEW x \in Message, NEW e \in Endpoints, NEW r \in Nat, Chained(w, e, r),
         x.ep = e => x.n > r /\ \A m \in (r + 1)..(x.n - 1) : \E j \in 1..Len(w) : w[j] = [ep |-> e, n |-> m]
  PROVE  Chained(Append(w, x), e, r)
<1> DEFINE v == Append(w, x)
<1>1. Len(w) \in Nat /\ Len(v) = Len(w) + 1 /\ v[Len(w) + 1] = x /\ \A i \in 1..Len(w) : v[i] = w[i]
  BY SentIsLast
<1> HIDE DEF v
<1>2. ASSUME NEW i \in 1..Len(v), v[i].ep = e
      PROVE  v[i].n > r /\ \A m \in (r + 1)..(v[i].n - 1) : \E j \in 1..(i - 1) : v[j] = [ep |-> e, n |-> m]
  <2>1. CASE i \in 1..Len(w)
    <3>1. w[i].n > r /\ \A m \in (r + 1)..(w[i].n - 1) : \E j \in 1..(i - 1) : w[j] = [ep |-> e, n |-> m]
      BY <1>1, <1>2, <2>1 DEF Chained
    <3>2. \A j \in 1..(i - 1) : v[j] = w[j]
      BY <1>1, <2>1
    <3> QED
      BY <1>1, <2>1, <3>1, <3>2
  <2>2. CASE i = Len(w) + 1
    <3>1. v[i] = x /\ i - 1 = Len(w)
      BY <1>1, <2>2
    <3> QED
      BY <1>1, <1>2, <3>1
  <2> QED
    BY <1>1, <2>1, <2>2
<1> QED
  BY <1>2 DEF Chained, v

\* Reading what comes next keeps what was read a stream.
LEMMA NextIsAppended ==
  ASSUME NEW s \in Seq(Int), s = [i \in 1..Len(s) |-> i]
  PROVE  Append(s, Len(s) + 1) = [i \in 1..Len(Append(s, Len(s) + 1)) |-> i]
<1> DEFINE t == Append(s, Len(s) + 1)
<1>1. Len(s) \in Nat /\ Len(s) + 1 \in Int
  OBVIOUS
<1>2. t \in Seq(Int) /\ Len(t) = Len(s) + 1 /\ (\A i \in 1..Len(s) : t[i] = s[i]) /\ t[Len(s) + 1] = Len(s) + 1
  BY <1>1, AppendProperties
<1>3. t = [i \in 1..Len(t) |-> t[i]]
  BY <1>2
<1> HIDE DEF t
<1>4. \A i \in 1..Len(s) : s[i] = i
  OBVIOUS
<1>5. \A i \in 1..Len(t) : t[i] = i
  BY <1>1, <1>2, <1>4
<1> QED
  BY <1>3, <1>5 DEF t

\* A wire that loses what was sent last is in order.
LEMMA PrefixFollows ==
  ASSUME NEW w \in Seq(Message), NEW v \in Prefixes(w)
  PROVE  /\ v \in Seq(Message) /\ Len(v) <= Len(w) /\ \A i \in 1..Len(v) : v[i] = w[i]
         /\ Rising(w) => Rising(v)
         /\ \A e \in Endpoints, r \in Nat : Chained(w, e, r) => Chained(v, e, r)
<1>1. PICK l \in 0..Len(w) : v = SubSeq(w, 1, l)
  BY DEF Prefixes
<1>2. \A i \in 1..l : w[i] \in Message
  BY ElementOfSeq
<1>3. v \in Seq(Message) /\ Len(v) = l /\ \A i \in 1..l : v[i] = w[i]
  <2>1. l \in Int /\ 1 \in Int
    OBVIOUS
  <2>2. /\ SubSeq(w, 1, l) \in Seq(Message)
        /\ Len(SubSeq(w, 1, l)) = IF 1 <= l THEN l - 1 + 1 ELSE 0
        /\ \A i \in 1..(l - 1 + 1) : SubSeq(w, 1, l)[i] = w[1 + i - 1]
    BY <1>2, <2>1, SubSeqProperties
  <2>3. \A i \in 1..l : 1 + i - 1 = i /\ i \in 1..(l - 1 + 1)
    OBVIOUS
  <2> QED
    BY <1>1, <2>2, <2>3
<1> QED
  BY <1>1, <1>3 DEF Rising, Chained

-----------------------------------------------------------------------------
(* Types, at either end *)

\* The numbers of the owner's steps, and where they lead.
LEMMA OwnerSteps ==
  /\ Attached = 2 /\ Serving = 3 /\ Over = IF Side = "browser" THEN 7 ELSE 5
  /\ AttachOrder[1] \in Endpoints /\ AttachOrder[2] \in Endpoints
  /\ Side = "browser" => AttachOrder[1] = "called" /\ AttachOrder[2] = "served"
BY DEF Attached, Serving, Over, Teardown, BrowserTeardown, ServerTeardown, AttachOrder, Endpoints

\* The initial states have their types, whichever end it is.
LEMMA TypeInit == Init => TypeOK
<1> SUFFICES ASSUME Init PROVE TypeOK
  OBVIOUS
<1>1. <<>> \in Seq([ep : Endpoints, n : 1..MaxSent]) /\ <<>> \in Seq(1..MaxSent)
  OBVIOUS
<1> QED
  BY <1>1, DemuxAssumption, OwnerSteps DEF Init, TypeOK, Endpoints, Nothing

\* ... and every step keeps them.
LEMMA TypeStep ==
  ASSUME TypeOK, [Next]_vars
  PROVE  TypeOK'
<1> USE DemuxAssumption DEF TypeOK, vars
<1>1. ASSUME NEW e \in Endpoints, Send(e) PROVE TypeOK'
  BY <1>1 DEF Send
<1>2. CASE Fail
  <2> USE <1>2 DEF Fail
  <2>1. wire' \in Seq(Message)
    BY PrefixFollows DEF Message
  <2> QED
    BY <2>1 DEF Message
<1>3. CASE Cancel
  BY <1>3 DEF Cancel
<1>4. CASE ReadMessage
  <2> USE <1>4 DEF ReadMessage
  <2>1. Head(wire) \in [ep : Endpoints, n : 1..MaxSent] /\ Tail(wire) \in Seq([ep : Endpoints, n : 1..MaxSent])
    BY HeadTailProperties
  <2>2. Head(wire) # Nothing
    BY <2>1 DEF Nothing, Endpoints
  <2> QED
    BY <2>1, <2>2
<1>5. CASE Input
  <2> USE <1>5 DEF Input
  <2>1. hand \in [ep : Endpoints, n : 1..MaxSent]
    OBVIOUS
  <2>2. Append(got[hand.ep], hand.n) \in Seq(1..MaxSent)
    BY <2>1, AppendProperties
  <2>3. got' \in [Endpoints -> Seq(1..MaxSent)]
    BY <2>1, <2>2
  <2> QED
    BY <2>3
<1>6. CASE LoopEnds
  BY <1>6 DEF LoopEnds
<1>7. ASSUME NEW e \in Endpoints, ReadEOF(e) PROVE TypeOK'
  BY <1>7 DEF ReadEOF
<1>8. ASSUME NEW e \in Endpoints, GiveUp(e) PROVE TypeOK'
  BY <1>8 DEF GiveUp
<1>9. CASE NewEndpoint
  <2> USE <1>9, OwnerSteps DEF NewEndpoint
  <2>1. owner \in {0, 1} /\ AttachOrder[owner + 1] \in Endpoints
    <3>1. owner \in {0, 1}
      OBVIOUS
    <3> QED
      BY <3>1
  <2>2. owner' \in 0..Over
    BY <2>1
  <2>3. pipe' \in [Endpoints -> {"none", "open", "closed"}]
    BY <2>1
  <2> QED
    BY <2>2, <2>3
<1>10. CASE StartReaders
  <2> USE <1>10, OwnerSteps DEF StartReaders
  <2>1. owner' \in 0..Over
    OBVIOUS
  <2> QED
    BY <2>1
<1>11. CASE TearDown
  <2> USE <1>11 DEF TearDown
  <2>1. owner' \in 0..Over
    BY OwnerSteps
  <2>2. conn' \in {"up", "failed", "closed"} /\ pipe' \in [Endpoints -> {"none", "open", "closed"}]
    OBVIOUS
  <2> QED
    BY <2>1, <2>2
<1>12. CASE UNCHANGED vars
  BY <1>12
<1> QED
  BY <1>1, <1>2, <1>3, <1>4, <1>5, <1>6, <1>7, <1>8, <1>9, <1>10, <1>11, <1>12
  DEF Next, Loop, Owner

\* Messages, pipes, readers and owner keep their types at either end, and the goroutine
\* has a message in its hand just while it writes it.
THEOREM DemuxTypes == Spec => []TypeOK
<1> QED
  BY TypeInit, TypeStep, PTL DEF Spec

-----------------------------------------------------------------------------
(* Every step at the page preserves the invariant *)

\* At the page every step preserves the invariant.
LEMMA Step ==
  ASSUME Side = "browser", IInv, [Next]_vars
  PROVE  IInv'
<1>1. TypeOK'
  BY TypeStep DEF IInv
<1>2. /\ TypeOK /\ wire \in Seq(Message) /\ Len(wire) \in Nat /\ sent \in [Endpoints -> 0..MaxSent]
      /\ MaxSent \in Nat /\ owner \in 0..Over
      /\ hand \in Message \cup {Nothing} /\ (hand # Nothing <=> loop = "writing")
      /\ got \in [Endpoints -> Seq(1..MaxSent)] /\ \A e \in Endpoints : Len(got[e]) \in Nat
      /\ pipe \in [Endpoints -> {"none", "open", "closed"}]
  BY DemuxAssumption DEF IInv, TypeOK, Message
<1>3. /\ \A i \in 1..Len(wire) : wire[i] \in Message /\ wire[i].ep \in Endpoints /\ wire[i].n \in Nat
      /\ \A e \in Endpoints : Read(e) \in Nat /\ sent[e] \in Nat
  <2>1. \A i \in 1..Len(wire) : wire[i] \in Message
    BY <1>2, ElementOfSeq
  <2>2. \A i \in 1..Len(wire) : wire[i].ep \in Endpoints /\ wire[i].n \in 1..MaxSent
    BY <2>1 DEF Message
  <2>3. \A e \in Endpoints : Read(e) \in Nat /\ sent[e] \in Nat
    BY <1>2 DEF Read
  <2> QED
    BY <1>2, <2>1, <2>2, <2>3
<1>4. hand # Nothing => hand \in Message /\ hand.ep \in Endpoints /\ hand.n \in Nat
  BY <1>2 DEF Message
<1>5. "none" \notin Endpoints /\ Nothing.ep = "none"
  BY DEF Endpoints, Nothing
<1> USE <1>2, <1>5, OwnerSteps DEF IInv
<1>6. ASSUME NEW e \in Endpoints, Send(e) PROVE IInv'
  <2> DEFINE x == [ep |-> e, n |-> sent[e] + 1]
  <2>1. /\ x \in Message /\ x.ep = e /\ x.n = sent[e] + 1 /\ wire' = Append(wire, x)
        /\ sent' = [sent EXCEPT ![e] = sent[e] + 1] /\ conn = "up"
        /\ UNCHANGED <<conn, loop, hand, pipe, reader, got, owner>>
    <3>1. sent[e] \in 0..MaxSent /\ sent[e] < MaxSent
      BY <1>6 DEF Send
    <3>2. x \in Message
      BY <3>1 DEF Message
    <3>3. sent' = [sent EXCEPT ![e] = sent[e] + 1] /\ sent'[e] = sent[e] + 1
      BY <1>6 DEF Send
    <3> QED
      BY <1>6, <3>2, <3>3 DEF Send
  <2> HIDE DEF x
  <2>2. /\ Len(wire') = Len(wire) + 1 /\ wire'[Len(wire) + 1] = x
        /\ \A i \in 1..Len(wire) : wire'[i] = wire[i]
    BY <2>1, SentIsLast
  <2>3. \A f \in Endpoints : sent[f] <= sent'[f] /\ (f # e => sent'[f] = sent[f]) /\ sent'[f] \in Nat /\ sent'[e] = sent[e] + 1
    <3>1. sent'[e] = sent[e] + 1 /\ \A f \in Endpoints : f # e => sent'[f] = sent[f]
      BY <1>2, <2>1, Zenon
    <3>2. sent[e] \in Nat /\ \A f \in Endpoints : sent[f] \in Nat
      BY <1>3
    <3> HIDE <1>2, <1>5, OwnerSteps
    <3> QED
      BY <3>1, <3>2
  <2>4. Paused' /\ StreamOrder'
    BY <2>1 DEF Paused, StreamOrder
  <2>5. Sent'
    <3> SUFFICES ASSUME NEW i \in 1..Len(wire') PROVE wire'[i].n <= sent'[wire'[i].ep]
      BY DEF Sent
    <3>1. CASE i \in 1..Len(wire)
      <4>1. wire'[i] = wire[i] /\ wire[i].n <= sent[wire[i].ep]
        BY <2>2, <3>1 DEF Sent
      <4>2. wire[i].ep \in Endpoints /\ wire[i].n \in Nat
        BY <1>3, <3>1
      <4>3. sent[wire[i].ep] \in Nat /\ sent[wire[i].ep] <= sent'[wire[i].ep] /\ sent'[wire[i].ep] \in Nat
        BY <1>3, <2>3, <4>2
      <4>4. wire[i].n <= sent'[wire[i].ep]
        <5> DEFINE k == wire[i].n
                   a == sent[wire[i].ep]
                   b == sent'[wire[i].ep]
        <5>1. k \in Nat /\ a \in Nat /\ b \in Nat /\ k <= a /\ a <= b
          BY <4>1, <4>2, <4>3
        <5> HIDE DEF k, a, b
        <5>2. k <= b
          BY ONLY <5>1
        <5> QED
          BY <5>2 DEF k, b
      <4> QED
        BY <4>1, <4>4
    <3>2. CASE i = Len(wire) + 1
      BY <1>3, <2>1, <2>2, <2>3, <3>2
    <3> QED
      BY <2>2, <3>1, <3>2
  <2>6. Rising(wire)'
    <3> SUFFICES ASSUME NEW i \in 1..Len(wire'), NEW j \in 1..Len(wire'), i < j, wire'[i].ep = wire'[j].ep
                 PROVE  wire'[i].n < wire'[j].n
      BY DEF Rising
    <3>1. i \in 1..Len(wire) /\ wire'[i] = wire[i]
      BY <2>2
    <3>2. CASE j \in 1..Len(wire)
      BY <2>2, <3>1, <3>2 DEF Rising
    <3>3. CASE j = Len(wire) + 1
      <4>1. wire'[j] = x /\ wire[i].ep = e
        BY <2>1, <2>2, <3>1, <3>3
      <4>2. wire[i].n <= sent[e]
        BY <3>1, <4>1 DEF Sent
      <4> QED
        BY <1>3, <2>1, <3>1, <4>1, <4>2
    <3> QED
      BY <2>2, <3>2, <3>3
  <2>7. ASSUME NEW f \in Endpoints, pipe[f] # "closed" PROVE Streaming(f)'
    <3>1. Streaming(f) /\ Read(f)' = Read(f)
      BY <2>1, <2>7 DEF Streams, Read
    <3>2. Chained(wire, f, Read(f))'
      <4>1. x.ep = f => x.n > Read(f) /\ \A m \in (Read(f) + 1)..(x.n - 1) :
                                            \E j \in 1..Len(wire) : wire[j] = [ep |-> f, n |-> m]
        BY <1>3, <2>1, <3>1 DEF Streaming
      <4> QED
        BY <1>3, <2>1, <3>1, <4>1, SentFollows DEF Streaming
    <3>3. ASSUME NEW m \in (Read(f) + 1)..sent'[f]
          PROVE  \E j \in 1..Len(wire') : wire'[j] = [ep |-> f, n |-> m]
      <4>1. CASE m \in (Read(f) + 1)..sent[f]
        <5>1. PICK j \in 1..Len(wire) : wire[j] = [ep |-> f, n |-> m]
          BY <2>1, <3>1, <4>1 DEF Streaming
        <5>2. j \in 1..Len(wire') /\ wire'[j] = wire[j]
          BY <2>2
        <5> QED
          BY <5>1, <5>2
      <4>2. CASE f = e /\ m = sent[e] + 1
        BY <2>1, <2>2, <4>2 DEF x
      <4> QED
        BY <1>3, <2>3, <4>1, <4>2
    <3>4. (hand.ep = f => hand.n = Len(got[f]) + 1) /\ Read(f) <= sent'[f]
      <4>1. (hand.ep = f => hand.n = Len(got[f]) + 1) /\ Read(f) <= sent[f]
        BY <3>1 DEF Streaming
      <4>2. sent[f] <= sent'[f] /\ sent[f] \in Nat /\ sent'[f] \in Nat /\ Read(f) \in Nat
        BY <1>3, <2>3
      <4> HIDE <1>2, <1>5, OwnerSteps
      <4> QED
        BY <4>1, <4>2
    <3> QED
      BY <2>1, <3>1, <3>2, <3>3, <3>4 DEF Streaming
  <2> QED
    BY <1>1, <2>1, <2>4, <2>5, <2>6, <2>7 DEF Streams
<1>7. CASE Fail
  <2>1. wire' \in Prefixes(wire) /\ conn' = "failed" /\ UNCHANGED <<sent, loop, hand, pipe, reader, got, owner>>
    BY <1>7 DEF Fail
  <2>2. Paused' /\ StreamOrder'
    BY <2>1 DEF Paused, StreamOrder
  <2>3. Sent'
    <3>1. Len(wire') \in Nat /\ Len(wire') <= Len(wire) /\ \A i \in 1..Len(wire') : wire'[i] = wire[i]
      BY <2>1, PrefixFollows
    <3>2. \A i \in 1..Len(wire') : i \in 1..Len(wire)
      BY <3>1
    <3> QED
      BY <2>1, <3>1, <3>2 DEF Sent
  <2>4. Rising(wire)'
    BY <2>1, PrefixFollows
  <2>5. ASSUME NEW e \in Endpoints, pipe[e] # "closed" PROVE Streaming(e)'
    <3>1. Streaming(e) /\ Read(e)' = Read(e)
      BY <2>1, <2>5 DEF Streams, Read
    <3>2. Chained(wire', e, Read(e))
      BY <1>3, <2>1, <3>1, PrefixFollows DEF Streaming
    <3> QED
      BY <2>1, <3>1, <3>2 DEF Streaming
  <2> QED
    BY <1>1, <2>1, <2>2, <2>3, <2>4, <2>5 DEF Streams
<1>8. CASE ReadMessage
  <2>1. /\ wire # <<>> /\ wire' = Tail(wire) /\ owner >= Serving /\ hand = Nothing
        /\ UNCHANGED <<conn, sent, pipe, reader, got, owner>>
    BY <1>8 DEF ReadMessage, LoopRuns
  <2>2. /\ 1 \in 1..Len(wire) /\ Len(wire') = Len(wire) - 1 /\ \A i \in 1..Len(wire') : wire'[i] = wire[i + 1]
        /\ Head(wire) = wire[1]
    BY <2>1, HeadTailProperties, EmptySeq
  <2>3. loop' = "writing" /\ hand' = wire[1] /\ wire[1].ep \in Endpoints
    <3>1. \A e \in Endpoints : pipe[e] # "none"
      BY <2>1 DEF Paused, Endpoints
    <3> QED
      BY <1>3, <1>8, <2>2, <3>1 DEF ReadMessage
  <2>4. Paused' /\ StreamOrder'
    BY <2>1 DEF Paused, StreamOrder
  <2>5. Sent'
    BY <2>1, <2>2 DEF Sent
  <2>6. Rising(wire)'
    BY <2>1, RestFollows
  <2>7. ASSUME NEW e \in Endpoints, pipe[e] # "closed" PROVE Streaming(e)'
    <3>1. Streaming(e) /\ Read(e) = Len(got[e])
      BY <2>1, <2>7 DEF Streams, Read
    <3>2. Read(e)' = IF wire[1].ep = e THEN Read(e) + 1 ELSE Read(e)
      BY <2>1, <2>3, <3>1 DEF Read
    <3>3. Chained(wire', e, Read(e)')
      <4>1. Chained(wire, e, Read(e))
        BY <3>1 DEF Streaming
      <4> QED
        BY <1>3, <2>1, <3>2, <4>1, RestFollows
    <3>4. wire[1].ep = e => wire[1].n = Read(e) + 1
      <4>1. Chained(wire, e, Read(e))
        BY <3>1 DEF Streaming
      <4> QED
        BY <1>3, <2>1, <4>1, FirstIsNext
    <3>5. Read(e)' <= sent[e]
      BY <1>3, <2>2, <3>1, <3>2, <3>4 DEF Sent, Streaming
    <3>6. ASSUME conn = "up", NEW m \in (Read(e)' + 1)..sent[e]
          PROVE  \E j \in 1..Len(wire') : wire'[j] = [ep |-> e, n |-> m]
      <4>1. m \in (Read(e) + 1)..sent[e] /\ (wire[1].ep = e => m > Read(e) + 1)
        BY <1>3, <3>2, <3>6
      <4>2. PICK j \in 1..Len(wire) : wire[j] = [ep |-> e, n |-> m]
        BY <3>1, <3>6, <4>1 DEF Streaming
      <4>3. j # 1
        BY <1>3, <3>4, <4>1, <4>2
      <4>4. j - 1 \in 1..Len(wire') /\ wire'[j - 1] = wire[j]
        BY <2>2, <4>3
      <4> QED
        BY <4>2, <4>4
    <3> QED
      BY <2>1, <2>3, <3>1, <3>3, <3>4, <3>5, <3>6 DEF Streaming
  <2> QED
    BY <1>1, <2>1, <2>4, <2>5, <2>6, <2>7 DEF Streams
<1>9. CASE Input
  <2>1. /\ hand.ep \in Endpoints /\ hand.n \in Nat /\ hand' = Nothing /\ loop = "writing" /\ loop' = "reading"
        /\ UNCHANGED <<conn, wire, sent, pipe, reader, owner>>
    BY <1>4, <1>9 DEF Input
  <2>2. Serving <= owner
    BY <2>1 DEF Paused
  <2>3. Paused' /\ Sent' /\ Rising(wire)'
    BY <2>1, <2>2 DEF Paused, Sent, Rising
  <2>4. CASE pipe[hand.ep] = "open" /\ got' = [got EXCEPT ![hand.ep] = Append(got[hand.ep], hand.n)]
    <3>1. hand.n = Len(got[hand.ep]) + 1
      BY <2>1, <2>4 DEF Streams, Streaming
    <3>2. ASSUME NEW e \in Endpoints PROVE Read(e)' = Read(e) /\ got'[e] = [i \in 1..Len(got'[e]) |-> i]
      <4>1. got[e] \in Seq(Int) /\ got[e] = [i \in 1..Len(got[e]) |-> i]
        BY DEF StreamOrder
      <4>2. CASE e = hand.ep
        <5>1. got'[e] = Append(got[e], Len(got[e]) + 1)
          BY <2>4, <3>1, <4>2
        <5>2. Len(got'[e]) = Len(got[e]) + 1
          BY <4>1, <5>1, AppendProperties
        <5>3. got'[e] = [i \in 1..Len(got'[e]) |-> i]
          BY <4>1, <5>1, NextIsAppended
        <5>4. Read(e) = Len(got[e]) + 1 /\ Read(e)' = Len(got'[e]) + 0
          BY <2>1, <4>2 DEF Read
        <5> QED
          BY <5>2, <5>3, <5>4
      <4>3. CASE e # hand.ep
        <5>1. got'[e] = got[e]
          BY <2>1, <2>4, <4>3
        <5> QED
          BY <2>1, <4>1, <4>3, <5>1 DEF Read
      <4> QED
        BY <4>2, <4>3
    <3>3. ASSUME NEW e \in Endpoints, pipe[e] # "closed" PROVE Streaming(e)'
      <4>1. Streaming(e) /\ Read(e)' = Read(e) /\ hand'.ep # e
        BY <2>1, <3>2, <3>3 DEF Streams
      <4> QED
        BY <2>1, <4>1 DEF Streaming
    <3> QED
      BY <1>1, <2>1, <2>3, <3>2, <3>3 DEF Streams, StreamOrder
  <2>5. CASE pipe[hand.ep] = "closed" /\ got' = got
    <3>1. ASSUME NEW e \in Endpoints, pipe[e] # "closed" PROVE Streaming(e)'
      <4>1. Streaming(e) /\ hand.ep # e /\ hand'.ep # e
        BY <2>1, <2>5, <3>1 DEF Streams
      <4>2. Read(e)' = Read(e)
        BY <2>5, <4>1 DEF Read
      <4> QED
        BY <2>1, <2>5, <4>1, <4>2 DEF Streaming
    <3> QED
      BY <1>1, <2>1, <2>3, <2>5, <3>1 DEF Streams, StreamOrder
  <2> QED
    BY <1>9, <2>4, <2>5 DEF Input
<1>10. ASSUME UNCHANGED <<wire, sent, hand, got>>, conn' = "up" => conn = "up", Paused',
              \A e \in Endpoints : pipe'[e] # "closed" => pipe[e] # "closed"
       PROVE  IInv'
  <2>1. Sent' /\ Rising(wire)' /\ StreamOrder'
    BY <1>10 DEF Sent, Rising, StreamOrder
  <2>2. ASSUME NEW e \in Endpoints, pipe'[e] # "closed" PROVE Streaming(e)'
    <3>1. Streaming(e) /\ Read(e)' = Read(e)
      BY <1>10, <2>2 DEF Streams, Read
    <3> QED
      BY <1>10, <3>1 DEF Streaming
  <2> QED
    BY <1>1, <1>10, <2>1, <2>2 DEF Streams
<1>11. CASE Cancel
  BY <1>10, <1>11 DEF Cancel, Paused
<1>12. CASE LoopEnds
  <2>1. Serving <= owner
    BY <1>12 DEF LoopEnds, LoopRuns
  <2> QED
    BY <1>10, <1>12, <2>1 DEF LoopEnds, Paused, Endpoints
<1>13. ASSUME NEW e \in Endpoints, ReadEOF(e) PROVE IInv'
  BY <1>10, <1>13 DEF ReadEOF, Paused
<1>14. ASSUME NEW e \in Endpoints, GiveUp(e) PROVE IInv'
  <2>1. Serving <= owner
    BY <1>14 DEF GiveUp, Paused
  <2>2. Paused'
    BY <1>14, <2>1 DEF GiveUp, Paused, Endpoints
  <2> QED
    BY <1>10, <1>14, <2>2 DEF GiveUp
<1>15. CASE NewEndpoint
  <2>1. owner \in {0, 1} /\ owner' = owner + 1 /\ owner < Serving
    BY <1>15 DEF NewEndpoint
  <2>2. Paused'
    BY <1>15, <2>1 DEF NewEndpoint, Paused, Endpoints
  <2>3. \A e \in Endpoints : pipe[e] # "closed"
    BY <2>1 DEF Paused
  <2> QED
    BY <1>10, <1>15, <2>2, <2>3 DEF NewEndpoint
<1>16. CASE StartReaders
  <2>1. Paused'
    BY <1>16 DEF StartReaders, Paused
  <2> QED
    BY <1>10, <1>16, <2>1 DEF StartReaders
<1>17. CASE TearDown
  <2>1. Serving <= owner /\ owner' = owner + 1 /\ UNCHANGED <<wire, sent, loop, hand, reader, got>>
    BY <1>17 DEF TearDown
  <2>2. \A e \in Endpoints : pipe'[e] \in {pipe[e], "closed"}
    BY <1>17 DEF TearDown
  <2>3. conn' \in {conn, "closed"}
    BY <1>17 DEF TearDown
  <2>4. Paused'
    BY <2>1, <2>2 DEF Paused, Endpoints
  <2> QED
    BY <1>10, <2>1, <2>2, <2>3, <2>4
<1>18. CASE UNCHANGED vars
  BY <1>10, <1>18 DEF vars, Paused
<1> QED
  BY <1>6, <1>7, <1>8, <1>9, <1>11, <1>12, <1>13, <1>14, <1>15, <1>16, <1>17, <1>18 DEF Next, Loop, Owner

\* Nothing was sent yet.
LEMMA Initially == Init => IInv
<1> SUFFICES ASSUME Init PROVE IInv
  OBVIOUS
<1>1. wire = <<>> /\ Len(wire) = 0 /\ \A e \in Endpoints : got[e] = <<>> /\ Len(got[e]) = 0 /\ sent[e] = 0 /\ hand.ep # e
  BY DEF Init, Nothing, Endpoints
<1>2. StreamOrder
  <2>1. <<>> = [i \in 1..0 |-> i]
    OBVIOUS
  <2> QED
    BY <1>1, <2>1 DEF StreamOrder
<1>3. Paused
  BY <1>1, OwnerSteps DEF Init, Paused, Endpoints
<1>4. Sent /\ Rising(wire)
  BY <1>1 DEF Sent, Rising
<1>5. ASSUME NEW e \in Endpoints PROVE Streaming(e)
  <2>1. Read(e) = 0
    <3>1. Len(got[e]) = 0 /\ hand.ep # e
      BY <1>1
    <3> QED
      BY <3>1 DEF Read
  <2>2. Chained(wire, e, 0)
    BY <1>1 DEF Chained
  <2>3. (0 + 1)..sent[e] = {}
    BY <1>1
  <2> QED
    BY <1>1, <2>1, <2>2, <2>3 DEF Streaming
<1> QED
  BY <1>2, <1>3, <1>4, <1>5, TypeInit DEF IInv, Streams

\* At the page each endpoint reads a stream: every message in the order it was sent and
\* none left out, whatever fails, is cancelled or closed between two of them.  Demux
\* writes to the endpoints' pipes one message at a time, and starts when both exist.
THEOREM PageReadsStreams == Side = "browser" => (Spec => []StreamOrder)
<1> SUFFICES ASSUME Side = "browser" PROVE Spec => []StreamOrder
  OBVIOUS
<1>1. IInv /\ [Next]_vars => IInv'
  BY Step
<1>2. IInv => StreamOrder
  BY DEF IInv
<1> QED
  BY <1>1, <1>2, Initially, PTL DEF Spec

-----------------------------------------------------------------------------
(* The page's Demux implements MessageStreams *)

\* A pipe is closed for a cause, and no reader returns before it was started.  This
\* holds at either end.
Causes ==
    /\ owner < Serving => \A e \in Endpoints : reader[e] = "off"
    /\ \A e \in Endpoints : pipe[e] = "closed" => conn # "up" \/ reader["served"] = "gone"

\* Nothing is closed yet.
LEMMA CausesInit == Init => Causes
BY DEF Init, Causes, Endpoints

\* Every step closes a pipe for a cause, and no cause goes away.
LEMMA CausesStep ==
  ASSUME TypeOK, Causes, [Next]_vars
  PROVE  Causes'
<1> USE OwnerSteps DEF Causes
<1>1. /\ owner \in 0..Over /\ pipe \in [Endpoints -> {"none", "open", "closed"}]
      /\ reader \in [Endpoints -> {"off", "reading", "gone"}] /\ "served" \in Endpoints
  BY DEF TypeOK, Endpoints
<1> USE <1>1
<1>2. ASSUME NEW e \in Endpoints, Send(e) PROVE Causes'
  BY <1>2 DEF Send
<1>3. CASE Fail
  BY <1>3 DEF Fail
<1>4. CASE Cancel
  BY <1>4 DEF Cancel
<1>5. CASE ReadMessage
  BY <1>5 DEF ReadMessage
<1>6. CASE Input
  BY <1>6 DEF Input
<1>7. CASE LoopEnds
  BY <1>7 DEF LoopEnds
<1>8. ASSUME NEW e \in Endpoints, ReadEOF(e) PROVE Causes'
  BY <1>8 DEF ReadEOF
<1>9. ASSUME NEW e \in Endpoints, GiveUp(e) PROVE Causes'
  BY <1>9 DEF GiveUp
<1>10. CASE NewEndpoint
  <2>1. \A e \in Endpoints : pipe'[e] = "closed" => pipe[e] = "closed"
    BY <1>10 DEF NewEndpoint
  <2>2. owner < Serving
    BY <1>10 DEF NewEndpoint
  <2> QED
    BY <1>10, <2>1, <2>2 DEF NewEndpoint
<1>11. CASE StartReaders
  BY <1>11 DEF StartReaders
<1>12. CASE TearDown
  BY <1>12 DEF TearDown
<1>13. CASE UNCHANGED vars
  BY <1>13 DEF vars
<1> QED
  BY <1>2, <1>3, <1>4, <1>5, <1>6, <1>7, <1>8, <1>9, <1>10, <1>11, <1>12, <1>13 DEF Next, Loop, Owner

\* The initial states are those of the promise.
LEMMA PromiseInit == Init => Promise!Init
BY DEF Init, Promise!Init

\* At the page every step keeps the promise: what the other end sends and what a reader
\* takes are steps of it, a reader returns as it may, the websocket goes, and all
\* else is out of its sight.
LEMMA PromiseStep ==
  ASSUME Side = "browser", IInv, Causes, [Next]_vars
  PROVE  [Promise!Next]_Promise!vars
<1>1. /\ TypeOK /\ "served" \in Endpoints /\ "none" \notin Endpoints /\ Nothing.ep = "none"
      /\ reader \in [Endpoints -> {"off", "reading", "gone"}]
      /\ got \in [Endpoints -> Seq(1..MaxSent)] /\ sent \in [Endpoints -> 0..MaxSent]
  BY DEF IInv, TypeOK, Endpoints, Nothing
<1>2. ASSUME NEW e \in Endpoints, Send(e) PROVE Promise!Send(e)
  BY <1>2 DEF Send, Promise!Send
<1>3. ASSUME UNCHANGED <<sent, got, reader>>, conn' = "up" => conn = "up"
      PROVE  [Promise!Next]_Promise!vars
  BY <1>3 DEF Promise!Next, Promise!Break, Promise!vars
<1>4. CASE Fail
  BY <1>3, <1>4 DEF Fail
<1>5. CASE Cancel
  BY <1>3, <1>5 DEF Cancel
<1>6. CASE ReadMessage
  BY <1>3, <1>6 DEF ReadMessage
<1>7. CASE LoopEnds
  BY <1>3, <1>7 DEF LoopEnds
<1>8. CASE NewEndpoint
  BY <1>3, <1>8 DEF NewEndpoint
<1>9. CASE TearDown
  BY <1>3, <1>9 DEF TearDown
<1>10. CASE Input
  <2>1. hand.ep \in Endpoints /\ hand' = Nothing
    <3>1. hand \in [ep : Endpoints, n : 1..MaxSent]
      BY <1>1, <1>10 DEF Input, TypeOK
    <3> QED
      BY <1>10, <3>1 DEF Input
  <2>2. CASE pipe[hand.ep] = "open" /\ reader[hand.ep] = "reading"
             /\ got' = [got EXCEPT ![hand.ep] = Append(got[hand.ep], hand.n)]
    <3>1. Streaming(hand.ep)
      BY <2>1, <2>2 DEF IInv, Streams
    <3>2. hand.n = Len(got[hand.ep]) + 1 /\ Len(got[hand.ep]) + 1 <= sent[hand.ep]
      BY <3>1 DEF Streaming, Read
    <3>3. Len(got[hand.ep]) \in Nat /\ sent[hand.ep] \in Nat
      BY <1>1, <2>1
    <3>4. Len(got[hand.ep]) < sent[hand.ep]
      BY <3>2, <3>3
    <3>5. Promise!Take(hand.ep)
      BY <1>10, <2>1, <2>2, <3>2, <3>4 DEF Input, Promise!Take
    <3> QED
      BY <2>1, <3>5 DEF Promise!Next
  <2>3. CASE got' = got
    BY <1>3, <1>10, <2>3 DEF Input
  <2> QED
    BY <1>3, <1>10, <2>2, <2>3 DEF Input, Promise!Next
<1>11. ASSUME NEW e \in Endpoints, reader[e] = "reading", reader' = [reader EXCEPT ![e] = "gone"],
              UNCHANGED <<conn, sent, got>>, conn # "up" \/ got[e] # <<>> \/ reader["served"] = "gone"
       PROVE  Promise!End(e)
  BY <1>1, <1>11 DEF Promise!End
<1>12. ASSUME NEW e \in Endpoints, ReadEOF(e) PROVE Promise!End(e)
  BY <1>11, <1>12 DEF ReadEOF, Causes
<1>13. ASSUME NEW e \in Endpoints, GiveUp(e) PROVE Promise!End(e)
  BY <1>11, <1>13 DEF GiveUp
<1>14. CASE StartReaders
  <2>1. \A e \in Endpoints : reader[e] = "off" /\ reader'[e] = "reading"
    BY <1>14, OwnerSteps DEF StartReaders, Causes
  <2>2. [e \in Endpoints |-> reader'[e] = "gone"] = [e \in Endpoints |-> reader[e] = "gone"]
    BY <2>1
  <2> QED
    BY <1>14, <2>2 DEF StartReaders, Promise!vars
<1>15. CASE UNCHANGED vars
  BY <1>15 DEF vars, Promise!vars
<1> QED
  BY <1>2, <1>3, <1>4, <1>5, <1>6, <1>7, <1>8, <1>9, <1>10, <1>12, <1>13, <1>14, <1>15
  DEF Next, Loop, Owner, Promise!Next

\* At the page the Demux, its goroutine, the pipes, their readers and the teardown of
\* connection implement MessageStreams, for any number of messages.
THEOREM StreamsAreImplemented == Side = "browser" => (Spec => ImplementsStreams)
<1> SUFFICES ASSUME Side = "browser" PROVE Spec => ImplementsStreams
  OBVIOUS
<1>1. Init => IInv /\ Causes /\ Promise!Init
  BY Initially, CausesInit, PromiseInit
<1>2. IInv /\ Causes /\ [Next]_vars => IInv' /\ Causes' /\ [Promise!Next]_Promise!vars
  <2>1. IInv => TypeOK
    BY DEF IInv
  <2> QED
    BY <2>1, Step, CausesStep, PromiseStep
<1> QED
  BY <1>1, <1>2, PTL DEF Spec, ImplementsStreams, Promise!Spec

-----------------------------------------------------------------------------
(* The teardown of the page *)

\* What the goroutine ends with reaches the readers: their pipes are closed.
LossReachesPipes == loop = "ended" => \A e \in Endpoints : pipe[e] = "closed"

\* While Demux.Close waits for the goroutine, nothing holds that up: the websocket is
\* closed, and so is the pipe of a message it may have in its hand.
WaitIsUnhindered ==
    owner = Over - 1 => conn = "closed" /\ (loop = "writing" => pipe[hand.ep] = "closed")

\* When connection returns, and run may redial, it leaves nothing of the old one running.
NothingIsLeft == owner = Over => loop = "ended" /\ reader["served"] = "gone"

\* The steps of the teardown in their order, and a goroutine that ends late enough to
\* know both endpoints.
TornDown ==
    /\ owner < Serving => loop = "reading"
    /\ LossReachesPipes
    /\ owner > Serving => pipe["served"] = "closed" /\ reader["served"] = "gone"
    /\ owner > Serving + 1 => pipe["called"] = "closed"
    /\ owner > Serving + 2 => conn = "closed"
    /\ owner > Serving + 3 => loop = "ended"

\* Every step of the page keeps to it.
LEMMA TornDownStep ==
  ASSUME Side = "browser", IInv, TornDown, [Next]_vars
  PROVE  TornDown'
<1> USE OwnerSteps DEF TornDown, LossReachesPipes
<1>1. /\ owner \in 0..Over /\ pipe \in [Endpoints -> {"none", "open", "closed"}]
      /\ reader \in [Endpoints -> {"off", "reading", "gone"}]
      /\ "served" \in Endpoints /\ "called" \in Endpoints /\ \A e \in Endpoints : e \in {"served", "called"}
  BY DEF IInv, TypeOK, Endpoints
<1> USE <1>1
<1>2. ASSUME NEW e \in Endpoints, Send(e) PROVE TornDown'
  BY <1>2 DEF Send
<1>3. CASE Fail
  BY <1>3 DEF Fail
<1>4. CASE Cancel
  BY <1>4 DEF Cancel
<1>5. CASE ReadMessage
  BY <1>5 DEF ReadMessage, LoopRuns
<1>6. CASE Input
  BY <1>6 DEF Input
<1>7. CASE LoopEnds
  <2>1. \A e \in Endpoints : pipe[e] # "none"
    BY <1>7 DEF LoopEnds, LoopRuns, IInv, Paused
  <2> QED
    BY <1>7, <2>1 DEF LoopEnds, LoopRuns
<1>8. ASSUME NEW e \in Endpoints, ReadEOF(e) PROVE TornDown'
  BY <1>8 DEF ReadEOF
<1>9. ASSUME NEW e \in Endpoints, GiveUp(e) PROVE TornDown'
  BY <1>9 DEF GiveUp
<1>10. CASE NewEndpoint
  BY <1>10 DEF NewEndpoint
<1>11. CASE StartReaders
  BY <1>11 DEF StartReaders
<1>12. CASE TearDown
  <2>1. /\ Len(Teardown) = 4 /\ Teardown[1] = "served" /\ Teardown[2] = "called"
        /\ Teardown[3] = "conn" /\ Teardown[4] = "wait" /\ "conn" \notin Endpoints /\ "wait" \notin Endpoints
    BY DEF Teardown, BrowserTeardown, Endpoints
  <2>2. owner \in {3, 4, 5, 6} /\ owner' = owner + 1 /\ UNCHANGED <<loop, reader>> /\ reader["served"] = "gone"
    BY <1>12 DEF TearDown
  <2>3. \A step : step = Teardown[owner - 2] =>
            /\ pipe' = IF step \in Endpoints THEN [pipe EXCEPT ![step] = "closed"] ELSE pipe
            /\ conn' = IF step = "conn" THEN "closed" ELSE conn
            /\ step = "wait" => loop = "ended"
    <3>1. owner - Serving + 1 = owner - 2
      BY <2>2
    <3> QED
      BY <1>12, <3>1 DEF TearDown
  <2>4. CASE owner = 3
    <3>1. owner - 2 = 1
      BY <2>4
    <3> QED
      BY <2>1, <2>2, <2>3, <2>4, <3>1
  <2>5. CASE owner = 4
    <3>1. owner - 2 = 2
      BY <2>5
    <3> QED
      BY <2>1, <2>2, <2>3, <2>5, <3>1
  <2>6. CASE owner = 5
    <3>1. owner - 2 = 3
      BY <2>6
    <3> QED
      BY <2>1, <2>2, <2>3, <2>6, <3>1
  <2>7. CASE owner = 6
    <3>1. owner - 2 = 4
      BY <2>7
    <3> QED
      BY <2>1, <2>2, <2>3, <2>7, <3>1
  <2> QED
    BY <2>2, <2>4, <2>5, <2>6, <2>7
<1>13. CASE UNCHANGED vars
  BY <1>13 DEF vars
<1> QED
  BY <1>2, <1>3, <1>4, <1>5, <1>6, <1>7, <1>8, <1>9, <1>10, <1>11, <1>12, <1>13 DEF Next, Loop, Owner

\* At the page nothing stands in the way of a teardown: the loss of a connection has
\* closed every pipe a reader may wait on, the goroutine that Demux.Close waits for
\* can end, whatever message it has in its hand, and it has ended when connection
\* returns.  Both endpoints are closed before the wait, by the order of the defers.
THEOREM TeardownIsUnhindered ==
  Side = "browser" => (Spec => [](LossReachesPipes /\ WaitIsUnhindered /\ NothingIsLeft))
<1> SUFFICES ASSUME Side = "browser" PROVE Spec => [](LossReachesPipes /\ WaitIsUnhindered /\ NothingIsLeft)
  OBVIOUS
<1>1. Init => IInv /\ TornDown
  BY Initially, OwnerSteps DEF Init, TornDown, LossReachesPipes
<1>2. IInv /\ TornDown /\ [Next]_vars => IInv' /\ TornDown'
  BY Step, TornDownStep
<1>3. IInv /\ TornDown => LossReachesPipes /\ WaitIsUnhindered /\ NothingIsLeft
  <2> SUFFICES ASSUME IInv, TornDown PROVE LossReachesPipes /\ WaitIsUnhindered /\ NothingIsLeft
    OBVIOUS
  <2>1. loop = "writing" => hand.ep \in {"served", "called"}
    BY DEF IInv, TypeOK, Endpoints
  <2> QED
    BY <2>1, OwnerSteps DEF TornDown, WaitIsUnhindered, NothingIsLeft
<1> QED
  BY <1>1, <1>2, <1>3, PTL DEF Spec
=============================================================================
