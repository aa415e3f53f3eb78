--------------------------- MODULE PacketOutProofs ---------------------------
(***************************************************************************)
(* Proofs about PacketOut, for any number of handlers, any metadata, any   *)
(* size of the ring and any number of refused packets the ring has room    *)
(* for: types, the distance of the two indexes, the metadata a packet is   *)
(* given, and the steps of the channel the controller implements.          *)
(***************************************************************************)
EXTENDS PacketOut, TLAPS, SequenceTheorems, FiniteSetTheorems

\* The remainder of a number below twice the size of the ring, which is all
\* the code ever reduces.
LEMMA WrapOnce ==
  ASSUME NEW a \in 0 .. 2 * RingSize - 1
  PROVE  a % RingSize = IF a < RingSize THEN a ELSE a - RingSize
<1> RingSize \in Nat \ {0} /\ a \in Int
  BY BoundsAssumption
<1>1. ASSUME a < RingSize PROVE a % RingSize = a
  BY <1>1
<1>2. ASSUME RingSize <= a, a < 2 * RingSize PROVE a % RingSize = a - RingSize
  BY <1>2
<1> QED BY <1>1, <1>2

-----------------------------------------------------------------------------
(* The inductive invariant.                                                *)

\* cbs_mutex_ is held for as long as a handler runs.
HandlersExclude == \A t \in Handlers : pc[t] # "idle" => cbs_mutex = t

\* Whether a handler has taken a slot it has not yet sent the packet for.
Claimed ==
  IF \E t \in Handlers : pc[t] \in {"write", "send"} THEN 1 ELSE 0

\* IndexesOff, without the cardinality.
Distance == md_index = (rx_index + Len(wire) + refused + Claimed) % RingSize

\* A handler about to send has its metadata in the slot it took.
SlotWritten == \A t \in Handlers : pc[t] = "send" => ring[md_index] = msg[t]

\* Until a packet is refused the slots behind the index of the receive
\* program hold the metadata of the packets on their way, in their order.
InStep ==
  refused = 0 =>
    /\ rx # <<>> => ring[rx_index] = Head(rx)
    /\ \A i \in 1 .. Len(wire) : ring[(rx_index + i) % RingSize] = wire[i]

Inv ==
  TypeOK /\ HandlersExclude /\ Distance /\ SlotWritten /\ InStep /\ OwnMetadata

-----------------------------------------------------------------------------
\* At most one handler has claimed a slot: the daemon's count of packets is
\* ahead of what was sent by at most one.
LEMMA OneSender ==
  ASSUME HandlersExclude
  PROVE  Cardinality(Sending) = Claimed
<1>1. CASE \E t \in Handlers : pc[t] \in {"write", "send"}
  <2>1. PICK t \in Handlers : pc[t] \in {"write", "send"}
    BY <1>1
  <2>2. Sending = {t}
    BY <2>1 DEF Sending, HandlersExclude
  <2> QED BY <1>1, <2>2, FS_Singleton DEF Claimed
<1>2. CASE ~ \E t \in Handlers : pc[t] \in {"write", "send"}
  <2>1. Sending = {}
    BY <1>2 DEF Sending
  <2> QED BY <1>2, <2>1, FS_EmptySet DEF Claimed
<1> QED BY <1>1, <1>2

-----------------------------------------------------------------------------
\* Every slot number the code computes is one of the ring.
LEMMA SlotNumbers ==
  ASSUME NEW a \in Int
  PROVE  a % RingSize \in Slots
BY BoundsAssumption DEF Slots

\* Every step keeps the types.
LEMMA TypeStep == TypeOK /\ [Next]_vars => TypeOK'
<1> SUFFICES ASSUME TypeOK, [Next]_vars PROVE TypeOK'
  OBVIOUS
<1> USE DEF TypeOK
<1>0. /\ RingSize \in Nat \ {0} /\ Backlog \in Nat \ {0} /\ MaxRefused \in Nat
      /\ md_index \in Int /\ rx_index \in Int
  BY BoundsAssumption DEF Slots
<1>1. ASSUME NEW t \in Handlers, Handler(t) PROVE TypeOK'
  <2>1. CASE BeginHandler(t)
    BY <2>1 DEF BeginHandler
  <2>2. CASE EndHandler(t)
    BY <2>2 DEF EndHandler
  <2>3. ASSUME NEW m \in Metadata, Claim(t, m) PROVE TypeOK'
    <3>1. m \in Entries
      BY DEF Entries
    <3>2. md_index' \in Slots
      BY <2>3, <1>0, SlotNumbers DEF Claim
    <3> QED BY <2>3, <3>1, <3>2 DEF Claim
  <2>4. CASE WriteMd(t)
    BY <2>4 DEF WriteMd
  <2>5. CASE SendFrame(t)
    <3>1. wire' \in Seq(Entries) /\ Len(wire') = Len(wire) + 1 /\ Len(wire) < Backlog
      BY <2>5 DEF SendFrame
    <3>2. Len(wire) \in Nat /\ Len(wire') <= Backlog
      BY <3>1, <1>0
    <3> QED BY <2>5, <3>1, <3>2 DEF SendFrame, Entries
  <2>6. CASE DropFrame(t)
    BY <2>6, <1>0 DEF DropFrame, Entries
  <2>7. CASE ThrowFrame(t)
    BY <2>7, <1>0 DEF ThrowFrame, Entries
  <2> QED BY <1>1, <2>1, <2>2, <2>3, <2>4, <2>5, <2>6, <2>7 DEF Handler
<1>2. CASE RxIndex
  <2>1. rx_index' \in Slots
    <3>1. rx_index + 1 \in Int
      BY <1>0
    <3> QED BY <1>2, <3>1, SlotNumbers DEF RxIndex
  <2>2. /\ wire' \in Seq(Entries) /\ Len(wire') = Len(wire) - 1
        /\ Head(wire) \in Entries
    <3>1. wire \in Seq(Entries) /\ wire # <<>> /\ wire' = Tail(wire)
      BY <1>2 DEF RxIndex
    <3> QED BY <3>1, HeadTailProperties
  <2>3. Len(wire) \in Nat /\ Len(wire') <= Backlog
    BY <2>2, <1>0
  <2> QED BY <1>2, <2>1, <2>2, <2>3 DEF RxIndex
<1>3. CASE RxRead
  BY <1>3 DEF RxRead
<1>4. CASE UNCHANGED vars
  BY <1>4 DEF vars
<1> QED BY <1>1, <1>2, <1>3, <1>4 DEF Next

\* Every step keeps the mutex with the handler that runs.
LEMMA ExclusionStep == TypeOK /\ HandlersExclude /\ [Next]_vars => HandlersExclude'
<1> SUFFICES ASSUME TypeOK, HandlersExclude, [Next]_vars PROVE HandlersExclude'
  OBVIOUS
<1> USE ThreadsAssumption DEF TypeOK, HandlersExclude
<1>1. ASSUME NEW t \in Handlers, Handler(t) PROVE HandlersExclude'
  BY <1>1 DEF Handler, BeginHandler, EndHandler, Claim, WriteMd, SendFrame,
              DropFrame, ThrowFrame
<1> QED BY <1>1 DEF Next, RxIndex, RxRead, vars

-----------------------------------------------------------------------------
(* Arithmetic of the ring.                                                 *)

\* Advancing a reduced index is advancing the index.
LEMMA WrapThenAdvance ==
  ASSUME NEW a \in 0 .. 2 * RingSize - 2
  PROVE  ((a % RingSize) + 1) % RingSize = (a + 1) % RingSize
<1>0. RingSize \in Nat \ {0} /\ a \in Int
  BY BoundsAssumption
<1>1. a % RingSize = IF a < RingSize THEN a ELSE a - RingSize
  BY <1>0, WrapOnce
<1>2. (a + 1) % RingSize = IF a + 1 < RingSize THEN a + 1 ELSE a + 1 - RingSize
  BY <1>0, WrapOnce
<1>3. (a % RingSize) + 1 \in 0 .. 2 * RingSize - 1
  BY <1>0, <1>1
<1>4. ((a % RingSize) + 1) % RingSize
        = IF (a % RingSize) + 1 < RingSize THEN (a % RingSize) + 1
          ELSE (a % RingSize) + 1 - RingSize
  BY <1>0, <1>3, WrapOnce
<1> QED BY <1>0, <1>1, <1>2, <1>4

\* A slot at a distance from an index that was advanced.
LEMMA AdvanceThenOffset ==
  ASSUME NEW a \in Slots, NEW k \in 0 .. RingSize - 1
  PROVE  (((a + 1) % RingSize) + k) % RingSize = (a + 1 + k) % RingSize
<1> DEFINE b == (a + 1) % RingSize
           c == (b + k) % RingSize
           d == (a + 1 + k) % RingSize
<1>0. RingSize \in Nat \ {0} /\ a \in 0 .. RingSize - 1
  BY BoundsAssumption DEF Slots
<1>1. b = IF a + 1 < RingSize THEN a + 1 ELSE 0
  <2>1. a + 1 \in 0 .. 2 * RingSize - 1
    BY <1>0
  <2> QED BY <1>0, <2>1, WrapOnce
<1> HIDE DEF b
<1>2. d = IF a + 1 + k < RingSize THEN a + 1 + k ELSE a + 1 + k - RingSize
  BY <1>0, WrapOnce
<1>3. b \in Int /\ b + k \in 0 .. 2 * RingSize - 1
  BY <1>0, <1>1
<1>4. c = IF b + k < RingSize THEN b + k ELSE b + k - RingSize
  BY <1>0, <1>3, WrapOnce
<1> HIDE DEF c, d
<1>5. c = d
  BY <1>0, <1>1, <1>2, <1>4
<1> QED BY <1>5 DEF b, c, d

\* Two distances smaller than the ring lead to different slots.
LEMMA DistinctSlots ==
  ASSUME NEW a \in Slots, NEW j \in 0 .. RingSize - 1, NEW k \in 0 .. RingSize - 1,
         j # k
  PROVE  (a + j) % RingSize # (a + k) % RingSize
<1>0. RingSize \in Nat \ {0} /\ a \in 0 .. RingSize - 1
  BY BoundsAssumption DEF Slots
<1>1. a + j \in 0 .. 2 * RingSize - 1 /\ a + k \in 0 .. 2 * RingSize - 1
  BY <1>0
<1>2. (a + j) % RingSize = IF a + j < RingSize THEN a + j ELSE a + j - RingSize
  BY <1>0, <1>1, WrapOnce
<1>3. (a + k) % RingSize = IF a + k < RingSize THEN a + k ELSE a + k - RingSize
  BY <1>0, <1>1, WrapOnce
<1> QED BY <1>0, <1>2, <1>3

\* What lies between the two indexes fits into the ring.
LEMMA Room ==
  ASSUME TypeOK
  PROVE  /\ RingSize \in Nat \ {0} /\ Backlog \in Nat \ {0} /\ MaxRefused \in Nat
         /\ Len(wire) \in 0 .. Backlog
         /\ refused \in 0 .. MaxRefused
         /\ Len(wire) + refused + 2 <= RingSize
         /\ rx_index \in 0 .. RingSize - 1 /\ md_index \in 0 .. RingSize - 1
         /\ Claimed \in {0, 1}
<1>1. /\ RingSize \in Nat \ {0} /\ Backlog \in Nat \ {0} /\ MaxRefused \in Nat
      /\ Backlog + 2 + MaxRefused <= RingSize
  BY BoundsAssumption, RingAssumption
<1>2. Len(wire) \in Nat /\ Len(wire) <= Backlog
  BY LenProperties DEF TypeOK
<1>3. refused \in 0 .. MaxRefused /\ rx_index \in Slots /\ md_index \in Slots
  BY DEF TypeOK
<1>4. Claimed \in {0, 1}
  BY DEF Claimed
<1> QED BY <1>1, <1>2, <1>3, <1>4 DEF Slots

-----------------------------------------------------------------------------
(* The conjuncts that tie the daemon and the receive program together.     *)

\* What the actions of a handler do to Claimed: a handler that is not
\* sending holds the mutex alone, so no other one is.
LEMMA ClaimedSteps ==
  ASSUME TypeOK, HandlersExclude, NEW t \in Handlers
  PROVE  /\ pc[t] = "handler" => Claimed = 0
         /\ pc[t] \in {"write", "send"} => Claimed = 1
         /\ pc[t] # "idle" /\ pc' = [pc EXCEPT ![t] = "write"] => Claimed' = 1
         /\ pc[t] # "idle" /\ pc' = [pc EXCEPT ![t] = "send"] => Claimed' = 1
         /\ pc[t] # "idle" /\ pc' = [pc EXCEPT ![t] = "handler"] => Claimed' = 0
         /\ pc[t] # "idle" /\ pc' = [pc EXCEPT ![t] = "idle"] => Claimed' = 0
<1> USE DEF TypeOK, HandlersExclude, Claimed
<1>1. \A u \in Handlers : pc[t] # "idle" /\ u # t => pc[u] = "idle"
  OBVIOUS
<1>2. pc[t] = "handler" => Claimed = 0
  BY <1>1
<1>3. pc[t] \in {"write", "send"} => Claimed = 1
  OBVIOUS
<1>4. ASSUME pc' = [pc EXCEPT ![t] = "write"] \/ pc' = [pc EXCEPT ![t] = "send"]
      PROVE  Claimed' = 1
  <2>1. pc'[t] \in {"write", "send"}
    BY <1>4
  <2> QED BY <2>1
<1>5. ASSUME pc[t] # "idle",
             pc' = [pc EXCEPT ![t] = "handler"] \/ pc' = [pc EXCEPT ![t] = "idle"]
      PROVE  Claimed' = 0
  <2>1. \A u \in Handlers : pc'[u] \in {"idle", "handler"}
    BY <1>1, <1>5
  <2> QED BY <2>1
<1> QED BY <1>2, <1>3, <1>4, <1>5

\* Claimed is not moved by a handler that begins.
LEMMA ClaimedBegin ==
  ASSUME TypeOK, NEW t \in Handlers, BeginHandler(t)
  PROVE  Claimed' = Claimed
<1>1. \A u \in Handlers : pc'[u] \in {"write", "send"} <=> pc[u] \in {"write", "send"}
  BY DEF TypeOK, BeginHandler
<1> QED BY <1>1 DEF Claimed

\* Every step keeps the distance of the two indexes.
LEMMA DistanceStep ==
  TypeOK /\ HandlersExclude /\ Distance /\ [Next]_vars => Distance'
<1> SUFFICES ASSUME TypeOK, HandlersExclude, Distance, [Next]_vars PROVE Distance'
  OBVIOUS
<1> DEFINE x == rx_index + Len(wire) + refused
<1>0. /\ RingSize \in Nat \ {0} /\ x \in 0 .. 2 * RingSize - 2 /\ x \in Int
      /\ Len(wire) \in Nat /\ refused \in Nat /\ rx_index \in 0 .. RingSize - 1
      /\ Len(wire) + refused + 2 <= RingSize /\ Claimed \in {0, 1}
  BY Room
<1>1. ASSUME NEW t \in Handlers, Handler(t) PROVE Distance'
  <2>1. CASE BeginHandler(t)
    <3>1. Claimed' = Claimed
      BY <2>1, ClaimedBegin
    <3> QED BY <2>1, <3>1 DEF BeginHandler, Distance
  <2>2. CASE EndHandler(t)
    <3>1. Claimed = 0 /\ Claimed' = 0
      BY <2>2, ClaimedSteps DEF EndHandler
    <3> QED BY <2>2, <3>1 DEF EndHandler, Distance
  <2>3. ASSUME NEW m \in Metadata, Claim(t, m) PROVE Distance'
    <3>1. Claimed = 0 /\ Claimed' = 1
      BY <2>3, ClaimedSteps DEF Claim
    <3>2. md_index = x % RingSize
      BY <1>0, <3>1 DEF Distance
    <3>3. md_index' = (x + 1) % RingSize
      <4>1. md_index' = ((x % RingSize) + 1) % RingSize
        BY <2>3, <3>2 DEF Claim
      <4>2. ((x % RingSize) + 1) % RingSize = (x + 1) % RingSize
        BY <1>0, WrapThenAdvance
      <4> QED BY <4>1, <4>2
    <3>4. rx_index' = rx_index /\ Len(wire') = Len(wire) /\ refused' = refused
      BY <2>3 DEF Claim
    <3> QED BY <3>1, <3>3, <3>4 DEF Distance
  <2>4. CASE WriteMd(t)
    <3>1. Claimed = 1 /\ Claimed' = 1
      BY <2>4, ClaimedSteps DEF WriteMd
    <3> QED BY <2>4, <3>1 DEF WriteMd, Distance
  <2>5. CASE SendFrame(t)
    <3>1. Claimed = 1 /\ Claimed' = 0
      BY <2>5, ClaimedSteps DEF SendFrame
    <3>2. md_index = (x + 1) % RingSize
      BY <3>1 DEF Distance
    <3>3. /\ Len(wire') = Len(wire) + 1
          /\ rx_index' = rx_index /\ refused' = refused /\ md_index' = md_index
      BY <2>5 DEF SendFrame, TypeOK
    <3>4. rx_index' + Len(wire') + refused' + Claimed' = x + 1
      BY <1>0, <3>1, <3>3
    <3> QED BY <3>2, <3>3, <3>4 DEF Distance
  <2>6. CASE DropFrame(t) \/ ThrowFrame(t)
    <3>1. Claimed = 1 /\ Claimed' = 0
      BY <2>6, ClaimedSteps DEF DropFrame, ThrowFrame
    <3>2. md_index = (x + 1) % RingSize
      BY <3>1 DEF Distance
    <3>3. /\ refused' = refused + 1
          /\ rx_index' = rx_index /\ wire' = wire /\ md_index' = md_index
      BY <2>6 DEF DropFrame, ThrowFrame
    <3>4. rx_index' + Len(wire') + refused' + Claimed' = x + 1
      BY <1>0, <3>1, <3>3
    <3> QED BY <3>2, <3>3, <3>4 DEF Distance
  <2> QED BY <1>1, <2>1, <2>2, <2>3, <2>4, <2>5, <2>6 DEF Handler
<1>2. CASE RxIndex
  <2>1. /\ Len(wire) # 0 /\ Len(wire') = Len(wire) - 1
        /\ rx_index' = (rx_index + 1) % RingSize
        /\ refused' = refused /\ md_index' = md_index /\ Claimed' = Claimed
    <3>1. wire \in Seq(Entries) /\ wire # <<>>
      BY <1>2 DEF RxIndex, TypeOK
    <3>2. Len(wire) # 0 /\ Len(Tail(wire)) = Len(wire) - 1
      BY <3>1, HeadTailProperties, EmptySeq
    <3> QED BY <1>2, <3>2 DEF RxIndex, Claimed
  <2> DEFINE k == Len(wire) - 1 + refused + Claimed
  <2>2. k \in 0 .. RingSize - 1 /\ rx_index \in Slots
    BY <1>0, <2>1 DEF Slots
  <2>3. (((rx_index + 1) % RingSize) + k) % RingSize = (rx_index + 1 + k) % RingSize
    BY <2>2, AdvanceThenOffset
  <2>4. rx_index + 1 + k = rx_index + Len(wire) + refused + Claimed
    BY <1>0, <2>1
  <2>5. rx_index' + Len(wire') + refused' + Claimed' = ((rx_index + 1) % RingSize) + k
    <3>1. (rx_index + 1) % RingSize \in Int
      BY <1>0
    <3> QED BY <1>0, <2>1, <3>1
  <2> QED BY <2>1, <2>3, <2>4, <2>5 DEF Distance
<1>3. CASE RxRead
  BY <1>3 DEF RxRead, Distance, Claimed
<1>4. CASE UNCHANGED vars
  BY <1>4 DEF vars, Distance, Claimed
<1> QED BY <1>1, <1>2, <1>3, <1>4 DEF Next

\* Every step keeps the metadata of a handler about to send in its slot.
LEMMA SlotWrittenStep ==
  TypeOK /\ HandlersExclude /\ SlotWritten /\ [Next]_vars => SlotWritten'
<1> SUFFICES ASSUME TypeOK, HandlersExclude, SlotWritten, [Next]_vars,
                    NEW u \in Handlers, pc'[u] = "send"
             PROVE  ring'[md_index'] = msg'[u]
  BY DEF SlotWritten
<1> USE DEF TypeOK
<1>1. ASSUME NEW t \in Handlers, Handler(t) PROVE ring'[md_index'] = msg'[u]
  <2>1. CASE WriteMd(t)
    <3>1. u = t
      BY <2>1 DEF WriteMd, HandlersExclude
    <3> QED BY <2>1, <3>1 DEF WriteMd
  <2>2. CASE BeginHandler(t)
    BY <2>2 DEF BeginHandler, SlotWritten
  <2>3. CASE EndHandler(t)
    BY <2>3 DEF EndHandler, SlotWritten
  <2>4. ASSUME NEW m \in Metadata, Claim(t, m) PROVE FALSE
    BY <2>4 DEF Claim, HandlersExclude
  <2>5. CASE SendFrame(t) \/ DropFrame(t) \/ ThrowFrame(t)
    <3>1. FALSE
      BY <2>5 DEF SendFrame, DropFrame, ThrowFrame, HandlersExclude
    <3> QED BY <3>1
  <2> QED BY <1>1, <2>1, <2>2, <2>3, <2>4, <2>5 DEF Handler
<1>2. CASE RxIndex \/ RxRead \/ UNCHANGED vars
  BY <1>2 DEF RxIndex, RxRead, vars, SlotWritten
<1> QED BY <1>1, <1>2 DEF Next

\* The slot a handler writes lies ahead of all the packets on their way.
LEMMA WriteAhead ==
  ASSUME TypeOK, HandlersExclude, Distance, NEW t \in Handlers, pc[t] = "write",
         NEW i \in 0 .. Len(wire) + refused
  PROVE  md_index # (rx_index + i) % RingSize
<1>1. /\ RingSize \in Nat \ {0} /\ Len(wire) \in Nat /\ refused \in Nat
      /\ Len(wire) + refused + 2 <= RingSize /\ rx_index \in Slots
  BY Room DEF TypeOK
<1> DEFINE k == Len(wire) + refused + 1
<1>2. Claimed = 1
  BY ClaimedSteps
<1>3. rx_index + Len(wire) + refused + Claimed = rx_index + k
  BY <1>1, <1>2 DEF Slots
<1>4. md_index = (rx_index + k) % RingSize
  BY <1>3 DEF Distance
<1>5. k \in 0 .. RingSize - 1 /\ i \in 0 .. RingSize - 1 /\ k # i
  BY <1>1
<1> QED BY <1>1, <1>4, <1>5, DistinctSlots

\* Every step keeps the packets and their metadata in step.
LEMMA InStepStep ==
  TypeOK /\ HandlersExclude /\ Distance /\ SlotWritten /\ InStep /\ [Next]_vars
    => InStep'
<1> SUFFICES ASSUME TypeOK, HandlersExclude, Distance, SlotWritten, InStep, [Next]_vars,
                    refused' = 0
             PROVE  /\ rx' # <<>> => ring'[rx_index'] = Head(rx')
                    /\ \A i \in 1 .. Len(wire') :
                         ring'[(rx_index' + i) % RingSize] = wire'[i]
  BY DEF InStep
<1> DEFINE Goal == /\ rx' # <<>> => ring'[rx_index'] = Head(rx')
                   /\ \A i \in 1 .. Len(wire') :
                         ring'[(rx_index' + i) % RingSize] = wire'[i]
<1>0. /\ RingSize \in Nat \ {0} /\ Len(wire) \in Nat /\ refused \in Nat
      /\ Len(wire) + refused + 2 <= RingSize
      /\ rx_index \in Slots /\ rx_index \in 0 .. RingSize - 1
      /\ wire \in Seq(Entries)
  BY Room DEF TypeOK
<1>1. ASSUME NEW t \in Handlers, Handler(t) PROVE Goal
  <2>1. ASSUME UNCHANGED <<ring, rx, rx_index, wire, refused>> PROVE Goal
    BY <2>1 DEF InStep
  <2>2. CASE WriteMd(t)
    <3>1. refused = 0 /\ UNCHANGED <<rx, rx_index, wire>>
      BY <2>2 DEF WriteMd
    <3>2. ASSUME NEW i \in 0 .. Len(wire)
          PROVE  ring'[(rx_index + i) % RingSize] = ring[(rx_index + i) % RingSize]
      <4>1. md_index # (rx_index + i) % RingSize
        BY <1>0, <2>2, <3>1, WriteAhead DEF WriteMd
      <4> QED BY <2>2, <4>1 DEF WriteMd, TypeOK
    <3>3. (rx_index + 0) % RingSize = rx_index
      BY <1>0
    <3>4. ring'[rx_index] = ring[rx_index]
      BY <1>0, <3>2, <3>3
    <3>5. ASSUME NEW i \in 1 .. Len(wire)
          PROVE  ring'[(rx_index + i) % RingSize] = wire[i]
      BY <1>0, <3>1, <3>2 DEF InStep
    <3> QED BY <3>1, <3>4, <3>5 DEF InStep
  <2>3. CASE SendFrame(t)
    <3>1. /\ refused = 0 /\ UNCHANGED <<rx, rx_index, ring>>
          /\ wire' = Append(wire, msg[t]) /\ pc[t] = "send"
      BY <2>3 DEF SendFrame
    <3>2. msg[t] \in Entries /\ msg[t] = ring[md_index]
      BY <3>1 DEF SlotWritten, TypeOK
    <3>3. md_index = (rx_index + (Len(wire) + 1)) % RingSize
      <4>1. Claimed = 1
        BY <3>1, ClaimedSteps
      <4>2. rx_index + Len(wire) + refused + Claimed = rx_index + (Len(wire) + 1)
        BY <1>0, <3>1, <4>1
      <4> QED BY <4>2 DEF Distance
    <3>4. /\ Len(wire') = Len(wire) + 1
          /\ \A i \in 1 .. Len(wire) : wire'[i] = wire[i]
          /\ wire'[Len(wire) + 1] = msg[t]
      BY <1>0, <3>1, <3>2, AppendProperties
    <3>5. ASSUME NEW i \in 1 .. Len(wire')
          PROVE  ring'[(rx_index' + i) % RingSize] = wire'[i]
      <4>1. CASE i \in 1 .. Len(wire)
        BY <3>1, <3>4, <4>1 DEF InStep
      <4>2. CASE i = Len(wire) + 1
        BY <3>1, <3>2, <3>3, <3>4, <4>2
      <4> QED BY <1>0, <3>4, <4>1, <4>2
    <3> QED BY <3>1, <3>5 DEF InStep
  <2>4. CASE DropFrame(t) \/ ThrowFrame(t)
    <3>1. refused' = refused + 1
      BY <2>4 DEF DropFrame, ThrowFrame
    <3> QED BY <1>0, <3>1
  <2> QED BY <1>1, <2>1, <2>2, <2>3, <2>4 DEF Handler, BeginHandler, EndHandler, Claim
<1>2. CASE RxIndex
  <2>1. /\ refused = 0 /\ ring' = ring /\ wire # <<>>
        /\ rx_index' = (rx_index + 1) % RingSize
        /\ rx' = <<Head(wire)>> /\ wire' = Tail(wire)
    BY <1>2 DEF RxIndex
  <2>2. /\ Len(wire) # 0 /\ Len(wire') = Len(wire) - 1
        /\ \A i \in 1 .. Len(wire') : wire'[i] = wire[i + 1]
    BY <1>0, <2>1, HeadTailProperties, EmptySeq
  <2>3. Head(rx') = wire[1]
    BY <2>1
  <2>4. ring[(rx_index + 1) % RingSize] = wire[1]
    BY <1>0, <2>1, <2>2 DEF InStep
  <2>5. ASSUME NEW i \in 1 .. Len(wire')
        PROVE  ring'[(rx_index' + i) % RingSize] = wire'[i]
    <3>1. i \in 0 .. RingSize - 1 /\ i + 1 \in 1 .. Len(wire) /\ rx_index + 1 + i = rx_index + (i + 1)
      BY <1>0, <2>2
    <3>2. (rx_index' + i) % RingSize = (rx_index + (i + 1)) % RingSize
      BY <1>0, <2>1, <3>1, AdvanceThenOffset
    <3>3. ring[(rx_index + (i + 1)) % RingSize] = wire[i + 1]
      BY <2>1, <3>1 DEF InStep
    <3> QED BY <2>1, <2>2, <3>2, <3>3
  <2> QED BY <2>1, <2>3, <2>4, <2>5
<1>3. CASE RxRead
  BY <1>3 DEF RxRead, InStep
<1>4. CASE UNCHANGED vars
  BY <1>4 DEF vars, InStep
<1> QED BY <1>1, <1>2, <1>3, <1>4 DEF Next

\* Every step gives a packet its own metadata while none was refused.
LEMMA OwnMetadataStep ==
  TypeOK /\ InStep /\ OwnMetadata /\ [Next]_vars => OwnMetadata'
<1> SUFFICES ASSUME TypeOK, InStep, OwnMetadata, [Next]_vars, refused' = 0, out' # <<>>
             PROVE  out'.packet = out'.md
  BY DEF OwnMetadata
<1>1. CASE RxRead
  <2>1. refused = 0 /\ rx # <<>> /\ out' = [packet |-> Head(rx), md |-> ring[rx_index]]
    BY <1>1 DEF RxRead
  <2>2. ring[rx_index] = Head(rx)
    BY <2>1 DEF InStep
  <2> QED BY <2>1, <2>2
<1>2. ASSUME out' = out, refused' = refused PROVE out'.packet = out'.md
  BY <1>2 DEF OwnMetadata
<1>3. ASSUME NEW t \in Handlers, DropFrame(t) \/ ThrowFrame(t) PROVE FALSE
  <2>1. refused \in Nat /\ refused' = refused + 1
    BY <1>3, Room DEF DropFrame, ThrowFrame
  <2> QED BY <2>1
<1> QED BY <1>1, <1>2, <1>3 DEF Next, Handler, BeginHandler, EndHandler, Claim, WriteMd,
           SendFrame, RxIndex, vars

-----------------------------------------------------------------------------
\* The invariant is inductive.
LEMMA Inductive == Spec => []Inv
<1>1. Init => Inv
  <2> SUFFICES ASSUME Init PROVE Inv
    OBVIOUS
  <2> USE BoundsAssumption DEF Init
  <2>1. TypeOK
    BY EmptySeq DEF TypeOK, Slots, Entries
  <2>2. HandlersExclude /\ SlotWritten /\ OwnMetadata
    BY DEF HandlersExclude, SlotWritten, OwnMetadata
  <2>3. Claimed = 0
    BY DEF Claimed
  <2>4. Distance
    BY <2>3 DEF Distance
  <2>5. InStep
    BY DEF InStep
  <2> QED BY <2>1, <2>2, <2>4, <2>5 DEF Inv
<1>2. Inv /\ [Next]_vars => Inv'
  BY TypeStep, ExclusionStep, DistanceStep, SlotWrittenStep, InStepStep, OwnMetadataStep
     DEF Inv
<1> QED BY <1>1, <1>2, PTL DEF Spec

\* Every variable of the controller keeps its type; in particular no index
\* leaves the ring and the backlog never exceeds its bound.
THEOREM TypeCorrect == Spec => []TypeOK
<1>1. Inv => TypeOK
  BY DEF Inv
<1> QED BY <1>1, Inductive, PTL

\* ctrl_rx_md_index_ and the index of the receive program differ by the packets
\* queued, the one that is sent and those refused, whatever the handlers do:
\* the distance is never recovered.
THEOREM IndexDistance == Spec => []IndexesOff
<1>1. Inv => IndexesOff
  BY OneSender DEF Inv, Distance, IndexesOff
<1> QED BY <1>1, Inductive, PTL

\* As long as no packet was refused, controller_module_rx gives each packet the
\* metadata that send_packet_to_cube wrote for it, for every size of the ring
\* with room for the backlog.
THEOREM PacketsKeepMetadata == Spec => []OwnMetadata
<1>1. Inv => OwnMetadata
  BY DEF Inv
<1> QED BY <1>1, Inductive, PTL

-----------------------------------------------------------------------------
(* The controller implements a channel.                                    *)

\* The queue of metadata, as a sequence.
WaitingIs ==
  /\ Waiting \in Seq(Entries)
  /\ Len(Waiting) = Len(rx) + Len(wire) + refused
  /\ \A i \in 1 .. Len(rx) + Len(wire) + refused :
       Waiting[i] = ring[(rx_index - Len(rx) + i) % RingSize]

\* The mapping from the ring to the queue is well typed.
LEMMA WaitingSeq == TypeOK => WaitingIs
<1> SUFFICES ASSUME TypeOK PROVE WaitingIs
  OBVIOUS
<1> DEFINE n == Len(rx) + Len(wire) + refused
           e(i) == ring[(rx_index - Len(rx) + i) % RingSize]
<1>1. n \in Nat /\ Len(rx) \in {0, 1} /\ RingSize \in Nat \ {0} /\ rx_index \in Int
  <2>1. Len(rx) \in {0, 1}
    BY DEF TypeOK
  <2> QED BY <2>1, Room
<1>2. \A i \in 1 .. n : e(i) \in Entries
  <2> SUFFICES ASSUME NEW i \in 1 .. n PROVE e(i) \in Entries
    OBVIOUS
  <2>1. (rx_index - Len(rx) + i) % RingSize \in Slots
    <3>1. rx_index - Len(rx) + i \in Int
      BY <1>1
    <3> QED BY <3>1, SlotNumbers
  <2> QED BY <2>1 DEF TypeOK
<1>3. Waiting = [i \in 1 .. n |-> e(i)]
  BY DEF Waiting
<1> HIDE DEF n, e
<1>4. Waiting \in Seq(Entries) /\ Len(Waiting) = n
  BY <1>1, <1>2, <1>3
<1> QED BY <1>3, <1>4 DEF n, e, WaitingIs

\* The same of the next state.
LEMMA WaitingSeqNext == TypeOK' => WaitingIs'
BY WaitingSeq, PTL

\* What makes a sequence an extension of another.
LEMMA ExtendedIf ==
  ASSUME NEW S, NEW s \in Seq(S), NEW t \in Seq(S), Len(t) = Len(s) + 1,
         \A i \in 1 .. Len(s) : t[i] = s[i]
  PROVE  Channel!Extended(s, t)
<1>0. Len(s) \in Nat /\ \A i \in 1 .. Len(s) : t[i] \in S
  BY LenProperties, ElementOfSeq
<1>1. /\ SubSeq(t, 1, Len(s)) \in Seq(S)
      /\ Len(SubSeq(t, 1, Len(s))) = Len(s)
      /\ \A i \in 1 .. Len(s) : SubSeq(t, 1, Len(s))[i] = s[i]
  <2>1. 1 \in Int /\ Len(s) \in Int
    BY <1>0
  <2>2. /\ SubSeq(t, 1, Len(s)) \in Seq(S)
        /\ Len(SubSeq(t, 1, Len(s))) = IF 1 <= Len(s) THEN Len(s) - 1 + 1 ELSE 0
        /\ \A i \in 1 .. Len(s) - 1 + 1 : SubSeq(t, 1, Len(s))[i] = t[1 + i - 1]
    BY <1>0, <2>1, SubSeqProperties
  <2> QED BY <1>0, <2>2
<1>2. SubSeq(t, 1, Len(s)) = s
  BY <1>1, SeqEqual
<1> QED BY <1>2 DEF Channel!Extended

\* The receive program works on one packet at a time.
LEMMA RxLength ==
  ASSUME TypeOK
  PROVE  /\ rx \in Seq(Entries)
         /\ Len(rx) \in Nat /\ Len(rx) <= 1
         /\ rx # <<>> => Len(rx) = 1
<1>1. CASE rx = <<>>
  BY <1>1
<1>2. ASSUME NEW m \in Entries, rx = <<m>>
      PROVE  rx \in Seq(Entries) /\ Len(rx) \in Nat /\ Len(rx) <= 1 /\ Len(rx) = 1
  BY <1>2
<1>3. rx = <<>> \/ \E m \in Entries : rx = <<m>>
  BY DEF TypeOK
<1> QED BY <1>1, <1>2, <1>3, Zenon

\* The packets between the daemon and the receive program as a sequence.
LEMMA FramesSeq ==
  ASSUME TypeOK
  PROVE  /\ rx \o wire \in Seq(Entries)
         /\ Len(rx \o wire) = Len(rx) + Len(wire)
         /\ \A i \in 1 .. Len(rx) + Len(wire) :
              (rx \o wire)[i] = IF i <= Len(rx) THEN rx[i] ELSE wire[i - Len(rx)]
<1>1. rx \in Seq(Entries) /\ wire \in Seq(Entries)
  BY RxLength DEF TypeOK
<1> QED BY <1>1, ConcatProperties

\* A step that touches neither the packets nor the ring nor the indexes does
\* nothing to the channel.
LEMMA ChannelStutter ==
  ASSUME UNCHANGED <<ring, rx_index, rx, wire, out, refused>>
  PROVE  UNCHANGED Channel!vars
BY DEF Channel!vars, Waiting

\* Metadata are written ahead of the queue.
LEMMA WriteStutters ==
  ASSUME Inv, NEW t \in Handlers, WriteMd(t), TypeOK'
  PROVE  UNCHANGED Channel!vars
<1>0. /\ RingSize \in Nat \ {0} /\ rx_index \in Slots /\ Len(wire) \in Nat /\ refused \in Nat
      /\ rx_index \in 0 .. RingSize - 1
      /\ Len(rx) \in Nat /\ Len(rx) <= 1
      /\ ring \in [Slots -> Entries]
      /\ UNCHANGED <<rx, wire, rx_index, out, refused>>
  <2>1. TypeOK
    BY DEF Inv
  <2>2. Len(rx) \in Nat /\ Len(rx) <= 1
    BY <2>1, RxLength
  <2>3. rx_index \in Slots /\ ring \in [Slots -> Entries]
    BY <2>1 DEF TypeOK
  <2> QED BY <2>1, <2>2, <2>3, Room DEF WriteMd
<1>1. Waiting' = Waiting
  <2>1. ASSUME NEW i \in 1 .. Len(rx) + Len(wire) + refused
        PROVE  Waiting'[i] = Waiting[i]
    <3> DEFINE j == i - Len(rx)
    <3>1. j \in 0 .. Len(wire) + refused /\ rx_index - Len(rx) + i = rx_index + j
      BY <1>0
    <3>2. md_index # (rx_index + j) % RingSize
      BY <3>1, WriteAhead DEF Inv, WriteMd
    <3>3. ring'[(rx_index + j) % RingSize] = ring[(rx_index + j) % RingSize]
      <4>1. (rx_index + j) % RingSize \in Slots
        <5>1. rx_index + j \in Int
          BY <1>0, <3>1
        <5> QED BY <5>1, SlotNumbers
      <4> QED BY <1>0, <3>2, <4>1 DEF WriteMd
    <3>4. Waiting[i] = ring[(rx_index + j) % RingSize]
      BY <3>1, WaitingSeq DEF Inv, WaitingIs
    <3>5. Waiting'[i] = ring'[(rx_index + j) % RingSize]
      BY <1>0, <3>1, WaitingSeqNext DEF WaitingIs
    <3> QED BY <3>3, <3>4, <3>5
  <2>2. Waiting \in Seq(Entries) /\ Len(Waiting) = Len(rx) + Len(wire) + refused
    BY WaitingSeq DEF Inv, WaitingIs
  <2>3. Waiting' \in Seq(Entries) /\ Len(Waiting') = Len(rx) + Len(wire) + refused
    BY <1>0, WaitingSeqNext DEF WaitingIs
  <2> QED BY <2>1, <2>2, <2>3, SeqEqual
<1> QED BY <1>0, <1>1 DEF Channel!vars

\* The metadata of a packet sent or refused join the queue at its end: the slot
\* that was claimed for them was the next one.
LEMMA QueueGrows ==
  ASSUME TypeOK, TypeOK', UNCHANGED <<ring, rx, rx_index>>,
         Len(wire') + refused' = Len(wire) + refused + 1
  PROVE  Channel!Extended(Waiting, Waiting')
<1>0. /\ Len(rx) \in Nat /\ Len(wire) \in Nat /\ refused \in Nat
      /\ Len(wire') \in Nat /\ refused' \in Nat
  <2>1. TypeOK => Len(wire) \in Nat /\ refused \in Nat
    BY Room
  <2>2. TypeOK' => Len(wire') \in Nat /\ refused' \in Nat
    BY LenProperties, BoundsAssumption DEF TypeOK
  <2> QED BY <2>1, <2>2, RxLength
<1>1. /\ Waiting \in Seq(Entries) /\ Len(Waiting) = Len(rx) + Len(wire) + refused
      /\ \A i \in 1 .. Len(rx) + Len(wire) + refused :
           Waiting[i] = ring[(rx_index - Len(rx) + i) % RingSize]
  BY WaitingSeq DEF WaitingIs
<1>2. /\ Waiting' \in Seq(Entries) /\ Len(Waiting') = Len(rx) + Len(wire) + refused + 1
      /\ \A i \in 1 .. Len(rx) + Len(wire) + refused + 1 :
           Waiting'[i] = ring[(rx_index - Len(rx) + i) % RingSize]
  <2>1. Len(rx') + Len(wire') + refused' = Len(rx) + Len(wire) + refused + 1
    BY <1>0
  <2>2. /\ Waiting' \in Seq(Entries) /\ Len(Waiting') = Len(rx') + Len(wire') + refused'
        /\ \A i \in 1 .. Len(rx') + Len(wire') + refused' :
             Waiting'[i] = ring'[(rx_index' - Len(rx') + i) % RingSize]
    BY WaitingSeqNext DEF WaitingIs
  <2> QED BY <2>1, <2>2
<1>3. ASSUME NEW i \in 1 .. Len(Waiting) PROVE Waiting'[i] = Waiting[i]
  <2>1. /\ i \in 1 .. Len(rx) + Len(wire) + refused
        /\ i \in 1 .. Len(rx) + Len(wire) + refused + 1
    BY <1>0, <1>1
  <2> QED BY <1>1, <1>2, <2>1
<1>4. Len(Waiting') = Len(Waiting) + 1
  BY <1>0, <1>1, <1>2
<1> QED BY <1>1, <1>2, <1>3, <1>4, ExtendedIf

\* A packet that the interface takes is sent.
LEMMA SendSends ==
  ASSUME TypeOK, TypeOK', NEW t \in Handlers, SendFrame(t)
  PROVE  Channel!Send
<1>0. /\ rx \in Seq(Entries) /\ Len(rx) \in Nat
      /\ wire \in Seq(Entries) /\ Len(wire) \in Nat /\ refused \in Nat
      /\ msg[t] \in Entries
      /\ wire' = Append(wire, msg[t])
      /\ UNCHANGED <<ring, rx, rx_index, out, refused>>
  <2>1. wire \in Seq(Entries) /\ msg[t] \in Entries
    BY DEF TypeOK
  <2>2. wire' = Append(wire, msg[t]) /\ UNCHANGED <<ring, rx, rx_index, out, refused>>
    BY DEF SendFrame
  <2> QED BY <2>1, <2>2, Room, RxLength
<1>1. /\ wire' \in Seq(Entries) /\ Len(wire') = Len(wire) + 1
      /\ \A i \in 1 .. Len(wire) : wire'[i] = wire[i]
  BY <1>0, AppendProperties
<1>2. Channel!Extended(Waiting, Waiting')
  BY <1>0, <1>1, QueueGrows
<1>3. Channel!Extended(rx \o wire, rx \o wire')
  <2>1. /\ rx \o wire \in Seq(Entries) /\ Len(rx \o wire) = Len(rx) + Len(wire)
        /\ \A i \in 1 .. Len(rx) + Len(wire) :
             (rx \o wire)[i] = IF i <= Len(rx) THEN rx[i] ELSE wire[i - Len(rx)]
    BY FramesSeq
  <2>2. /\ rx \o wire' \in Seq(Entries) /\ Len(rx \o wire') = Len(rx) + Len(wire')
        /\ \A i \in 1 .. Len(rx) + Len(wire') :
             (rx \o wire')[i] = IF i <= Len(rx) THEN rx[i] ELSE wire'[i - Len(rx)]
    BY <1>0, <1>1, ConcatProperties
  <2>3. ASSUME NEW i \in 1 .. Len(rx) + Len(wire) PROVE (rx \o wire')[i] = (rx \o wire)[i]
    <3>1. i \in 1 .. Len(rx) + Len(wire')
      BY <1>0, <1>1
    <3>2. CASE i <= Len(rx)
      BY <2>1, <2>2, <3>1, <3>2
    <3>3. CASE ~(i <= Len(rx))
      <4>1. i - Len(rx) \in 1 .. Len(wire)
        BY <1>0, <3>3
      <4>2. wire'[i - Len(rx)] = wire[i - Len(rx)]
        BY <1>1, <4>1
      <4> QED BY <2>1, <2>2, <3>1, <3>3, <4>2
    <3> QED BY <3>2, <3>3
  <2>4. Len(rx \o wire') = Len(rx \o wire) + 1
    BY <1>0, <1>1, <2>1, <2>2
  <2> QED BY <2>1, <2>2, <2>3, <2>4, ExtendedIf
<1> QED BY <1>0, <1>2, <1>3 DEF Channel!Send

\* A packet that the interface refuses leaves its metadata in the queue.
LEMMA RefusalRefuses ==
  ASSUME TypeOK, TypeOK', NEW t \in Handlers, DropFrame(t) \/ ThrowFrame(t)
  PROVE  Channel!Refuse
<1>1. refused' = refused + 1 /\ UNCHANGED <<ring, rx, rx_index, wire, out>>
  BY DEF DropFrame, ThrowFrame
<1>2. Len(wire') + refused' = Len(wire) + refused + 1
  BY <1>1, Room
<1>3. Channel!Extended(Waiting, Waiting')
  BY <1>1, <1>2, QueueGrows
<1> QED BY <1>1, <1>3 DEF Channel!Refuse

\* When the receive program takes a packet and advances its index, the packet
\* and its metadata stay in their queues.
LEMMA RxIndexStutters ==
  ASSUME TypeOK, TypeOK', RxIndex
  PROVE  UNCHANGED Channel!vars
<1>0. /\ wire \in Seq(Entries) /\ wire # <<>> /\ Len(wire) \in Nat
      /\ rx = <<>> /\ rx' = <<Head(wire)>> /\ wire' = Tail(wire)
      /\ rx_index' = (rx_index + 1) % RingSize
      /\ UNCHANGED <<ring, out, refused>>
      /\ RingSize \in Nat \ {0} /\ rx_index \in Slots /\ rx_index \in 0 .. RingSize - 1
      /\ refused \in Nat /\ Len(wire) + refused + 2 <= RingSize
  <2>1. wire \in Seq(Entries) /\ rx_index \in Slots
    BY DEF TypeOK
  <2> QED BY <2>1, Room DEF RxIndex
<1>1. /\ Head(wire) \in Entries /\ Len(wire) # 0
      /\ wire' \in Seq(Entries) /\ Len(wire') = Len(wire) - 1
      /\ \A i \in 1 .. Len(wire') : wire'[i] = wire[i + 1]
  BY <1>0, HeadTailProperties, EmptySeq
<1>2. /\ Len(rx) = 0 /\ Len(rx') = 1 /\ rx'[1] = wire[1]
      /\ rx' \in Seq(Entries)
  BY <1>0, <1>1
<1>3. rx' \o wire' = rx \o wire
  <2>1. rx \o wire = wire
    BY <1>0, ConcatEmptySeq
  <2>2. /\ rx' \o wire' \in Seq(Entries)
        /\ Len(rx' \o wire') = Len(rx') + Len(wire')
        /\ \A i \in 1 .. Len(rx') + Len(wire') :
             (rx' \o wire')[i] = IF i <= Len(rx') THEN rx'[i] ELSE wire'[i - Len(rx')]
    <3>1. rx' \in Seq(Entries) /\ wire' \in Seq(Entries)
      BY <1>1, <1>2
    <3> QED BY <3>1, ConcatProperties
  <2>3. Len(rx' \o wire') = Len(wire)
    BY <1>0, <1>1, <1>2, <2>2
  <2>4. ASSUME NEW i \in 1 .. Len(wire) PROVE (rx' \o wire')[i] = wire[i]
    <3>1. i \in 1 .. Len(rx') + Len(wire')
      BY <1>0, <1>1, <1>2
    <3>2. CASE i = 1
      BY <1>2, <2>2, <3>1, <3>2
    <3>3. CASE i # 1
      <4>1. i - 1 \in 1 .. Len(wire') /\ ~(i <= 1)
        BY <1>0, <1>1, <3>3
      <4>2. wire'[i - 1] = wire[i - 1 + 1]
        BY <1>1, <4>1
      <4>3. i - 1 + 1 = i
        BY <1>0
      <4> QED BY <1>2, <2>2, <3>1, <4>1, <4>2, <4>3
    <3> QED BY <3>2, <3>3
  <2> QED BY <1>0, <2>1, <2>2, <2>3, <2>4, SeqEqual
<1>4. Waiting' = Waiting
  <2>1. /\ Waiting \in Seq(Entries) /\ Len(Waiting) = Len(wire) + refused
        /\ \A i \in 1 .. Len(wire) + refused : Waiting[i] = ring[(rx_index + i) % RingSize]
    <3>1. /\ Len(rx) + Len(wire) + refused = Len(wire) + refused
          /\ \A i \in Int : rx_index - Len(rx) + i = rx_index + i
      BY <1>0, <1>2
    <3> QED BY <1>0, <3>1, WaitingSeq DEF WaitingIs
  <2>2. /\ Waiting' \in Seq(Entries) /\ Len(Waiting') = Len(wire) + refused
        /\ \A i \in 1 .. Len(wire) + refused : Waiting'[i] = ring[(rx_index' - 1 + i) % RingSize]
    <3>1. Len(rx') + Len(wire') + refused' = Len(wire) + refused
      BY <1>0, <1>1, <1>2
    <3> QED BY <1>0, <1>2, <3>1, WaitingSeqNext DEF WaitingIs
  <2>3. ASSUME NEW i \in 1 .. Len(wire) + refused PROVE Waiting'[i] = Waiting[i]
    <3> DEFINE k == i - 1
    <3>1. k \in 0 .. RingSize - 1 /\ rx_index + 1 + k = rx_index + i
      BY <1>0
    <3>2. (((rx_index + 1) % RingSize) + k) % RingSize = (rx_index + i) % RingSize
      BY <1>0, <3>1, AdvanceThenOffset
    <3>3. rx_index' - 1 + i = ((rx_index + 1) % RingSize) + k
      <4>1. (rx_index + 1) % RingSize \in Int
        BY <1>0
      <4> QED BY <1>0, <4>1
    <3> QED BY <2>1, <2>2, <3>2, <3>3
  <2> QED BY <2>1, <2>2, <2>3, SeqEqual
<1> QED BY <1>0, <1>3, <1>4 DEF Channel!vars

\* The receive program joins the packet and the metadata at the head of the
\* two queues.
LEMMA RxReadDelivers ==
  ASSUME TypeOK, TypeOK', RxRead
  PROVE  Channel!Deliver
<1>0. /\ rx \in Seq(Entries) /\ rx # <<>> /\ Len(rx) = 1 /\ rx' = <<>>
      /\ wire \in Seq(Entries) /\ Len(wire) \in Nat /\ refused \in Nat
      /\ out' = [packet |-> Head(rx), md |-> ring[rx_index]]
      /\ UNCHANGED <<ring, rx_index, wire, refused>>
      /\ RingSize \in Nat \ {0} /\ rx_index \in 0 .. RingSize - 1
  <2>1. wire \in Seq(Entries)
    BY DEF TypeOK
  <2> QED BY <2>1, Room, RxLength DEF RxRead
<1>1. /\ rx \o wire # <<>> /\ Head(rx \o wire) = Head(rx)
      /\ Tail(rx \o wire) = wire
  <2>1. /\ rx \o wire \in Seq(Entries) /\ Len(rx \o wire) = 1 + Len(wire)
        /\ \A i \in 1 .. 1 + Len(wire) :
             (rx \o wire)[i] = IF i <= 1 THEN rx[i] ELSE wire[i - 1]
    BY <1>0, FramesSeq
  <2>2. rx \o wire # <<>>
    BY <1>0, <2>1, EmptySeq
  <2>3. Head(rx \o wire) = rx[1] /\ Head(rx) = rx[1]
    <3>1. (rx \o wire)[1] = rx[1]
      BY <1>0, <2>1
    <3> QED BY <3>1, <1>0, <2>1, <2>2
  <2>4. /\ Tail(rx \o wire) \in Seq(Entries) /\ Len(Tail(rx \o wire)) = Len(wire)
        /\ \A i \in 1 .. Len(wire) : Tail(rx \o wire)[i] = (rx \o wire)[i + 1]
    BY <1>0, <2>1, <2>2, HeadTailProperties
  <2>5. ASSUME NEW i \in 1 .. Len(wire) PROVE Tail(rx \o wire)[i] = wire[i]
    <3>1. i + 1 \in 1 .. 1 + Len(wire) /\ ~(i + 1 <= 1) /\ i + 1 - 1 = i
      BY <1>0
    <3> QED BY <2>1, <2>4, <3>1
  <2> QED BY <1>0, <2>2, <2>3, <2>4, <2>5, SeqEqual
<1>2. /\ Waiting \in Seq(Entries) /\ Len(Waiting) = 1 + Len(wire) + refused
      /\ \A i \in 1 .. 1 + Len(wire) + refused :
           Waiting[i] = ring[(rx_index - 1 + i) % RingSize]
  BY <1>0, WaitingSeq DEF WaitingIs
<1>3. /\ Waiting' \in Seq(Entries) /\ Len(Waiting') = Len(wire) + refused
      /\ \A i \in 1 .. Len(wire) + refused : Waiting'[i] = ring[(rx_index + i) % RingSize]
  <2>1. /\ Len(rx') = 0 /\ Len(rx') + Len(wire) + refused = Len(wire) + refused
        /\ \A i \in Int : rx_index - Len(rx') + i = rx_index + i
    BY <1>0
  <2> QED BY <1>0, <2>1, WaitingSeqNext DEF WaitingIs
<1>4. Waiting # <<>>
  BY <1>0, <1>2, EmptySeq
<1>5. Head(Waiting) = ring[rx_index]
  <2>1. (rx_index - 1 + 1) % RingSize = rx_index
    BY <1>0
  <2>2. Waiting[1] = ring[rx_index]
    BY <1>0, <1>2, <2>1
  <2> QED BY <1>2, <1>4, <2>2
<1>6. Waiting' = Tail(Waiting)
  <2>1. /\ Tail(Waiting) \in Seq(Entries) /\ Len(Tail(Waiting)) = Len(wire) + refused
        /\ \A i \in 1 .. Len(wire) + refused : Tail(Waiting)[i] = Waiting[i + 1]
    BY <1>0, <1>2, <1>4, HeadTailProperties
  <2>2. ASSUME NEW i \in 1 .. Len(wire) + refused PROVE Waiting'[i] = Tail(Waiting)[i]
    <3>1. i + 1 \in 1 .. 1 + Len(wire) + refused /\ rx_index - 1 + (i + 1) = rx_index + i
      BY <1>0
    <3> QED BY <1>2, <1>3, <2>1, <3>1
  <2> QED BY <1>3, <2>1, <2>2, SeqEqual
<1>7. rx' \o wire' = wire
  BY <1>0, ConcatEmptySeq
<1> QED BY <1>0, <1>1, <1>5, <1>6, <1>7 DEF Channel!Deliver

\* Every step of the controller is a step of the channel, or none.
LEMMA ChannelStep == Inv /\ TypeOK' /\ [Next]_vars => [Channel!Next]_Channel!vars
<1> SUFFICES ASSUME Inv, TypeOK', [Next]_vars PROVE [Channel!Next]_Channel!vars
  OBVIOUS
<1>0. TypeOK
  BY DEF Inv
<1>1. ASSUME NEW t \in Handlers, Handler(t) PROVE [Channel!Next]_Channel!vars
  <2>1. CASE WriteMd(t)
    BY <2>1, WriteStutters
  <2>2. CASE SendFrame(t)
    BY <1>0, <2>2, SendSends DEF Channel!Next
  <2>3. CASE DropFrame(t) \/ ThrowFrame(t)
    BY <1>0, <2>3, RefusalRefuses DEF Channel!Next
  <2>4. ASSUME UNCHANGED <<ring, rx_index, rx, wire, out, refused>>
        PROVE  [Channel!Next]_Channel!vars
    BY <2>4, ChannelStutter
  <2> QED BY <1>1, <2>1, <2>2, <2>3, <2>4 DEF Handler, BeginHandler, EndHandler, Claim
<1>2. CASE RxIndex
  BY <1>0, <1>2, RxIndexStutters
<1>3. CASE RxRead
  BY <1>0, <1>3, RxReadDelivers DEF Channel!Next
<1>4. CASE UNCHANGED vars
  BY <1>4, ChannelStutter DEF vars
<1> QED BY <1>1, <1>2, <1>3, <1>4 DEF Next

\* Controller::send_packet_to_cube and controller_module_rx implement the two
\* queues of PacketChannel: a packet is given the metadata that stand at its
\* place in the order of sending, refused packets included.  (That every packet
\* is delivered is left to the model checker.)
THEOREM ImplementsChannel == Spec => Channel!SafeSpec
<1>1. Init => Channel!Init
  <2> SUFFICES ASSUME Init PROVE Channel!Init
    OBVIOUS
  <2>1. rx = <<>> /\ wire = <<>> /\ refused = 0 /\ out = <<>>
    BY DEF Init
  <2>2. rx \o wire = <<>>
    BY <2>1
  <2>3. Waiting = <<>>
    BY <2>1 DEF Waiting
  <2> QED BY <2>1, <2>2, <2>3 DEF Channel!Init
<1>2. Inv => TypeOK
  BY DEF Inv
<1> QED BY <1>1, <1>2, Inductive, ChannelStep, PTL DEF Spec, Channel!SafeSpec
=============================================================================
