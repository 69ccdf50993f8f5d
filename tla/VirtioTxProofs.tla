--------------------------- MODULE VirtioTxProofs ---------------------------
(***************************************************************************)
(* Proofs about VirtioTx for any ring size, any modulus of the indices and *)
(* any number of buffers, with and without the event index.                *)
(***************************************************************************)
EXTENDS VirtioTx, RingArith, SequenceTheorems

(* How many published buffers the device has not completed.                *)
Behind == published - Len(emitted)

(* The indices are the counts, reduced; a slot between them holds its      *)
(* buffer; what was emitted is the buffers' sequence.                      *)
Counted ==
    /\ published \in Nat /\ emitted \in Seq(Nat)
    /\ Behind \in 0..QNum
    /\ avail = Mod(published)
    /\ lastAvail = Mod(Len(emitted)) /\ used = lastAvail
    /\ ring \in [0..QNum - 1 -> Nat]
    /\ \A k \in Len(emitted) + 1..published : ring[(k - 1) % QNum] = k
    /\ EmittedOnceInOrder

(* Outside the loop of tx_kick, and after a round that made no progress,   *)
(* the driver sees the event index the device means it to see.             *)
EventShown ==
    /\ ~event_idx => storeBuf = NoStore /\ dev \in {"poll", "handle", "call"}
    /\ event_idx =>
          /\ dev \in {"poll", "handle", "recheck", "call"}
                => storeBuf = NoStore /\ availEvent = lastAvail
          /\ dev = "publish" => storeBuf = NoStore
          /\ dev = "fence" => \/ storeBuf = lastAvail
                              \/ storeBuf = NoStore /\ availEvent = lastAvail
          /\ dev \in {"publish", "fence"} /\ n = 0 => availEvent = lastAvail

(* The device will be woken: a kick is pending, or the driver is about to  *)
(* find that it must kick.                                                 *)
Wake ==
    \/ kick
    \/ drv = "check" /\ (event_idx => Behind <= Minus(avail, old))

(* Where nothing makes the device look at the ring again before it waits,  *)
(* no buffer is left or the device will be woken.                          *)
WakeInv ==
    (/\ handler = "complete"
     /\ dev \in {"poll", "call"}
           \/ (dev \in {"publish", "fence", "recheck"} /\ n = 0))
        => Behind = 0 \/ Wake

(* What the counts do not determine.                                       *)
OtherTypes ==
    /\ availEvent \in 0..IdxMod - 1
    /\ called \in 0..IdxMod - 1 /\ old \in 0..IdxMod - 1
    /\ event_idx \in EventIdxs /\ handler \in Handlers
    /\ drv \in {"idle", "check"} /\ kick \in BOOLEAN
    /\ dev \in {"poll", "handle", "publish", "fence", "recheck", "call"}
    /\ storeBuf \in (0..IdxMod - 1) \cup {NoStore}
    /\ n \in Nat /\ total \in Nat

IndInv == OtherTypes /\ Counted /\ EventShown /\ WakeInv

-----------------------------------------------------------------------------
(***************************************************************************)
(* Indices and counts                                                      *)
(***************************************************************************)
LEMMA Sizes ==
    /\ QNum \in Nat \ {0} /\ IdxMod \in Nat \ {0}
    /\ IdxMod % QNum = 0 /\ QNum < IdxMod
BY VirtioTxConstants

(* avail - last_avail and avail - used, as uint16_t, are what is left.     *)
LEMMA GapIsBehind ==
    ASSUME Counted
    PROVE  Minus(avail, lastAvail) = Behind /\ Minus(avail, used) = Behind
<1>1. published \in Int /\ Len(emitted) \in Int
  BY LenProperties DEF Counted
<1>2. published - Len(emitted) \in 0..IdxMod - 1
  BY <1>1, Sizes DEF Counted, Behind
<1>3. ((published % IdxMod) + IdxMod - (Len(emitted) % IdxMod)) % IdxMod
         = published - Len(emitted)
  BY <1>1, <1>2, Sizes, IndexGap, Zenon
<1> QED BY <1>3, Zenon DEF Counted, Minus, Mod, Behind

(* One more buffer: the driver's distance from where it last checked grows *)
(* by one.                                                                 *)
LEMMA GapGrows ==
    ASSUME NEW a \in 0..IdxMod - 1, NEW b \in 0..IdxMod - 1,
           Minus(a, b) < IdxMod - 1
    PROVE  Minus(Mod(a + 1), b) = Minus(a, b) + 1
<1> DEFINE g == (a + IdxMod - b) % IdxMod
<1>1. /\ a + IdxMod - b \in Int /\ a + 1 \in Int /\ IdxMod - b \in Int
      /\ 1 \in Int
  BY Sizes
<1>2. g \in 0..IdxMod - 1
  BY <1>1, Sizes, ModRange, Zenon
<1>3. g < IdxMod - 1
  BY DEF Minus
<1>4. (((a + 1) % IdxMod) + (IdxMod - b)) % IdxMod
         = ((a + 1) + (IdxMod - b)) % IdxMod
  BY <1>1, Sizes, ModAdd, Zenon
<1>5. (g + 1) % IdxMod = ((a + IdxMod - b) + 1) % IdxMod
  BY <1>1, Sizes, ModAdd, Zenon
<1>6. (g + 1) % IdxMod = g + 1
  <2>1. g + 1 \in 0..IdxMod - 1
    BY <1>2, <1>3, Sizes
  <2> QED BY <2>1, Sizes, ModSmall, Zenon
<1>7. /\ (a + 1) + (IdxMod - b) = (a + IdxMod - b) + 1
      /\ \A x \in Int : x + IdxMod - b = x + (IdxMod - b)
  BY Sizes
<1>8. (a + 1) % IdxMod \in Int
  BY <1>1, Sizes, ModRange
<1> HIDE DEF g
<1>9. Minus(Mod(a + 1), b) = g + 1
  BY <1>4, <1>5, <1>6, <1>7, <1>8, Zenon DEF Minus, Mod
<1> QED BY <1>9 DEF g, Minus

LEMMA GapOfOne ==
    ASSUME NEW a \in 0..IdxMod - 1
    PROVE  Minus(Mod(a + 1), a) = 1
<1>2. Minus(a, a) = 0
  <2>1. (0 + IdxMod * 1) % IdxMod = 0 % IdxMod
    BY Sizes, ModShift
  <2>2. 0 % IdxMod = 0
    BY Sizes, ModSmall
  <2>3. a + IdxMod - a = 0 + IdxMod * 1
    BY Sizes
  <2> QED BY <2>1, <2>2, <2>3, Zenon DEF Minus
<1>3. Minus(a, a) < IdxMod - 1
  BY <1>2, Sizes
<1> QED BY <1>2, <1>3, GapGrows

LEMMA SlotOfCount ==
    ASSUME NEW a \in Nat, NEW k \in Nat
    PROVE  (Mod(a) + k - 1) % QNum = ((a + k) - 1) % QNum
<1>1. PICK j \in Int : j = k - 1
  OBVIOUS
<1>2. ((a % IdxMod) + j) % QNum = (a + j) % QNum
  <2>1. a \in Int
    OBVIOUS
  <2> QED BY <2>1, Sizes, SlotOfIndex, ZenonT(30)
<1>3. a % IdxMod \in Int
  BY Sizes, ModRange
<1>4. /\ a + j = (a + k) - 1
      /\ \A x \in Int : x + j = x + k - 1
  BY <1>1
<1> QED BY <1>2, <1>3, <1>4, Zenon DEF Mod

-----------------------------------------------------------------------------
(***************************************************************************)
(* What the two steps that move the counts do                              *)
(***************************************************************************)
(* Publish fills a slot that no buffer still waiting lies in.              *)
LEMMA PublishCounts ==
    ASSUME Counted, Publish
    PROVE  /\ Counted' /\ Behind' = Behind + 1
           /\ avail' = Mod(avail + 1)
<1> USE DEF Counted
<1>1. /\ published \in Int /\ Len(emitted) \in Nat
      /\ published' = published + 1 /\ emitted' = emitted
      /\ lastAvail' = lastAvail /\ used' = used
  BY LenProperties DEF Publish, device, driver
<1>2. Behind < QNum
  BY GapIsBehind DEF Publish
<1>3. Behind' = Behind + 1 /\ Behind' \in 0..QNum
  BY <1>1, <1>2, Sizes DEF Behind
<1>4. avail' = Mod(published')
  <2>1. ((published % IdxMod) + 1) % IdxMod = (published + 1) % IdxMod
    <3>1. 1 \in Int
      OBVIOUS
    <3> QED BY <1>1, <3>1, Sizes, ModAdd, Zenon
  <2> QED BY <1>1, <2>1, Zenon DEF Publish, Mod
<1>5. avail % QNum = published % QNum
  BY <1>1, Sizes, ModMod, Zenon DEF Mod
<1>6. published % QNum \in 0..QNum - 1
  BY <1>1, Sizes, ModRange, Zenon
<1>7. ring' = [ring EXCEPT ![published % QNum] = published + 1]
  BY <1>5, Zenon DEF Publish
<1>8. ring' \in [0..QNum - 1 -> Nat]
  <2>1. published + 1 \in Nat
    OBVIOUS
  <2> QED BY <1>6, <1>7, <2>1, Zenon
<1>9. \A k \in Len(emitted) + 1..published + 1 : ring'[(k - 1) % QNum] = k
  <2> TAKE k \in Len(emitted) + 1..published + 1
  <2> DEFINE s == (k - 1) % QNum
  <2>1. CASE k = published + 1
    <3>1. k - 1 = published
      BY <2>1, <1>1
    <3> QED BY <2>1, <3>1, <1>6, <1>7, Zenon
  <2>2. CASE k # published + 1
    <3>1. k \in Len(emitted) + 1..published
      BY <1>1, <2>2
    <3>2. ring[s] = k
      BY <3>1
    <3>3. s # published % QNum
      <4>1. /\ k - 1 \in Int /\ published - (k - 1) < QNum
            /\ (k - 1) - published < QNum
            /\ k - 1 # published
        BY <1>1, <1>2, <3>1, Sizes DEF Behind
      <4> QED BY <4>1, <1>1, Sizes, ModInjective, Zenon
    <3>4. s \in 0..QNum - 1
      <4>1. k - 1 \in Int
        BY <1>1
      <4> QED BY <4>1, Sizes, ModRange, Zenon
    <3> HIDE DEF s
    <3>5. ring'[s] = ring[s]
      BY <3>3, <3>4, <1>7, Zenon
    <3> QED BY <3>2, <3>5 DEF s
  <2> QED BY <2>1, <2>2
<1>10. EmittedOnceInOrder'
  BY <1>1 DEF EmittedOnceInOrder
<1>11. published' \in Nat
  BY <1>1
<1> QED BY <1>1, <1>3, <1>4, <1>8, <1>9, <1>10, <1>11 DEF Publish

(* The handler leaves nothing behind, or, as the stub, everything.         *)
LEMMA HandleCounts ==
    ASSUME Counted, Handle
    PROVE  /\ Counted'
           /\ n' \in Nat /\ total' = total + n'
           /\ IF handler = "stub" THEN n' = 0 ELSE n' = Behind
           /\ Behind' = Behind - n'
           /\ n' = 0 => lastAvail' = lastAvail
<1> DEFINE len == Len(emitted)
           more == [k \in 1..n' |-> ring[(lastAvail + k - 1) % QNum]]
<1>1. /\ published \in Int /\ len \in Nat
      /\ published' = published /\ ring' = ring /\ avail' = avail
      /\ emitted \in Seq(Nat)
  BY LenProperties DEF Counted, Handle, driver
<1>2. /\ n' = IF handler = "stub" THEN 0 ELSE Behind
      /\ total' = total + n'
      /\ lastAvail' = Mod(lastAvail + n')
      /\ used' = Mod(used + n')
      /\ emitted' = emitted \o more
  BY GapIsBehind, Zenon DEF Handle
<1>3. n' \in 0..Behind /\ n' \in Nat
  BY <1>2, Sizes DEF Counted
<1>4. \A k \in 1..n' : ring[(lastAvail + k - 1) % QNum] = len + k
  <2> TAKE k \in 1..n'
  <2>1. /\ len + k \in len + 1..published
        /\ k \in Nat
    BY <1>1, <1>3 DEF Behind
  <2>2. (lastAvail + k - 1) % QNum = ((len + k) - 1) % QNum
    BY <1>1, <2>1, SlotOfCount, Zenon DEF Counted
  <2>3. ring[((len + k) - 1) % QNum] = len + k
    BY <2>1, Zenon DEF Counted
  <2> QED BY <2>2, <2>3, Zenon
<1>5. /\ more \in Seq(Nat) /\ Len(more) = n'
      /\ \A k \in 1..n' : more[k] = len + k
  <2>1. \A k \in 1..n' : ring[(lastAvail + k - 1) % QNum] \in Nat
    BY <1>1, <1>3, <1>4
  <2> QED BY <1>3, <1>4, <2>1, LenProperties
<1> HIDE DEF more
<1>6. /\ emitted' \in Seq(Nat) /\ Len(emitted') = len + n'
      /\ \A i \in 1..len + n' :
            emitted'[i] = IF i <= len THEN emitted[i] ELSE more[i - len]
  <2>1. /\ emitted \o more \in Seq(Nat)
        /\ Len(emitted \o more) = len + Len(more)
        /\ \A i \in 1..len + Len(more) : (emitted \o more)[i] =
              IF i <= len THEN emitted[i] ELSE more[i - len]
    BY <1>1, <1>5, ConcatProperties, Zenon
  <2> QED BY <1>2, <1>5, <2>1, Zenon
<1>7. EmittedOnceInOrder'
  <2>1. \A k \in 1..len : emitted[k] = k
    BY DEF Counted, EmittedOnceInOrder
  <2>2. \A i \in 1..len + n' : i > len => i - len \in 1..n'
    BY <1>1, <1>3
  <2>3. \A i \in 1..len + n' : i > len => emitted'[i] = i
    BY <1>1, <1>3, <1>5, <1>6, <2>2
  <2>4. \A i \in 1..len + n' : i <= len => emitted'[i] = i
    BY <1>1, <1>3, <1>6, <2>1
  <2> QED BY <1>1, <1>3, <1>6, <2>3, <2>4 DEF EmittedOnceInOrder
<1>8. lastAvail' = Mod(Len(emitted')) /\ used' = lastAvail'
  <2>1. len \in Int /\ n' \in Int
    BY <1>1, <1>3
  <2>2. ((len % IdxMod) + n') % IdxMod = (len + n') % IdxMod
    BY <2>1, Sizes, ModAdd, Zenon
  <2> QED BY <1>2, <1>6, <2>2, Zenon DEF Mod, Counted
<1>9. Behind' = Behind - n' /\ Behind' \in 0..QNum
  BY <1>1, <1>3, <1>6, Sizes DEF Behind, Counted
<1>10. \A k \in Len(emitted') + 1..published' : ring'[(k - 1) % QNum] = k
  <2> TAKE k \in Len(emitted') + 1..published'
  <2>1. k \in len + 1..published
    BY <1>1, <1>3, <1>6
  <2> QED BY <2>1, <1>1 DEF Counted
<1>11. n' = 0 => lastAvail' = lastAvail
  BY <1>1, <1>6, <1>8 DEF Counted
<1> QED BY <1>1, <1>2, <1>3, <1>6, <1>7, <1>8, <1>9, <1>10, <1>11
  DEF Counted

(* Every other step leaves the counts alone.                               *)
LEMMA OthersKeepCounts ==
    ASSUME Counted,
           UNCHANGED <<ring, avail, used, published, lastAvail, emitted>>
    PROVE  Counted' /\ Behind' = Behind
BY DEF Counted, Behind, EmittedOnceInOrder, Mod

-----------------------------------------------------------------------------
(***************************************************************************)
(* The inductive invariant                                                 *)
(***************************************************************************)
(* Indices that are reduced counts are uint16_t values.                    *)
IndexTypes ==
    /\ avail \in 0..IdxMod - 1 /\ lastAvail \in 0..IdxMod - 1
    /\ used \in 0..IdxMod - 1
    /\ Minus(avail, lastAvail) <= QNum
    /\ Behind \in 0..IdxMod - 1

LEMMA CountedTypes == Counted => IndexTypes
<1> SUFFICES ASSUME Counted PROVE IndexTypes
  OBVIOUS
<1>1. published \in Int /\ Len(emitted) \in Int
  BY LenProperties DEF Counted
<1>2. published % IdxMod \in 0..IdxMod - 1 /\ Len(emitted) % IdxMod \in 0..IdxMod - 1
  BY <1>1, Sizes, ModRange, Zenon
<1>3. Minus(avail, lastAvail) <= QNum /\ Behind \in 0..IdxMod - 1
  BY GapIsBehind, Sizes DEF Counted
<1> QED BY <1>2, <1>3, Zenon DEF Counted, Mod, IndexTypes

(* The two indices agree exactly when nothing is left.                     *)
LEMMA LevelIsEmpty == Counted => (avail = lastAvail <=> Behind = 0)
<1> SUFFICES ASSUME Counted PROVE avail = lastAvail <=> Behind = 0
  OBVIOUS
<1>1. published \in Int /\ Len(emitted) \in Int
  BY LenProperties DEF Counted
<1>2. published - Len(emitted) < IdxMod /\ Len(emitted) - published < IdxMod
  <2>1. published - Len(emitted) \in 0..QNum
    BY Zenon DEF Counted, Behind
  <2> QED BY <1>1, <2>1, Sizes
<1>3. ASSUME avail = lastAvail PROVE Behind = 0
  <2>1. published % IdxMod = Len(emitted) % IdxMod
    BY <1>3, Zenon DEF Counted, Mod
  <2>2. published = Len(emitted)
    BY <1>1, <1>2, <2>1, Sizes, ModInjective, Zenon
  <2> QED BY <1>1, <2>2 DEF Behind
<1>4. ASSUME Behind = 0 PROVE avail = lastAvail
  <2>1. published = Len(emitted)
    BY <1>1, <1>4 DEF Behind
  <2> QED BY <2>1, Zenon DEF Counted
<1> QED BY <1>3, <1>4

LEMMA NoStoreIsNoIndex == NoStore \notin 0..IdxMod - 1
BY Sizes DEF NoStore

(* vring_need_event, when the device asked for the next buffer: the driver *)
(* must kick exactly if it has not checked since it published that buffer. *)
LEMMA NeedEventExact ==
    ASSUME Counted, Behind # 0, availEvent = lastAvail,
           old \in 0..IdxMod - 1
    PROVE  NeedEvent(availEvent, avail, old) <=> Behind <= Minus(avail, old)
<1>1. Minus(avail, availEvent) = Behind
  BY GapIsBehind
<1>2. Behind \in 1..IdxMod - 1
  BY CountedTypes DEF IndexTypes
<1>3. Minus(Behind, 1) = Behind - 1
  <2>1. /\ Behind \in 0..IdxMod - 1 /\ 1 \in 0..IdxMod - 1
        /\ Behind \in Int /\ 1 \in Int /\ Behind - 1 \in 0..IdxMod - 1
    BY <1>2, Sizes
  <2>2. Behind % IdxMod = Behind /\ 1 % IdxMod = 1
    BY <2>1, Sizes, ModSmall, Zenon
  <2>3. ((Behind % IdxMod) + IdxMod - (1 % IdxMod)) % IdxMod = Behind - 1
    BY <2>1, Sizes, IndexGap, Zenon
  <2> QED BY <2>2, <2>3, Zenon DEF Minus
<1>4. Minus(avail, old) \in Int
  <2>1. avail + IdxMod - old \in Int
    BY CountedTypes, Sizes DEF IndexTypes
  <2> QED BY <2>1, Sizes, ModRange DEF Minus
<1> QED BY <1>1, <1>2, <1>3, <1>4 DEF NeedEvent

LEMMA InitInd == Init => IndInv
<1> SUFFICES ASSUME Init PROVE IndInv
  OBVIOUS
<1> USE DEF Init
<1>1. /\ published = 0 /\ emitted = << >> /\ Len(emitted) = 0
      /\ Behind = 0
  <2>1. published = 0 /\ emitted = << >>
    BY Zenon
  <2>2. Len(<< >>) = 0 /\ 0 - 0 = 0
    BY EmptySeq
  <2> QED BY <2>1, <2>2, Zenon DEF Behind
<1>2. Mod(0) = 0
  BY Sizes, ModSmall DEF Mod
<1>3. Counted
  BY <1>1, <1>2, Sizes DEF Counted, EmittedOnceInOrder
<1>4. OtherTypes
  <2>1. 0 \in 0..IdxMod - 1 /\ 0 \in Nat
    BY Sizes
  <2> QED BY <2>1, Zenon DEF OtherTypes
<1>5. EventShown /\ WakeInv
  BY <1>1 DEF EventShown, WakeInv
<1> QED BY <1>3, <1>4, <1>5 DEF IndInv

LEMMA NextInd == IndInv /\ [Next]_vars => IndInv'
<1> SUFFICES ASSUME IndInv, [Next]_vars PROVE IndInv'
  OBVIOUS
<1> USE DEF setup, device, driver
<1>0. /\ OtherTypes /\ Counted /\ EventShown /\ WakeInv
      /\ Behind \in 0..QNum
      /\ IndexTypes
  BY CountedTypes DEF IndInv, Counted
<1>1. CASE Publish
  <2>1. Counted' /\ Behind' = Behind + 1 /\ avail' = Mod(avail + 1)
    BY <1>0, <1>1, PublishCounts
  <2>2. /\ drv' = "check" /\ dev' = dev /\ kick' = kick /\ n' = n
        /\ event_idx' = event_idx /\ handler' = handler /\ total' = total
        /\ availEvent' = availEvent /\ lastAvail' = lastAvail
        /\ storeBuf' = storeBuf /\ called' = called
        /\ old' = IF drv = "idle" THEN avail ELSE old
    BY <1>1 DEF Publish
  <2>3. OtherTypes'
    BY <1>0, <2>2 DEF OtherTypes, IndexTypes
  <2>4. EventShown'
    BY <1>0, <2>2 DEF EventShown
  <2>5. IF drv = "idle" THEN Minus(avail', old') = 1
                        ELSE Minus(avail', old') = Minus(avail, old) + 1
    <3>1. CASE drv = "idle"
      BY <1>0, <2>1, <2>2, <3>1, GapOfOne DEF IndexTypes
    <3>2. CASE drv = "check"
      <4>1. Minus(avail, old) < IdxMod - 1
        BY <1>1, <3>2 DEF Publish
      <4> QED BY <1>0, <2>1, <2>2, <3>2, <4>1, GapGrows DEF IndexTypes, OtherTypes
    <3> QED BY <1>0, <3>1, <3>2 DEF OtherTypes
  <2>6. WakeInv'
    <3>1. Minus(avail, old) \in 0..IdxMod - 1
      <4>1. avail + IdxMod - old \in Int
        BY <1>0, Sizes DEF IndexTypes, OtherTypes
      <4> QED BY <4>1, Sizes, ModRange, Zenon DEF Minus
    <3>2. Behind = 0 \/ (drv = "check" /\ Behind <= Minus(avail, old))
             => Behind' <= Minus(avail', old')
      BY <1>0, <2>1, <2>5, <3>1
    <3>3. WakeInv!1' => kick' \/ (event_idx' => Behind' <= Minus(avail', old'))
      BY <1>0, <2>2, <3>2, Zenon DEF WakeInv, Wake
    <3> QED BY <2>2, <3>3, Zenon DEF WakeInv, Wake
  <2> QED BY <2>1, <2>3, <2>4, <2>6 DEF IndInv
<1>2. CASE Check
  <2>1. Counted' /\ Behind' = Behind
    BY <1>0, <1>2, OthersKeepCounts DEF Check
  <2>2. OtherTypes' /\ EventShown'
    BY <1>0, <1>2 DEF Check, OtherTypes, EventShown
  <2>3. WakeInv'
    <3>1. CASE event_idx /\ Behind # 0 /\ availEvent = lastAvail
      <4>1. kick' = (kick \/ Behind <= Minus(avail, old))
        BY <1>0, <1>2, <3>1, NeedEventExact DEF Check, OtherTypes
      <4> QED BY <1>0, <1>2, <2>1, <3>1, <4>1 DEF Check, WakeInv, Wake
    <3>2. CASE ~event_idx \/ Behind = 0
      BY <1>0, <1>2, <2>1, <3>2 DEF Check, WakeInv, Wake
    <3>3. CASE event_idx /\ availEvent # lastAvail
      BY <1>0, <1>2, <2>1, <3>3 DEF Check, WakeInv, EventShown
    <3> QED BY <3>1, <3>2, <3>3
  <2> QED BY <2>1, <2>2, <2>3 DEF IndInv
<1>3. CASE KickCb
  <2>1. Counted' /\ Behind' = Behind
    BY <1>0, <1>3, OthersKeepCounts DEF KickCb
  <2>2. OtherTypes' /\ EventShown' /\ WakeInv'
    BY <1>0, <1>3 DEF KickCb, OtherTypes, EventShown, WakeInv
  <2> QED BY <2>1, <2>2 DEF IndInv
<1>4. CASE Handle
  <2>1. /\ Counted' /\ n' \in Nat /\ total' = total + n'
        /\ handler # "stub" => Behind' = 0
        /\ n' = 0 => lastAvail' = lastAvail
    <3> HIDE DEF setup, device, driver
    <3>1. /\ Counted' /\ n' \in Nat /\ total' = total + n'
          /\ handler # "stub" => n' = Behind
          /\ Behind' = Behind - n'
          /\ n' = 0 => lastAvail' = lastAvail
      BY <1>0, <1>4, HandleCounts, Zenon
    <3>2. handler # "stub" => Behind' = 0
      BY <1>0, <3>1
    <3> QED BY <3>1, <3>2, Zenon
  <2>2. OtherTypes'
    BY <1>0, <1>4, <2>1 DEF Handle, OtherTypes
  <2>3. EventShown'
    BY <1>0, <1>4, <2>1 DEF Handle, OtherTypes, EventShown
  <2>4. WakeInv'
    BY <1>4, <2>1 DEF Handle, WakeInv
  <2> QED BY <2>1, <2>2, <2>3, <2>4 DEF IndInv
<1>5. CASE PublishEvent
  <2>1. Counted' /\ Behind' = Behind
    BY <1>0, <1>5, OthersKeepCounts DEF PublishEvent
  <2>2. OtherTypes' /\ EventShown'
    BY <1>0, <1>5 DEF PublishEvent, OtherTypes, EventShown, IndexTypes
  <2>3. WakeInv'
    BY <1>0, <1>5, <2>1 DEF PublishEvent, WakeInv, Wake
  <2> QED BY <2>1, <2>2, <2>3 DEF IndInv
<1>6. CASE StoreLands
  <2>1. Counted' /\ Behind' = Behind
    BY <1>0, <1>6, OthersKeepCounts DEF StoreLands
  <2>2. OtherTypes' /\ EventShown'
    BY <1>0, <1>6 DEF StoreLands, OtherTypes, EventShown, IndexTypes
  <2>3. WakeInv'
    BY <1>0, <1>6, <2>1 DEF StoreLands, WakeInv, Wake
  <2> QED BY <2>1, <2>2, <2>3 DEF IndInv
<1>7. CASE Fence
  <2>1. Counted' /\ Behind' = Behind
    BY <1>0, <1>7, OthersKeepCounts DEF Fence
  <2>2. OtherTypes' /\ EventShown'
    BY <1>0, <1>7, NoStoreIsNoIndex DEF Fence, OtherTypes, EventShown, IndexTypes
  <2>3. WakeInv'
    BY <1>0, <1>7, <2>1 DEF Fence, WakeInv, Wake
  <2> QED BY <2>1, <2>2, <2>3 DEF IndInv
<1>8. CASE Recheck
  <2>1. Counted' /\ Behind' = Behind
    BY <1>0, <1>8, OthersKeepCounts DEF Recheck
  <2>2. OtherTypes' /\ EventShown'
    BY <1>0, <1>8 DEF Recheck, OtherTypes, EventShown
  <2>3. avail = lastAvail => Behind = 0
    BY <1>0, LevelIsEmpty
  <2>4. WakeInv'
    BY <1>0, <1>8, <2>1, <2>3 DEF Recheck, WakeInv, Wake
  <2> QED BY <2>1, <2>2, <2>4 DEF IndInv
<1>9. CASE Call
  <2>1. Counted' /\ Behind' = Behind
    BY <1>0, <1>9, OthersKeepCounts DEF Call
  <2>2. OtherTypes' /\ EventShown'
    BY <1>0, <1>9 DEF Call, OtherTypes, EventShown, IndexTypes
  <2>3. WakeInv'
    BY <1>0, <1>9, <2>1 DEF Call, WakeInv, Wake
  <2> QED BY <2>1, <2>2, <2>3 DEF IndInv
<1>10. CASE UNCHANGED vars
  <2>1. Counted' /\ Behind' = Behind
    BY <1>0, <1>10, OthersKeepCounts DEF vars
  <2>2. OtherTypes' /\ EventShown'
    BY <1>0, <1>10 DEF vars, OtherTypes, EventShown
  <2>3. WakeInv'
    BY <1>0, <1>10, <2>1 DEF vars, WakeInv, Wake
  <2> QED BY <2>1, <2>2, <2>3 DEF IndInv
<1> QED BY <1>1, <1>2, <1>3, <1>4, <1>5, <1>6, <1>7, <1>8, <1>9, <1>10
        DEF Next, TxKick

(* tx_kick and the driver keep the inductive invariant.                    *)
THEOREM Inductive == Spec => []IndInv
BY InitInd, NextInd, PTL DEF Spec

-----------------------------------------------------------------------------
(***************************************************************************)
(* The theorems                                                            *)
(***************************************************************************)
(* backend.c, tx_kick: every index stays a uint16_t and the device is      *)
(* never more than a ring behind the driver.                               *)
THEOREM TypeCorrect == Spec => []TypeOK
<1>1. IndInv => TypeOK
  BY CountedTypes DEF IndInv, OtherTypes, IndexTypes, TypeOK
<1> QED BY <1>1, Inductive, PTL

(* backend.c, tx_kick: with the fence and the re-check, the queue never    *)
(* stalls.  When both sides are idle and no kick is pending, nothing is    *)
(* left in the ring.                                                       *)
THEOREM NeverStalls == Spec => []NoStall
<1>1. IndInv => NoStall
  <2> SUFFICES ASSUME IndInv, NoStall!1 PROVE lastAvail = avail
    BY DEF NoStall
  <2>1. Behind = 0
    BY DEF IndInv, WakeInv, Wake
  <2> QED BY <2>1, LevelIsEmpty DEF IndInv
<1> QED BY <1>1, Inductive, PTL

(* backend.c, tx_kick: every record reaches vlog_sink_emit once and in the *)
(* order in which it was published, however often the indices wrap.        *)
THEOREM InOrder == Spec => []EmittedOnceInOrder
<1>1. IndInv => EmittedOnceInOrder
  BY DEF IndInv, Counted
<1> QED BY <1>1, Inductive, PTL
=============================================================================
