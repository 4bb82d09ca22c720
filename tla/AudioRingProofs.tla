--------------------------- MODULE AudioRingProofs ---------------------------
(***************************************************************************)
(* Proofs about AudioRing, for every size of the ring, of the chunks, of   *)
(* the frames and of the requests.                                         *)
(***************************************************************************)
EXTENDS AudioRing, Numbers, Sequences, SequenceTheorems

\* What % does to a position that has run over the end of the ring once.
LEMMA WrapOnce ==
    ASSUME NEW n \in 0 .. 2 * buffer_len - 1
    PROVE  /\ Wrap(n) = IF n < buffer_len THEN n ELSE n - buffer_len
           /\ Wrap(n) \in Slots
BY RingAssumption DEF Wrap, Slots

\* The number of a byte may be reduced before or after counting on from it.
LEMMA ByteSum ==
    ASSUME NEW a \in Nat, NEW b \in Nat
    PROVE  /\ Byte(a) \in 0 .. Modulus - 1
           /\ Byte(Byte(a) + b) = Byte(a + b)
<1>1. Modulus \in Nat \ {0}
  BY RingAssumption
<1>2. a % Modulus \in 0 .. Modulus - 1
  BY <1>1
<1> QED
  BY <1>1, <1>2, ModuloSum DEF Byte

\* What buf_used and buf_free return, from positions inside the ring.
LEMMA UsedFree ==
    ASSUME NEW w \in Slots, NEW r \in Slots
    PROVE  /\ Corrected(w - r) \in 0 .. buffer_len - 1
           /\ Corrected(w - r) <= buffer_len - chunk_size =>
                 Corrected(r - w - chunk_size) = buffer_len - chunk_size - Corrected(w - r)
BY RingAssumption DEF Slots, Corrected

-----------------------------------------------------------------------------
(* Type correctness *)

\* What RingInv below says of the sizes keeps the arithmetic inside Nat.
Sizes ==
    /\ ppc \in {"wait", "write", "store"} => i > 0
    /\ ppc = "write" => i <= buf_free
    /\ ppc = "store" => wlen = i
    /\ "position" \in stores => ppc = "store" /\ buf_used + wlen <= buffer_len - chunk_size
    /\ "bytes" \in stores => ppc = "store"
    /\ wlen < buffer_len
    /\ cpc \in {"read", "copy"} => amt <= buf_used
    /\ Blocking /\ cpc \in {"read", "copy"} => amt = req

RingInv == TypeOK /\ ChunkStaysFree /\ Sizes

\* A step keeps the types, the free chunk and the sizes.
LEMMA RingStep == RingInv /\ [Next]_vars => RingInv'
<1> SUFFICES ASSUME RingInv, [Next]_vars PROVE RingInv'
  OBVIOUS
<1>0. /\ TypeOK /\ ChunkStaysFree /\ Sizes
      /\ buf_used \in 0 .. buffer_len - 1
      /\ buf_free = buffer_len - chunk_size - buf_used
      /\ buf_write_pos \in 0 .. buffer_len - 1 /\ buf_read_pos \in 0 .. buffer_len - 1
      /\ i \in Nat /\ wlen \in Nat /\ req \in Nat /\ amt \in Nat
  BY UsedFree DEF RingInv, TypeOK, Slots, ChunkStaysFree, buf_used, buf_free
<1>a. /\ buffer_len \in Nat /\ chunk_size \in Nat \ {0} /\ chunk_size < buffer_len
      /\ Modulus \in Nat /\ Modulus > buffer_len
      /\ \A d \in Drivers : Frames[d] \subseteq Nat \ {0} /\ Requests[d] \subseteq Nat \ {0}
  BY RingAssumption
<1> USE <1>0, <1>a DEF RingInv, setting, shared, producer, consumer
<1>1. CASE Play
  BY <1>1 DEF Play, TypeOK, ChunkStaysFree, Sizes, buf_used, Blocking
<1>2. CASE WaitFree
  BY <1>2 DEF WaitFree, TypeOK, ChunkStaysFree, Sizes, buf_used, buf_free, Blocking
<1>3. CASE WriteBuffer
  <2>1. wlen' = i /\ wlen' > 0
    BY <1>3 DEF WriteBuffer, Sizes, Least, TypeOK
  <2> QED
    BY <1>3, <2>1 DEF WriteBuffer, TypeOK, ChunkStaysFree, Sizes, buf_used, Blocking
<1>4. CASE StoreBytes
  <2> DEFINE late  == "position" \notin stores
             pos   == IF late THEN Wrap(buf_write_pos - wlen + buffer_len)
                      ELSE buf_write_pos
             first == IF late THEN Byte(sent - wlen + Modulus) ELSE sent
  <2>1. buffer' \in [Slots -> 0 .. Modulus - 1]
    <3>1. sent - wlen + Modulus \in Nat
      BY DEF TypeOK, Sizes
    <3>2. first \in Nat
      <4>1. Byte(sent - wlen + Modulus) \in 0 .. Modulus - 1
        BY <3>1, ByteSum
      <4>2. sent \in Nat /\ 0 .. Modulus - 1 \subseteq Nat
        BY DEF TypeOK
      <4> QED
        BY <4>1, <4>2
    <3>3. buf_write_pos - wlen + buffer_len \in 0 .. 2 * buffer_len - 1
      BY DEF Sizes
    <3>4. pos \in Slots
      <4>1. Wrap(buf_write_pos - wlen + buffer_len) \in Slots
        BY <3>3, WrapOnce
      <4> QED
        BY <4>1 DEF TypeOK
    <3> HIDE DEF pos, first
    <3>5. ASSUME NEW k \in Slots
          PROVE  Byte(first + Corrected(k - pos)) \in 0 .. Modulus - 1
      <4>1. first + Corrected(k - pos) \in Nat
        BY <3>2, <3>4 DEF Slots, Corrected
      <4> QED
        BY <4>1, ByteSum
    <3>6. buffer' = [k \in Slots |-> IF Corrected(k - pos) < wlen
                                    THEN Byte(first + Corrected(k - pos))
                                    ELSE buffer[k]]
      BY <1>4 DEF StoreBytes, pos, first
    <3> QED
      BY <3>5, <3>6 DEF TypeOK
  <2>2. /\ stores' = stores \ {"bytes"}
        /\ UNCHANGED <<driver, machine, buf_write_pos, buf_read_pos, unit, paused,
                       call, ppc, i, wlen, cpc, req, amt, sent, got>>
    BY <1>4 DEF StoreBytes
  <2>3. TypeOK'
    BY <2>1, <2>2 DEF TypeOK
  <2>4. UNCHANGED <<buf_used, buf_free>>
    BY <2>2 DEF buf_used, buf_free
  <2> QED
    BY <2>2, <2>3, <2>4 DEF ChunkStaysFree, Sizes, Blocking
<1>5. CASE StorePosition
  <2>1. /\ buf_write_pos' \in Slots
        /\ buf_used' = buf_used + wlen
    <3>1. buf_write_pos' = Wrap(buf_write_pos + wlen) /\ buf_read_pos' = buf_read_pos
      BY <1>5 DEF StorePosition
    <3>2. buf_used + wlen <= buffer_len - chunk_size
      BY <1>5 DEF StorePosition, Sizes
    <3>3. buf_write_pos + wlen \in 0 .. 2 * buffer_len - 1
      BY <3>2
    <3>4. /\ buf_write_pos' = IF buf_write_pos + wlen < buffer_len THEN buf_write_pos + wlen
                               ELSE buf_write_pos + wlen - buffer_len
          /\ buf_write_pos' \in Slots
      BY <3>1, <3>3, WrapOnce
    <3> QED
      BY <3>1, <3>2, <3>4 DEF Slots, buf_used, Corrected
  <2>2. sent' \in 0 .. Modulus - 1
    <3>1. sent + wlen \in Nat
      BY DEF TypeOK
    <3> QED
      BY <1>5, <3>1, ByteSum DEF StorePosition
  <2> QED
    BY <1>5, <2>1, <2>2 DEF StorePosition, TypeOK, ChunkStaysFree, Sizes, Blocking
<1>6. CASE Written
  BY <1>6 DEF Written, TypeOK, ChunkStaysFree, Sizes, buf_used, Blocking
<1>7. CASE StartUnit
  BY <1>7 DEF StartUnit, TypeOK, ChunkStaysFree, Sizes, buf_used, Blocking
<1>8. CASE OnPause
  BY <1>8 DEF OnPause, TypeOK, ChunkStaysFree, Sizes, buf_used, Blocking
<1>9. CASE OnResume
  BY <1>9 DEF OnResume, TypeOK, ChunkStaysFree, Sizes, buf_used, Blocking
<1>10. CASE Deinit
  BY <1>10 DEF Deinit, TypeOK, ChunkStaysFree, Sizes, buf_used, Blocking
<1>11. CASE Render
  BY <1>11 DEF Render, TypeOK, ChunkStaysFree, Sizes, buf_used, buf_free, Blocking
<1>12. CASE RenderAmount
  BY <1>12 DEF RenderAmount, TypeOK, ChunkStaysFree, Sizes, buf_used, buf_free, Blocking, Least
<1>13. CASE ReadBuffer
  BY <1>13 DEF ReadBuffer, TypeOK, ChunkStaysFree, Sizes, buf_used, buf_free, Blocking, Least
<1>14. CASE ReadDone
  <2>1. amt \in Nat /\ amt <= buf_used
    BY <1>14 DEF ReadDone, TypeOK, Sizes
  <2>2. buf_read_pos' \in Slots /\ buf_used' = buf_used - amt
    <3>1. buf_read_pos' = Wrap(buf_read_pos + amt) /\ buf_write_pos' = buf_write_pos
      BY <1>14 DEF ReadDone
    <3>2. buf_read_pos + amt \in 0 .. 2 * buffer_len - 1
      BY <2>1 DEF TypeOK, Slots
    <3>3. /\ buf_read_pos' = IF buf_read_pos + amt < buffer_len THEN buf_read_pos + amt
                              ELSE buf_read_pos + amt - buffer_len
          /\ buf_read_pos' \in Slots
      BY <3>1, <3>2, WrapOnce
    <3> QED
      BY SMTT(60), <2>1, <3>1, <3>3 DEF TypeOK, Slots, buf_used, Corrected
  <2>3. got' \in 0 .. Modulus - 1
    <3>1. got + amt \in Nat
      BY <2>1 DEF TypeOK
    <3> QED
      BY <1>14, <3>1, ByteSum DEF ReadDone
  <2>4. TypeOK' /\ ChunkStaysFree'
    BY <1>14, <2>1, <2>2, <2>3 DEF ReadDone, TypeOK, ChunkStaysFree
  <2>5. buf_free' = buffer_len - chunk_size - buf_used'
    <3>1. buf_write_pos' \in Slots /\ buf_read_pos' \in Slots
      BY <2>4 DEF TypeOK
    <3>2. buf_used' <= buffer_len - chunk_size
      BY <2>4 DEF ChunkStaysFree
    <3> QED
      BY <3>1, <3>2, UsedFree DEF buf_used, buf_free
  <2> QED
    BY <1>14, <2>1, <2>2, <2>4, <2>5 DEF ReadDone, Sizes, TypeOK, Blocking
<1>15. CASE UNCHANGED vars
  BY <1>15 DEF vars, TypeOK, ChunkStaysFree, Sizes, buf_used, buf_free, Blocking
<1> QED
  BY <1>1, <1>2, <1>3, <1>4, <1>5, <1>6, <1>7, <1>8, <1>9, <1>10, <1>11, <1>12, <1>13,
     <1>14, <1>15 DEF Next, Producing, Control, Rendering, Closed

\* The ring has its types, its free chunk and its sizes in every state.
LEMMA RingCorrect == Spec => []RingInv
<1>1. Init => TypeOK
  BY RingAssumption DEF Init, TypeOK, Slots
<1>2. Init => RingInv
  BY RingAssumption, <1>1 DEF Init, RingInv, ChunkStaysFree, Sizes, buf_used, Corrected
<1> QED
  BY <1>2, RingStep, PTL DEF Spec

-----------------------------------------------------------------------------
(* What the threads were told holds when they copy *)

\* A chunk of the ring is always free: buf_free and buf_used are exact.
THEOREM ChunkFree == Spec => []ChunkStaysFree
<1>1. RingInv => ChunkStaysFree
  BY DEF RingInv
<1> QED
  BY <1>1, RingCorrect, PTL

\* Neither write_buffer nor read_buffer ever shortens what it was asked for.
THEOREM NothingShort == Spec => []NothingCutShort
<1>1. RingInv => NothingCutShort
  BY DEF RingInv, Sizes, NothingCutShort
<1> QED
  BY <1>1, RingCorrect, PTL

\* The bytes from the read position to the write position are the next ones
\* of the stream, and so are those write_buffer has stored beyond it.
BytesInv ==
    machine = "ordered" =>
        /\ stores \in {{}, {"position"}, {"bytes", "position"}}
        /\ sent = Byte(got + buf_used)
        /\ \A k \in 0 .. buf_used - 1 : buffer[Wrap(buf_read_pos + k)] = Byte(got + k)
        /\ stores = {"position"} =>
              \A k \in 0 .. wlen - 1 : buffer[Wrap(buf_write_pos + k)] = Byte(sent + k)

\* Positions counted from a position of the ring.
LEMMA PlaceAfter ==
    ASSUME NEW p \in Slots, NEW k \in Nat, k < buffer_len
    PROVE  /\ Wrap(p + k) = IF p + k < buffer_len THEN p + k ELSE p + k - buffer_len
           /\ Wrap(p + k) \in Slots
<1>1. buffer_len \in Nat /\ p \in 0 .. buffer_len - 1
  BY RingAssumption DEF Slots
<1>2. p + k \in 0 .. 2 * buffer_len - 1
  BY <1>1
<1> QED
  BY <1>1, <1>2, WrapOnce

\* What is used, counted from the read position, ends at the write position.
LEMMA PlaceEnd ==
    ASSUME NEW r \in Slots, NEW w \in Slots
    PROVE  w = Wrap(r + Corrected(w - r))
<1>1. /\ buffer_len \in Nat
      /\ r \in 0 .. buffer_len - 1 /\ w \in 0 .. buffer_len - 1
  BY RingAssumption DEF Slots
<1>2. PICK k \in Nat : k = Corrected(w - r) /\ k < buffer_len
  <2>1. Corrected(w - r) \in Nat /\ Corrected(w - r) < buffer_len
    BY <1>1 DEF Corrected
  <2> QED
    BY <2>1
<1>3. r + k = w \/ r + k - buffer_len = w
  BY <1>1, <1>2 DEF Corrected
<1>4. Wrap(r + k) = IF r + k < buffer_len THEN r + k ELSE r + k - buffer_len
  BY <1>2, PlaceAfter
<1> QED
  BY <1>1, <1>2, <1>3, <1>4

\* Positions may be counted on from one that was counted.
LEMMA PlaceSum ==
    ASSUME NEW r \in Slots, NEW a \in Nat, NEW k \in Nat, a + k < buffer_len
    PROVE  Wrap(Wrap(r + a) + k) = Wrap(r + (a + k))
<1>0. buffer_len \in Nat /\ r \in 0 .. buffer_len - 1
  BY RingAssumption DEF Slots
<1>1. a < buffer_len /\ k < buffer_len /\ a + k \in Nat
  BY <1>0
<1>2. PICK p \in Slots : /\ p = Wrap(r + a)
                        /\ p = IF r + a < buffer_len THEN r + a ELSE r + a - buffer_len
  BY <1>1, PlaceAfter
<1>3. Wrap(p + k) = IF p + k < buffer_len THEN p + k ELSE p + k - buffer_len
  BY <1>1, PlaceAfter
<1>4. Wrap(r + (a + k)) = IF r + (a + k) < buffer_len THEN r + (a + k)
                          ELSE r + (a + k) - buffer_len
  BY <1>1, PlaceAfter
<1>5. Wrap(p + k) = Wrap(r + (a + k))
  BY <1>0, <1>2, <1>3, <1>4 DEF Slots
<1> QED
  BY <1>2, <1>5

\* The distance to a position that was counted is what was counted.
LEMMA PlaceOwn ==
    ASSUME NEW r \in Slots, NEW k \in Nat, k < buffer_len
    PROVE  Corrected(Wrap(r + k) - r) = k
<1>0. buffer_len \in Nat /\ r \in 0 .. buffer_len - 1
  BY RingAssumption DEF Slots
<1> QED
  BY <1>0, PlaceAfter DEF Corrected

\* Seen from the write position, a used byte lies after all that is free.
LEMMA PlaceBehind ==
    ASSUME NEW r \in Slots, NEW w \in Slots, NEW k \in Nat, k < Corrected(w - r)
    PROVE  Corrected(Wrap(r + k) - w) = buffer_len - Corrected(w - r) + k
<1>0. /\ buffer_len \in Nat
      /\ r \in 0 .. buffer_len - 1 /\ w \in 0 .. buffer_len - 1
  BY RingAssumption DEF Slots
<1>1. k < buffer_len
  BY <1>0 DEF Corrected
<1>2. Wrap(r + k) = IF r + k < buffer_len THEN r + k ELSE r + k - buffer_len
  BY <1>1, PlaceAfter
<1> QED
  BY <1>0, <1>2 DEF Corrected

\* A step keeps the bytes of the ring: what is stored beyond the write position
\* is out of the reader's range, and what is read is the stream's next.
LEMMA BytesStep == RingInv /\ RingInv' /\ BytesInv /\ [Next]_vars => BytesInv'
<1> SUFFICES ASSUME RingInv, RingInv', BytesInv, [Next]_vars, machine' = "ordered"
             PROVE  BytesInv'
  BY DEF BytesInv
<1>0. /\ buffer_len \in Nat /\ chunk_size \in Nat \ {0}
      /\ Slots = 0 .. buffer_len - 1
      /\ buf_write_pos \in Slots /\ buf_read_pos \in Slots
      /\ buf_used \in Nat /\ buf_used <= buffer_len - chunk_size
      /\ buf_used = Corrected(buf_write_pos - buf_read_pos)
      /\ wlen \in Nat /\ amt \in Nat /\ sent \in Nat /\ got \in Nat
      /\ Sizes
  <2>1. /\ buffer_len \in Nat /\ chunk_size \in Nat \ {0} /\ Modulus \in Nat
        /\ TypeOK /\ ChunkStaysFree /\ Sizes
    BY RingAssumption DEF RingInv
  <2>2. Corrected(buf_write_pos - buf_read_pos) \in 0 .. buffer_len - 1
    BY <2>1, UsedFree DEF TypeOK
  <2> QED
    BY <2>1, <2>2 DEF TypeOK, Slots, ChunkStaysFree, buf_used
<1>1. machine = "ordered"
  BY DEF Next, Producing, Control, Rendering, Closed, vars, setting, Play, WaitFree,
     WriteBuffer, StoreBytes, StorePosition, Written, StartUnit, OnPause, OnResume,
     Deinit, Render, RenderAmount, ReadBuffer, ReadDone
<1>2. /\ stores \in {{}, {"position"}, {"bytes", "position"}}
      /\ sent = Byte(got + buf_used)
      /\ \A k \in 0 .. buf_used - 1 : buffer[Wrap(buf_read_pos + k)] = Byte(got + k)
      /\ stores = {"position"} =>
            \A k \in 0 .. wlen - 1 : buffer[Wrap(buf_write_pos + k)] = Byte(sent + k)
  BY <1>1 DEF BytesInv
<1>3. CASE StoreBytes
  <2>1. stores = {"bytes", "position"} /\ ppc = "store"
    BY <1>2, <1>3 DEF StoreBytes
  <2>2. /\ stores' = {"position"}
        /\ UNCHANGED <<buf_write_pos, buf_read_pos, wlen, sent, got>>
        /\ buffer' = [k \in Slots |-> IF Corrected(k - buf_write_pos) < wlen
                                      THEN Byte(sent + Corrected(k - buf_write_pos))
                                      ELSE buffer[k]]
    BY <1>3, <2>1 DEF StoreBytes
  <2>3. buf_used + wlen <= buffer_len - chunk_size /\ buf_used' = buf_used
    BY <1>0, <2>1, <2>2 DEF Sizes, buf_used
  <2>4. ASSUME NEW k \in 0 .. buf_used - 1
        PROVE  buffer'[Wrap(buf_read_pos + k)] = Byte(got + k)
    <3>1. k \in Nat /\ k < buf_used /\ k < buffer_len
      BY <1>0
    <3>2. Wrap(buf_read_pos + k) \in Slots
      BY <1>0, <3>1, PlaceAfter
    <3>3. Corrected(Wrap(buf_read_pos + k) - buf_write_pos) = buffer_len - buf_used + k
      BY SMTT(30), <1>0, <3>1, PlaceBehind
    <3>4. ~(Corrected(Wrap(buf_read_pos + k) - buf_write_pos) < wlen)
      BY SMTT(60), <1>0, <2>3, <3>1, <3>3
    <3> QED
      BY <1>2, <2>2, <3>2, <3>4
  <2>5. ASSUME NEW k \in 0 .. wlen - 1
        PROVE  buffer'[Wrap(buf_write_pos + k)] = Byte(sent + k)
    <3>1. k \in Nat /\ k < wlen /\ k < buffer_len
      BY <1>0, <2>3
    <3>2. Wrap(buf_write_pos + k) \in Slots
      BY <1>0, <3>1, PlaceAfter
    <3>3. Corrected(Wrap(buf_write_pos + k) - buf_write_pos) = k
      BY <1>0, <3>1, PlaceOwn
    <3> QED
      BY <2>2, <3>1, <3>2, <3>3
  <2> QED
    BY <1>2, <2>2, <2>3, <2>4, <2>5 DEF BytesInv
<1>4. CASE StorePosition
  <2>1. stores = {"position"} /\ ppc = "store"
    BY <1>1, <1>2, <1>4 DEF StorePosition
  <2>2. /\ stores' = {}
        /\ sent' = Byte(sent + wlen)
        /\ buf_write_pos' = Wrap(buf_write_pos + wlen)
        /\ UNCHANGED <<buffer, buf_read_pos, wlen, got>>
    BY <1>4, <2>1 DEF StorePosition
  <2>3. buf_used + wlen <= buffer_len - chunk_size
    BY <2>1, <1>0 DEF Sizes
  <2>4. buf_used' = buf_used + wlen
    <3>1. wlen < buffer_len
      BY <1>0, <2>3
    <3>2. buf_write_pos' = IF buf_write_pos + wlen < buffer_len THEN buf_write_pos + wlen
                           ELSE buf_write_pos + wlen - buffer_len
      BY <1>0, <2>2, <3>1, PlaceAfter
    <3> QED
      BY <1>0, <2>2, <2>3, <3>2 DEF buf_used, Corrected
  <2>5. sent' = Byte(got + buf_used')
    <3>1. got + buf_used \in Nat
      BY <1>0
    <3>2. Byte(Byte(got + buf_used) + wlen) = Byte(got + buf_used + wlen)
      BY <1>0, <3>1, ByteSum
    <3>3. got + buf_used + wlen = got + (buf_used + wlen)
      BY <1>0
    <3> QED
      BY <1>2, <2>2, <2>4, <3>2, <3>3
  <2>6. ASSUME NEW k \in 0 .. buf_used' - 1
        PROVE  buffer[Wrap(buf_read_pos + k)] = Byte(got + k)
    <3>1. CASE k < buf_used
      BY <1>0, <1>2, <3>1
    <3>2. CASE k >= buf_used
      <4>1. PICK j \in Nat : k = buf_used + j
        <5>1. k - buf_used \in Nat /\ k = buf_used + (k - buf_used)
          BY <1>0, <2>4, <3>2
        <5> QED
          BY <5>1
      <4>5. j \in 0 .. wlen - 1 /\ buf_used + j < buffer_len
        BY SMTT(30), <1>0, <2>3, <2>4, <4>1
      <4>2. buf_write_pos = Wrap(buf_read_pos + buf_used)
        BY <1>0, PlaceEnd
      <4>3. Wrap(buf_read_pos + k) = Wrap(buf_write_pos + j)
        <5>1. Wrap(Wrap(buf_read_pos + buf_used) + j) = Wrap(buf_read_pos + (buf_used + j))
          BY ZenonT(40), <1>0, <4>5, PlaceSum
        <5> QED
          BY <4>1, <4>2, <5>1
      <4>4. Byte(sent + j) = Byte(got + k)
        <5>1. got + buf_used \in Nat
          BY <1>0
        <5>2. Byte(Byte(got + buf_used) + j) = Byte(got + buf_used + j)
          BY <4>1, <5>1, ByteSum
        <5>3. got + buf_used + j = got + k
          BY <1>0, <4>1
        <5> QED
          BY <1>2, <5>2, <5>3
      <4> QED
        BY <1>2, <2>1, <4>3, <4>4, <4>5
    <3> QED
      BY <1>0, <2>4, <3>1, <3>2
  <2> QED
    BY <2>2, <2>5, <2>6 DEF BytesInv
<1>5. CASE ReadDone
  <2>1. /\ buf_read_pos' = Wrap(buf_read_pos + amt)
        /\ got' = Byte(got + amt)
        /\ UNCHANGED <<buffer, buf_write_pos, wlen, stores, sent>>
        /\ amt <= buf_used
    BY <1>0, <1>5 DEF ReadDone, Sizes, producer
  <2>2. buf_used' = buf_used - amt
    <3>1. amt < buffer_len
      BY <1>0, <2>1
    <3>2. buf_read_pos' = IF buf_read_pos + amt < buffer_len THEN buf_read_pos + amt
                          ELSE buf_read_pos + amt - buffer_len
      BY <1>0, <2>1, <3>1, PlaceAfter
    <3> QED
      BY <1>0, <2>1, <3>2 DEF buf_used, Corrected
  <2>3. ASSUME NEW k \in Nat
        PROVE  Byte(got' + k) = Byte(got + (amt + k))
    <3>1. got + amt \in Nat
      BY <1>0
    <3>2. Byte(Byte(got + amt) + k) = Byte(got + amt + k)
      BY <3>1, ByteSum
    <3>3. got + amt + k = got + (amt + k)
      BY <1>0
    <3> QED
      BY <2>1, <3>2, <3>3
  <2>4. sent' = Byte(got' + buf_used')
    <3>1. buf_used' \in Nat /\ amt + buf_used' = buf_used
      BY <1>0, <2>1, <2>2
    <3> QED
      BY <1>2, <2>1, <2>3, <3>1
  <2>5. ASSUME NEW k \in 0 .. buf_used' - 1
        PROVE  buffer[Wrap(buf_read_pos' + k)] = Byte(got' + k)
    <3>1. k \in Nat /\ amt + k \in 0 .. buf_used - 1 /\ amt + k < buffer_len
      BY <1>0, <2>1, <2>2
    <3>2. Wrap(buf_read_pos' + k) = Wrap(buf_read_pos + (amt + k))
      BY ZenonT(40), <1>0, <2>1, <3>1, PlaceSum
    <3> QED
      BY <1>2, <2>3, <3>1, <3>2
  <2> QED
    BY <1>2, <2>1, <2>4, <2>5 DEF BytesInv
<1>6. CASE WriteBuffer
  <2>1. /\ UNCHANGED <<buffer, buf_write_pos, buf_read_pos, sent, got>>
        /\ stores = {} /\ stores' \in {{}, {"bytes", "position"}}
    BY <1>0, <1>2, <1>6 DEF WriteBuffer, Sizes, shared
  <2>2. buf_used' = buf_used
    BY <2>1 DEF buf_used
  <2> QED
    BY <1>2, <2>1, <2>2 DEF BytesInv
<1>7. ASSUME ~StoreBytes, ~StorePosition, ~ReadDone, ~WriteBuffer
      PROVE  UNCHANGED <<buffer, buf_write_pos, buf_read_pos, wlen, stores, sent, got>>
  BY <1>7 DEF Next, Producing, Control, Rendering, Closed, vars, shared, producer,
     Play, WaitFree, Written, StartUnit, OnPause, OnResume, Deinit, Render,
     RenderAmount, ReadBuffer
<1>8. CASE UNCHANGED <<buffer, buf_write_pos, buf_read_pos, wlen, stores, sent, got>>
  <2>1. buf_used' = buf_used
    BY <1>8 DEF buf_used
  <2> QED
    BY <1>2, <1>8, <2>1 DEF BytesInv
<1> QED
  BY <1>3, <1>4, <1>5, <1>6, <1>7, <1>8

\* The ring holds the next bytes of the stream in every state.
LEMMA BytesCorrect == Spec => []BytesInv
<1>1. Init => BytesInv
  <2> SUFFICES ASSUME Init PROVE BytesInv
    OBVIOUS
  <2>1. buf_used = 0 /\ got = 0 /\ sent = 0 /\ stores = {}
    BY DEF Init, buf_used, Corrected
  <2>2. Byte(0) = 0
    BY RingAssumption DEF Byte
  <2> QED
    BY <2>1, <2>2 DEF BytesInv
<1> QED
  BY <1>1, RingCorrect, BytesStep, PTL DEF Spec

\* On a machine that keeps the order of stores render_proc hands out the next
\* bytes of the stream.
THEOREM InOrder == Spec => []BytesInOrderIfOrdered
<1>1. RingInv /\ BytesInv => BytesInOrderIfOrdered
  BY UsedFree DEF RingInv, TypeOK, Sizes, BytesInv, BytesInOrderIfOrdered, BytesInOrder,
     NextBytes, ChunkStaysFree, buf_used
<1> QED
  BY <1>1, RingCorrect, BytesCorrect, PTL

\* On such a machine the two threads never copy to and from the same byte.
THEOREM ThreadsApart == Spec => []NoOverlap
<1>1. RingInv /\ BytesInv => NoOverlap
  <2> SUFFICES ASSUME RingInv, BytesInv, machine = "ordered", ppc = "store",
                      "bytes" \in stores, cpc = "copy", NEW k \in 0 .. wlen - 1, NEW j \in 0 .. amt - 1
               PROVE  Wrap(buf_write_pos + k) # Wrap(buf_read_pos + j)
    BY DEF NoOverlap, Region
  <2>0. "position" \in stores
    BY DEF BytesInv
  <2>1. /\ buffer_len \in Nat /\ wlen \in Nat /\ amt \in Nat /\ chunk_size \in Nat \ {0}
        /\ buf_write_pos \in Slots /\ buf_read_pos \in Slots
        /\ buf_used + wlen <= buffer_len - chunk_size /\ amt <= buf_used
    BY <2>0, RingAssumption DEF RingInv, TypeOK, Sizes
  <2>2. buf_used \in Nat /\ buf_used = Corrected(buf_write_pos - buf_read_pos)
    BY <2>1, UsedFree DEF buf_used
  <2>3. k \in Nat /\ k < wlen /\ k < buffer_len /\ j \in Nat /\ j < buf_used
    BY <2>1, <2>2
  <2>4. Corrected(Wrap(buf_write_pos + k) - buf_write_pos) = k
    BY <2>1, <2>3, PlaceOwn
  <2>5. Corrected(Wrap(buf_read_pos + j) - buf_write_pos) = buffer_len - buf_used + j
    BY <2>1, <2>2, <2>3, PlaceBehind
  <2> QED
    BY <2>1, <2>2, <2>3, <2>4, <2>5
<1> QED
  BY <1>1, RingCorrect, BytesCorrect, PTL

-----------------------------------------------------------------------------
(* The ring is a bounded queue                                             *)

\* The queue the ring stands for.
Queue == [k \in 1 .. buf_used |-> buffer[Wrap(buf_read_pos + k - 1)]]

\* On a machine that keeps the order of stores it is the piece of the stream
\* between got and sent.
QueueInv ==
    machine = "ordered" =>
        /\ Queue = Fifo!Stream(got, buf_used) /\ Len(Queue) = buf_used
        /\ sent = (got + buf_used) % Modulus

\* The stream of the queue may be cut anywhere.
LEMMA FifoStream ==
    ASSUME NEW a \in Nat, NEW n \in Nat, NEW l \in Nat
    PROVE  /\ Len(Fifo!Stream(a, n)) = n
           /\ Fifo!Stream(a, n) \o Fifo!Stream((a + n) % Modulus, l) = Fifo!Stream(a, n + l)
           /\ SubSeq(Fifo!Stream(a, n + l), 1, n) = Fifo!Stream(a, n)
           /\ SubSeq(Fifo!Stream(a, n + l), n + 1, n + l) = Fifo!Stream((a + n) % Modulus, l)
<1>0. Modulus \in Nat \ {0}
  BY RingAssumption
<1> DEFINE b == (a + n) % Modulus
<1>1. b \in 0 .. Modulus - 1 /\ b \in Nat /\ a + n \in Nat
  BY <1>0, ModuloParts
<1>2. ASSUME NEW k \in Nat
      PROVE  (b + k) % Modulus = (a + n + k) % Modulus
  BY <1>0, <1>1, ModuloSum
<1> HIDE DEF b
<1>3. ASSUME NEW c \in Nat, NEW s \in Nat
      PROVE  /\ Fifo!Stream(s, c) \in Seq(0 .. Modulus - 1) /\ Len(Fifo!Stream(s, c)) = c
             /\ \A k \in 1 .. c : Fifo!Stream(s, c)[k] = (s + k - 1) % Modulus
  <2>1. ASSUME NEW k \in 1 .. c PROVE (s + k - 1) % Modulus \in 0 .. Modulus - 1
    <3>1. s + k - 1 \in Nat
      OBVIOUS
    <3> QED
      BY <1>0, <3>1, ModuloParts
  <2> QED
    BY <2>1 DEF Fifo!Stream
<1>4. ASSUME NEW k \in 1 .. l
      PROVE  Fifo!Stream(b, l)[k] = Fifo!Stream(a, n + l)[n + k]
  <2>1. k - 1 \in Nat /\ n + k \in 1 .. n + l
        /\ b + (k - 1) = b + k - 1 /\ a + n + (k - 1) = a + (n + k) - 1
    BY <1>1
  <2>2. (b + k - 1) % Modulus = (a + (n + k) - 1) % Modulus
    BY <1>2, <2>1
  <2> QED
    BY <2>1, <2>2 DEF Fifo!Stream
<1>5. \A k \in 1 .. n : Fifo!Stream(a, n)[k] = Fifo!Stream(a, n + l)[k]
  <2>1. \A k \in 1 .. n : k \in 1 .. n + l
    OBVIOUS
  <2> QED
    BY <2>1 DEF Fifo!Stream
<1> DEFINE x == Fifo!Stream(a, n)
           y == Fifo!Stream(b, l)
           z == Fifo!Stream(a, n + l)
<1>6. /\ x \in Seq(0 .. Modulus - 1) /\ y \in Seq(0 .. Modulus - 1)
      /\ z \in Seq(0 .. Modulus - 1)
      /\ Len(x) = n /\ Len(y) = l /\ Len(z) = n + l
      /\ \A k \in 1 .. n : x[k] = z[k]
      /\ \A k \in 1 .. l : y[k] = z[n + k]
  <2>1. n + l \in Nat
    OBVIOUS
  <2>2. x \in Seq(0 .. Modulus - 1) /\ Len(x) = n
    BY <1>3
  <2>3. y \in Seq(0 .. Modulus - 1) /\ Len(y) = l
    BY <1>1, <1>3
  <2>4. z \in Seq(0 .. Modulus - 1) /\ Len(z) = n + l
    BY <2>1, <1>3
  <2> QED
    BY <1>4, <1>5, <2>2, <2>3, <2>4
<1> HIDE DEF x, y, z
<1>7. x \o y = z
  <2>1. /\ x \o y \in Seq(0 .. Modulus - 1) /\ Len(x \o y) = n + l
        /\ \A k \in 1 .. n + l : (x \o y)[k] = IF k <= n THEN x[k] ELSE y[k - n]
    BY <1>6, ConcatProperties
  <2>2. ASSUME NEW k \in 1 .. n + l
        PROVE  (x \o y)[k] = z[k]
    <3>1. CASE k <= n
      BY <1>6, <2>1, <3>1
    <3>2. CASE ~(k <= n)
      <4>1. k - n \in 1 .. l /\ n + (k - n) = k
        BY <3>2
      <4> QED
        BY <1>6, <2>1, <3>2, <4>1
    <3> QED
      BY <3>1, <3>2
  <2> QED
    BY <1>6, <2>1, <2>2, SeqEqual
<1>8. \A k \in 1 .. n + l : z[k] \in 0 .. Modulus - 1
  <2>1. \A k \in 1 .. Len(z) : z[k] \in 0 .. Modulus - 1
    BY <1>6, ElementOfSeq
  <2> QED
    BY <1>6, <2>1
<1>9. SubSeq(z, 1, n) = x
  <2>0. \A k \in 1 .. n : z[k] \in 0 .. Modulus - 1
    BY <1>8
  <2>1. /\ SubSeq(z, 1, n) \in Seq(0 .. Modulus - 1) /\ Len(SubSeq(z, 1, n)) = n
        /\ \A k \in 1 .. n : SubSeq(z, 1, n)[k] = z[k]
    BY <2>0, SubSeqProperties
  <2> QED
    BY <1>6, <2>1, SeqEqual
<1>10. SubSeq(z, n + 1, n + l) = y
  <2>0. /\ \A k \in n + 1 .. n + l : z[k] \in 0 .. Modulus - 1
        /\ n + 1 \in Int /\ n + l \in Int
    BY <1>8
  <2>1. /\ SubSeq(z, n + 1, n + l) \in Seq(0 .. Modulus - 1)
        /\ Len(SubSeq(z, n + 1, n + l)) = l
        /\ \A k \in 1 .. l : SubSeq(z, n + 1, n + l)[k] = z[n + k]
    BY <2>0, SubSeqProperties
  <2> DEFINE w == SubSeq(z, n + 1, n + l)
  <2>2. /\ w \in Seq(0 .. Modulus - 1) /\ y \in Seq(0 .. Modulus - 1)
        /\ Len(w) = Len(y)
        /\ \A k \in 1 .. Len(w) : w[k] = y[k]
    BY <1>6, <2>1
  <2> HIDE DEF w
  <2>3. w = y
    BY <2>2, SeqEqual
  <2> QED
    BY <2>3 DEF w
<1> QED
  BY <1>6, <1>7, <1>9, <1>10 DEF x, y, z, b

\* The bytes of the ring make the queue.
LEMMA QueueIs == RingInv /\ BytesInv => QueueInv
<1> SUFFICES ASSUME RingInv, BytesInv, machine = "ordered"
             PROVE  /\ Queue = Fifo!Stream(got, buf_used) /\ Len(Queue) = buf_used
                    /\ sent = (got + buf_used) % Modulus
  BY DEF QueueInv
<1>1. /\ buf_used \in Nat /\ buf_read_pos \in Nat /\ got \in Nat
      /\ Modulus \in Nat \ {0}
  <2>1. TypeOK /\ Modulus \in Nat \ {0} /\ buffer_len \in Nat
    BY RingAssumption DEF RingInv
  <2>2. buf_used \in 0 .. buffer_len - 1
    BY <2>1, UsedFree DEF TypeOK, buf_used
  <2> QED
    BY <2>1, <2>2 DEF TypeOK, Slots
<1>2. ASSUME NEW k \in 1 .. buf_used
      PROVE  buffer[Wrap(buf_read_pos + k - 1)] = (got + k - 1) % Modulus
  <2>1. /\ k - 1 \in 0 .. buf_used - 1
        /\ buf_read_pos + (k - 1) = buf_read_pos + k - 1
        /\ got + (k - 1) = got + k - 1
    BY <1>1
  <2>2. buffer[Wrap(buf_read_pos + (k - 1))] = Byte(got + (k - 1))
    BY <2>1 DEF BytesInv
  <2> QED
    BY <2>1, <2>2 DEF Byte
<1>3. Queue = Fifo!Stream(got, buf_used)
  BY <1>2 DEF Queue, Fifo!Stream
<1>4. Len(Fifo!Stream(got, buf_used)) = buf_used
  BY <1>1, FifoStream
<1> QED
  BY <1>3, <1>4 DEF BytesInv, Byte

\* What a step does to the number of bytes in use.
LEMMA UsedStep ==
    RingInv /\ [Next]_vars =>
        \/ StorePosition /\ buf_used' = buf_used + wlen
        \/ ReadDone /\ buf_used' = buf_used - amt
        \/ UNCHANGED <<buf_used, sent, got>>
<1> SUFFICES ASSUME RingInv, [Next]_vars
             PROVE  \/ StorePosition /\ buf_used' = buf_used + wlen
                    \/ ReadDone /\ buf_used' = buf_used - amt
                    \/ UNCHANGED <<buf_used, sent, got>>
  OBVIOUS
<1>1. /\ buffer_len \in Nat /\ chunk_size \in Nat
      /\ buf_write_pos \in Slots /\ buf_read_pos \in Slots
      /\ buf_used \in 0 .. buffer_len - 1 /\ buf_used <= buffer_len - chunk_size
      /\ wlen \in Nat /\ amt \in Nat /\ Sizes
  BY RingAssumption, UsedFree DEF RingInv, TypeOK, ChunkStaysFree, buf_used
<1>2. CASE StorePosition
  <2>1. wlen < buffer_len /\ buf_used + wlen < buffer_len
    BY <1>1, <1>2, RingAssumption DEF StorePosition, Sizes
  <2>2. buf_write_pos' = IF buf_write_pos + wlen < buffer_len THEN buf_write_pos + wlen
                         ELSE buf_write_pos + wlen - buffer_len
    BY <1>1, <1>2, <2>1, PlaceAfter DEF StorePosition
  <2> QED
    BY <1>1, <1>2, <2>1, <2>2 DEF StorePosition, Slots, buf_used, Corrected
<1>3. CASE ReadDone
  <2>1. amt <= buf_used /\ amt < buffer_len
    BY <1>1, <1>3 DEF ReadDone, Sizes
  <2>2. buf_read_pos' = IF buf_read_pos + amt < buffer_len THEN buf_read_pos + amt
                        ELSE buf_read_pos + amt - buffer_len
    BY <1>1, <1>3, <2>1, PlaceAfter DEF ReadDone
  <2> QED
    BY <1>1, <1>3, <2>1, <2>2 DEF ReadDone, Slots, buf_used, Corrected
<1>4. ASSUME ~StorePosition, ~ReadDone
      PROVE  UNCHANGED <<buf_write_pos, buf_read_pos, sent, got>>
  BY <1>4 DEF Next, Producing, Control, Rendering, Closed, vars, shared, Play, WaitFree,
     WriteBuffer, StoreBytes, Written, StartUnit, OnPause, OnResume, Deinit, Render,
     RenderAmount, ReadBuffer
<1> QED
  BY <1>2, <1>3, <1>4 DEF buf_used

\* Each step of the ring is one of the queue or none: bytes are put when the
\* write position moves, taken when the read position does, and nothing else the
\* threads do is seen from outside.
LEMMA QueueStep ==
    /\ RingInv /\ RingInv' /\ QueueInv /\ QueueInv' /\ BytesInv /\ [Next]_vars
    => [Fifo!Next]_(Fifo!vars)
<1> SUFFICES ASSUME RingInv, RingInv', QueueInv, QueueInv', BytesInv, [Next]_vars
             PROVE  [Fifo!Next]_(Fifo!vars)
  OBVIOUS
<1>1. machine' = machine
  BY DEF Next, Producing, Control, Rendering, Closed, vars, setting, Play, WaitFree,
     WriteBuffer, StoreBytes, StorePosition, Written, StartUnit, OnPause, OnResume,
     Deinit, Render, RenderAmount, ReadBuffer, ReadDone
<1>2. CASE machine # "ordered"
  BY <1>1, <1>2 DEF Fifo!vars, IfOrdered
<1>3. CASE machine = "ordered"
  <2>1. SUFFICES
          \/ /\ \E n \in 1 .. buffer_len - chunk_size - Len(Queue) :
                  /\ Queue' = Queue \o Fifo!Stream(sent, n)
                  /\ sent' = (sent + n) % Modulus
             /\ got' = got
          \/ /\ \E n \in 1 .. Len(Queue) :
                  /\ SubSeq(Queue, 1, n) = Fifo!Stream(got, n)
                  /\ Queue' = SubSeq(Queue, n + 1, Len(Queue))
                  /\ got' = (got + n) % Modulus
             /\ sent' = sent
          \/ UNCHANGED <<Queue, sent, got>>
    BY <1>1, <1>3 DEF Fifo!Next, Fifo!Put, Fifo!Get, Fifo!vars, IfOrdered, Queue
  <2>2. /\ Queue = Fifo!Stream(got, buf_used) /\ Len(Queue) = buf_used
        /\ sent = (got + buf_used) % Modulus
        /\ Queue' = Fifo!Stream(got', buf_used')
    BY <1>1, <1>3 DEF QueueInv
  <2>3. /\ got \in Nat /\ buf_used \in Nat /\ wlen \in Nat /\ amt \in Nat
        /\ Modulus \in Nat \ {0} /\ buffer_len \in Nat /\ chunk_size \in Nat /\ Sizes
    BY RingAssumption, UsedFree DEF RingInv, TypeOK, buf_used
  <2>4. CASE StorePosition /\ buf_used' = buf_used + wlen
    <3>1. stores = {"position"} /\ ppc = "store"
      BY <1>3, <2>4 DEF StorePosition, BytesInv
    <3>2. wlen > 0 /\ buf_used + wlen <= buffer_len - chunk_size
      BY <2>3, <3>1 DEF Sizes
    <3>3. sent' = (sent + wlen) % Modulus /\ got' = got
      BY <2>4 DEF StorePosition, Byte
    <3>4. Queue' = Queue \o Fifo!Stream(sent, wlen)
      <4>1. got \in Nat /\ buf_used \in Nat /\ wlen \in Nat
        BY <2>3
      <4>2. Fifo!Stream(got, buf_used) \o Fifo!Stream((got + buf_used) % Modulus, wlen)
              = Fifo!Stream(got, buf_used + wlen)
        BY <4>1, FifoStream, ZenonT(40)
      <4> QED
        BY <2>2, <2>4, <3>3, <4>2, Zenon
    <3>5. wlen \in 1 .. buffer_len - chunk_size - Len(Queue)
      BY <2>2, <2>3, <3>2
    <3> QED
      BY <3>3, <3>4, <3>5
  <2>5. CASE ReadDone /\ buf_used' = buf_used - amt
    <3>1. got' = (got + amt) % Modulus /\ sent' = sent
      BY <2>5 DEF ReadDone, Byte
    <3>2. CASE amt = 0
      <4>1. got' = got
        BY <2>3, <3>1, <3>2, RingAssumption DEF RingInv, TypeOK
      <4> QED
        BY <2>2, <2>3, <2>5, <3>1, <3>2, <4>1
    <3>3. CASE amt > 0
      <4>1. amt \in 1 .. buf_used
        BY <2>3, <2>5, <3>3 DEF ReadDone, Sizes
      <4>2. PICK l \in Nat :
              buf_used = amt + l /\ buf_used' = l /\ got \in Nat /\ amt \in Nat
        <5>1. buf_used - amt \in Nat /\ buf_used = amt + (buf_used - amt)
          BY <2>3, <4>1
        <5> QED
          BY <2>3, <2>5, <5>1
      <4>3. SubSeq(Queue, 1, amt) = Fifo!Stream(got, amt)
        <5>1. SubSeq(Fifo!Stream(got, amt + l), 1, amt) = Fifo!Stream(got, amt)
          BY <4>2, FifoStream, ZenonT(40)
        <5> QED
          BY <2>2, <4>2, <5>1, Zenon
      <4>4. Queue' = SubSeq(Queue, amt + 1, Len(Queue))
        <5>1. SubSeq(Fifo!Stream(got, amt + l), amt + 1, amt + l)
                = Fifo!Stream((got + amt) % Modulus, l)
          BY <4>2, FifoStream, ZenonT(40)
        <5> QED
          BY <2>2, <3>1, <4>2, <5>1, Zenon
      <4>5. amt \in 1 .. Len(Queue)
        BY <2>2, <4>1
      <4> QED
        BY <3>1, <4>3, <4>4, <4>5
    <3>4. amt = 0 \/ amt > 0
      BY <2>3
    <3> QED
      BY <3>2, <3>3, <3>4, Zenon
  <2>6. CASE UNCHANGED <<buf_used, sent, got>>
    BY <2>2, <2>6
  <2> QED
    BY <2>4, <2>5, <2>6, UsedStep
<1> QED
  BY <1>2, <1>3

\* The ring implements a bounded queue of bytes, whatever its size, that of the
\* frames and that of the requests, however the threads interleave.
THEOREM RingIsFifo == Spec => IsFifo
<1>1. Init => Fifo!Init
  <2> SUFFICES ASSUME Init PROVE Fifo!Init
    OBVIOUS
  <2>1. buf_used = 0
    BY DEF Init, buf_used, Corrected
  <2>2. Queue = << >>
    BY <2>1 DEF Queue
  <2> QED
    BY <2>2 DEF Init, Fifo!Init, IfOrdered, Queue
<1> QED
  BY <1>1, QueueIs, QueueStep, RingCorrect, BytesCorrect, PTL DEF Spec, IsFifo, Fifo!Spec
=============================================================================
