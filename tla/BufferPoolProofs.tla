-------------------------- MODULE BufferPoolProofs --------------------------
(***************************************************************************)
(* Proofs about BufferPool, for every number of buffers, every length of   *)
(* buffer and frame, and every number of buffers the device refuses.       *)
(***************************************************************************)
EXTENDS BufferPool, Numbers, SequenceTheorems

-----------------------------------------------------------------------------
(* The bytes of the stream *)

\* What Bytes returns.
LEMMA BytesType ==
    ASSUME NEW first \in Nat, NEW n \in Nat
    PROVE  /\ Bytes(first, n) \in Seq(0 .. Modulus - 1)
           /\ Len(Bytes(first, n)) = n
           /\ \A k \in 1 .. n : Bytes(first, n)[k] = (first + k - 1) % Modulus
           /\ (first + n) % Modulus \in 0 .. Modulus - 1
<1>1. Modulus \in Nat \ {0}
  BY PoolAssumption
<1>2. \A a \in Nat : a % Modulus \in 0 .. Modulus - 1
  BY <1>1
<1>3. Bytes(first, n) \in [1 .. n -> 0 .. Modulus - 1]
  BY <1>2 DEF Bytes
<1>4. first + n \in Nat
  OBVIOUS
<1> QED
  BY <1>2, <1>3, <1>4 DEF Bytes

\* The end of one piece of the stream is where the next begins.
LEMMA BytesJoin ==
    ASSUME NEW first \in Nat, NEW m \in Nat, NEW n \in Nat
    PROVE  /\ Bytes(first, m) \o Bytes((first + m) % Modulus, n) = Bytes(first, m + n)
           /\ (((first + m) % Modulus) + n) % Modulus = (first + (m + n)) % Modulus
           /\ \A k \in 0 .. m : SubSeq(Bytes(first, m), 1, k) = Bytes(first, k)
<1> DEFINE end == (first + m) % Modulus
<1>1. Modulus \in Nat \ {0} /\ first + m \in Nat /\ end \in Nat
  BY PoolAssumption, BytesType
<1>2. \A k \in Nat : (end + k) % Modulus = ((first + m) + k) % Modulus
  BY <1>1, ModuloSum
<1> HIDE DEF end
<1>3. ASSUME NEW k \in 1 .. n
      PROVE  (end + k - 1) % Modulus = (first + (m + k) - 1) % Modulus
  <2>1. k - 1 \in Nat /\ end + (k - 1) = end + k - 1
        /\ (first + m) + (k - 1) = first + (m + k) - 1
    BY <1>1
  <2> QED
    BY <1>2, <2>1
<1>4. Bytes(first, m) \o Bytes(end, n) = Bytes(first, m + n)
  <2> DEFINE a == Bytes(first, m)
             b == Bytes(end, n)
             c == Bytes(first, m + n)
  <2> HIDE DEF a, b, c
  <2>1. /\ a \in Seq(0 .. Modulus - 1) /\ Len(a) = m
        /\ \A k \in 1 .. m : a[k] = (first + k - 1) % Modulus
    BY BytesType DEF a
  <2>2. /\ b \in Seq(0 .. Modulus - 1) /\ Len(b) = n
        /\ \A k \in 1 .. n : b[k] = (end + k - 1) % Modulus
    BY <1>1, BytesType DEF b
  <2>3. m + n \in Nat
    OBVIOUS
  <2>4. /\ c \in Seq(0 .. Modulus - 1) /\ Len(c) = m + n
        /\ \A k \in 1 .. m + n : c[k] = (first + k - 1) % Modulus
    BY <2>3, BytesType DEF c
  <2>5. /\ a \o b \in Seq(0 .. Modulus - 1) /\ Len(a \o b) = m + n
        /\ \A k \in 1 .. m + n : (a \o b)[k] = IF k <= m THEN a[k] ELSE b[k - m]
    BY <2>1, <2>2, ConcatProperties
  <2>6. ASSUME NEW k \in 1 .. m + n
        PROVE  (a \o b)[k] = c[k]
    <3>1. CASE k <= m
      <4>1. k \in 1 .. m
        BY <3>1
      <4> QED
        BY <2>1, <2>4, <2>5, <4>1
    <3>2. CASE ~(k <= m)
      <4>1. k - m \in 1 .. n /\ m + (k - m) = k
        BY <3>2
      <4>2. (a \o b)[k] = b[k - m]
        BY <2>5, <3>2
      <4>3. b[k - m] = (first + k - 1) % Modulus
        BY <1>3, <2>2, <4>1
      <4> QED
        BY <2>4, <4>2, <4>3
    <3> QED
      BY <3>1, <3>2
  <2>7. a \o b = c
    BY <2>4, <2>5, <2>6, SeqEqual
  <2> QED
    BY <2>7 DEF a, b, c
<1>5. ASSUME NEW k \in 0 .. m
      PROVE  SubSeq(Bytes(first, m), 1, k) = Bytes(first, k)
  <2>1. k \in Nat
    OBVIOUS
  <2> QED
    BY <2>1, BytesType DEF Bytes
<1>6. (end + n) % Modulus = (first + (m + n)) % Modulus
  <2>1. (first + m) + n = first + (m + n)
    OBVIOUS
  <2> QED
    BY <1>2, <2>1
<1> QED
  BY <1>4, <1>5, <1>6 DEF end

\* The beginning of a sequence.
LEMMA Prefix ==
    ASSUME NEW S, NEW s \in Seq(S), NEW n \in 0 .. Len(s)
    PROVE  /\ SubSeq(s, 1, n) \in Seq(S)
           /\ Len(SubSeq(s, 1, n)) = n
<1>1. \A k \in 1 .. n : s[k] \in S
  BY ElementOfSeq
<1>2. n \in Int /\ 1 \in Int /\ (1 <= n => n - 1 + 1 = n) /\ (~(1 <= n) => n = 0)
  OBVIOUS
<1> QED
  BY <1>1, <1>2, SubSeqProperties

\* A count of no bytes leaves the position.
LEMMA NothingAdded == ASSUME NEW f \in 0 .. Modulus - 1 PROVE (f + 0) % Modulus = f
<1>1. Modulus \in Nat \ {0} /\ f \in Nat /\ 0 \in Int /\ f = Modulus * 0 + f /\ f + 0 = f
  BY PoolAssumption
<1>2. f % Modulus = f
  BY <1>1, ModuloUnique
<1> QED
  BY <1>1, <1>2

-----------------------------------------------------------------------------
(* Type correctness *)

\* What the types alone do not say: freebuffer runs over the end of the pool
\* only between the two stores of the callback, and DART has filled what index
\* says of the buffer it is filling.
TypeInv ==
    /\ TypeOK
    /\ limit \in 0 .. MaxLost
    /\ cpc # "modulo" => freebuffer < num_buffers
    /\ driver = "dart" => index <= Len(data[next])

\* A step keeps the types.
LEMMA TypeStep == TypeInv /\ [Next]_vars => TypeInv'
<1> SUFFICES ASSUME TypeInv, [Next]_vars PROVE TypeInv'
  OBVIOUS
<1>1. /\ num_buffers \in Nat /\ num_buffers >= 2
      /\ Modulus \in Nat \ {0} /\ MaxLost \in Nat /\ Room \in Nat \ {0}
      /\ Drivers \subseteq {"win32", "dart", "ahi"}
      /\ \A d \in Drivers : Frames[d] \subseteq Nat \ {0}
  BY PoolAssumption
<1>2. setting' = setting => Buffers' = Buffers
  BY DEF setting, Buffers, Count
<1>3. \A n \in 0 .. num_buffers : n % num_buffers = IF n = num_buffers THEN 0 ELSE n
  BY <1>1
<1> USE DEF TypeInv, TypeOK
<1>4. CASE Win32Play \/ DartPlay \/ AhiPlay
  BY <1>1, <1>2, <1>4 DEF Win32Play, DartPlay, AhiPlay, Call, Goto, setting, pool, device, stream
<1>5. ASSUME NEW n \in 0 .. len, NEW from \in 0 .. Len(data[next]), CopyBytes(from, n)
      PROVE  /\ data' \in [Buffers -> Seq(0 .. Modulus - 1)]
             /\ data'[next] = SubSeq(data[next], 1, from) \o Bytes(sent, n)
             /\ Len(data'[next]) = from + n
             /\ sent' \in 0 .. Modulus - 1
             /\ len' \in Nat
  <2>1. n \in Nat /\ sent \in Nat
    BY <1>1
  <2>2. /\ Bytes(sent, n) \in Seq(0 .. Modulus - 1) /\ Len(Bytes(sent, n)) = n
        /\ (sent + n) % Modulus \in 0 .. Modulus - 1
    BY <2>1, BytesType
  <2>3. data[next] \in Seq(0 .. Modulus - 1)
    OBVIOUS
  <2>4. /\ SubSeq(data[next], 1, from) \in Seq(0 .. Modulus - 1)
        /\ Len(SubSeq(data[next], 1, from)) = from
    BY <2>3, Prefix
  <2>5. /\ SubSeq(data[next], 1, from) \o Bytes(sent, n) \in Seq(0 .. Modulus - 1)
        /\ Len(SubSeq(data[next], 1, from) \o Bytes(sent, n)) = from + n
    <3> HIDE DEF TypeInv, TypeOK
    <3> QED
      BY ZenonT(30), <2>2, <2>4, ConcatProperties
  <2> QED
    BY SMTT(30), <1>5, <2>2, <2>5 DEF CopyBytes
<1>6. CASE Win32Copy
  <2>1. len \in 0 .. len /\ 0 \in 0 .. Len(data[next]) /\ CopyBytes(0, len)
    BY <1>6 DEF Win32Copy
  <2> QED
    BY <1>2, <1>5, <1>6, <2>1 DEF Win32Copy, CopyBytes, At, Goto, setting, device
<1>7. CASE Win32Wait
  BY <1>2, <1>7 DEF Win32Wait, Goto, setting, pool, device, stream
<1>8. ASSUME Submit, setting' = setting
      PROVE  /\ queue' \in Seq(Buffers) /\ done' \in Nat
             /\ lost' \in 0 .. MaxLost
  <2>1. CASE queue' = Append(queue, next) /\ UNCHANGED lost
    BY <1>1, <1>8, <2>1 DEF Submit
  <2>2. CASE lost < limit /\ lost' = lost + 1 /\ UNCHANGED queue
    BY <1>1, <1>8, <2>2 DEF Submit
  <2> QED
    BY <1>8, <2>1, <2>2 DEF Submit
<1>9. CASE Win32Write
  BY <1>2, <1>8, <1>9 DEF Win32Write, Goto, setting, pool, stream
<1>10. CASE Win32Advance
  <2>1. next' \in Buffers /\ driver = "win32"
    <3>1. driver = "win32" /\ next \in 0 .. num_buffers - 1 /\ Buffers = 0 .. num_buffers - 1
      BY <1>10 DEF Win32Advance, At, Buffers, Count
    <3>2. next + 1 \in 0 .. num_buffers /\ next' = (next + 1) % num_buffers
      BY <1>1, <1>10, <3>1 DEF Win32Advance
    <3> QED
      BY <1>1, <1>3, <3>1, <3>2
  <2> QED
    BY <1>2, <1>10, <2>1 DEF Win32Advance, Goto, setting, device, stream
<1>11. CASE Win32Callback \/ Win32Modulo
  <2>1. CASE Win32Callback
    <3>1. done' \in Nat
      BY <2>1 DEF Win32Callback
    <3>2. freebuffer \in 0 .. num_buffers - 1 /\ freebuffer + 1 \in 0 .. num_buffers
      BY SMTT(30), <1>1, <2>1 DEF Win32Callback
    <3>3. /\ freebuffer' \in 0 .. num_buffers
          /\ cpc' \in {"idle", "modulo"}
          /\ cpc' # "modulo" => freebuffer' < num_buffers
      <4> HIDE DEF TypeInv, TypeOK
      <4>1. CASE build = "atomic"
        BY <1>1, <1>3, <2>1, <3>2, <4>1 DEF Win32Callback
      <4>2. CASE build # "atomic"
        BY <1>1, <2>1, <3>2, <4>2 DEF Win32Callback
      <4> QED
        BY <4>1, <4>2
    <3> QED
      BY <1>2, <2>1, <3>1, <3>3 DEF Win32Callback, setting, stream
  <2>2. CASE Win32Modulo
    <3>1. freebuffer' \in 0 .. num_buffers - 1
      BY <1>1, <1>3, <2>2 DEF Win32Modulo
    <3> QED
      BY <1>1, <1>2, <2>2, <3>1 DEF Win32Modulo, setting, device, stream
  <2> QED
    BY <1>11, <2>1, <2>2
<1>12. CASE DartWait
  BY <1>2, <1>12 DEF DartWait, Goto, setting, pool, device, stream
<1>13. CASE DartWrite
  <2>1. /\ SubSeq(data[next], 1, index) \in Seq(0 .. Modulus - 1)
        /\ Len(SubSeq(data[next], 1, index)) = index
    <3>1. data[next] \in Seq(0 .. Modulus - 1) /\ index \in 0 .. Len(data[next])
      BY <1>13 DEF DartWrite, At
    <3> QED
      BY <3>1, Prefix
  <2> QED
    BY <1>2, <1>8, <1>13, <2>1 DEF DartWrite, Goto, setting, stream
<1>14. CASE DartReady \/ DartStore
  <2>1. ready' \in Int /\ preg' \in Int /\ pc' \in {"advance", "store"}
    BY SMTT(30), <1>14 DEF DartReady, DartStore
  <2>2. UNCHANGED <<setting, data, next, freebuffer, index, used, len, cpc, creg, device, stream>>
    BY <1>14 DEF DartReady, DartStore
  <2>3. Buffers' = Buffers
    BY <1>2, <2>2
  <2> QED
    BY <2>1, <2>2, <2>3 DEF setting, device, stream
<1>15. CASE DartAdvance
  <2>1. next' \in Buffers
    <3>1. Buffers = 0 .. 3 /\ next \in Buffers
      BY <1>15 DEF DartAdvance, At, Buffers, Count, BUFFERCOUNT
    <3> QED
      BY <1>15, <3>1 DEF DartAdvance, BUFFERCOUNT
  <2>2. Len(data[next']) \in Nat
    BY <2>1
  <2>3. /\ Buffers' = Buffers /\ index' = 0 /\ pc' = "copy"
        /\ UNCHANGED <<setting, data, freebuffer, ready, used, len, cpc, preg, creg, device, stream>>
    BY <1>2, <1>15 DEF DartAdvance, Goto
  <2> QED
    BY <2>1, <2>2, <2>3 DEF setting, device, stream
<1>16. CASE DartCopy
  <2>1. len \in 0 .. len /\ index \in 0 .. Len(data[next]) /\ CopyBytes(index, len)
    BY <1>16 DEF DartCopy, At
  <2> QED
    <3>1. /\ data' \in [Buffers -> Seq(0 .. Modulus - 1)] /\ Len(data'[next]) = index + len
          /\ sent' \in 0 .. Modulus - 1 /\ len' \in Nat
      BY <1>5, <2>1
    <3>2. /\ Buffers' = Buffers /\ index' = index + len /\ pc' = "idle"
          /\ UNCHANGED <<setting, next, freebuffer, ready, used, cpc, preg, creg, device, got>>
      BY <1>2, <1>16 DEF DartCopy, CopyBytes, Goto
    <3> QED
      BY <3>1, <3>2 DEF setting, device
<1>17. CASE DartCallback \/ DartCallbackStore
  <2>1. ready' \in Int /\ creg' \in Int /\ done' \in Nat
    BY SMTT(30), <1>17 DEF DartCallback, DartCallbackError, DartCallbackStore, device
  <2>2. cpc' \in {"idle", "store"} /\ driver = "dart" /\ cpc # "modulo"
    BY <1>17 DEF DartCallback, DartCallbackError, DartCallbackStore
  <2>3. UNCHANGED <<setting, data, next, freebuffer, index, used, pc, len, preg,
                    queue, lost, stream>>
    BY <1>17 DEF DartCallback, DartCallbackError, DartCallbackStore, device
  <2> QED
    BY <1>2, <2>1, <2>2, <2>3 DEF setting, stream
<1>24. CASE DartCallbackError
  <2>1. done' \in Nat /\ lost' \in 0 .. MaxLost
    <3>1. limit \in 0 .. MaxLost => lost + 1 \in 0 .. MaxLost
      BY SMTT(30), <1>24, PoolAssumption DEF DartCallbackError
    <3> QED
      BY SMTT(30), <1>24, <3>1, PoolAssumption DEF DartCallbackError
  <2> QED
    BY <1>2, <1>24, <2>1 DEF DartCallbackError, setting, pool, threads, stream
<1>18. CASE AhiWait
  BY <1>2, <1>18 DEF AhiWait, Goto, setting, pool, device, stream
<1>19. CASE AhiCopy
  <2> DEFINE chunk == IF len < Room THEN len ELSE Room
  <2>1. chunk \in 0 .. len /\ 0 \in 0 .. Len(data[next]) /\ CopyBytes(0, chunk)
    BY <1>1, <1>19 DEF AhiCopy
  <2>2. driver = "ahi" /\ next \in {0, 1}
    BY SMTT(30), <1>19 DEF AhiCopy, At, Buffers, Count
  <2> QED
    BY <1>2, <1>5, <1>19, <2>1, <2>2 DEF AhiCopy, CopyBytes, Goto, setting, device
<1>20. CASE AhiSend
  BY <1>2, <1>8, <1>20 DEF AhiSend, Goto, setting, pool, stream
<1>21. CASE AhiAdvance
  BY SMTT(30), <1>2, <1>21 DEF AhiAdvance, At, Goto, setting, device, stream, Buffers, Count
<1>22. CASE Complete
  <2>1. queue # <<>> /\ Head(queue) \in Buffers /\ queue' \in Seq(Buffers)
    BY <1>22 DEF Complete
  <2>2. Len(data[Head(queue)]) \in Nat /\ got \in Nat
    BY <2>1
  <2>3. got' \in 0 .. Modulus - 1
    BY <1>22, <2>2, BytesType DEF Complete
  <2> QED
    BY <1>2, <1>22, <2>1, <2>3 DEF Complete, setting, pool, threads
<1>23. CASE Deinit \/ Closed \/ UNCHANGED vars
  BY <1>2, <1>23 DEF Deinit, Closed, Goto, vars, setting, pool, threads, device, stream
<1> QED
  BY <1>4, <1>6, <1>7, <1>9, <1>10, <1>11, <1>12, <1>13, <1>14, <1>15, <1>16, <1>17,
     <1>18, <1>19, <1>20, <1>21, <1>22, <1>23, <1>24 DEF Next, Playing, Control, Callback

-----------------------------------------------------------------------------
(* The counters *)

\* play has given its buffer to the device and not yet gone on to the next.
Submitted == pc \in {"ready", "store", "advance"}

Succ(b) == IF b + 1 = Count THEN 0 ELSE b + 1

\* The buffer d places before b.
Behind(b, d) == IF d <= b THEN b - d ELSE b - d + Count

\* The buffer that is filled next, or is being filled.
Turn == IF Submitted THEN Succ(next) ELSE next

Out == Len(queue) + done + lost

\* What the counters say: freebuffer is as far behind as there are buffers out,
\* and ready counts those that are not; play has waited for one when it writes.
Counters ==
    /\ driver = "win32" =>
         /\ Out <= num_buffers - 1 /\ freebuffer = Behind(Turn, Out)
         /\ pc = "write" => Out <= num_buffers - 2
    /\ driver = "dart" =>
         /\ ready >= 0
         /\ ready + Out = BUFFERCOUNT - 1 + (IF pc = "ready" THEN 1 ELSE 0)
         /\ pc \in {"write", "ready"} => ready > 0
    /\ driver = "ahi" =>
         /\ \A k \in 1 .. Len(queue) : queue[k] \in used
         /\ pc \in {"copy", "write"} => \A k \in 1 .. Len(queue) : queue[k] # next
         /\ pc = "write" => next \in used

\* Where the buffers the device has lie: a buffer is as far behind the front as
\* buffers were submitted after it, those that were lost included.
Places ==
    driver # "ahi" =>
        \A k \in 1 .. Len(queue) :
            \E d \in 1 .. Len(queue) - k + 1 + lost : queue[k] = Behind(Turn, d)

PoolInv ==
    build = "atomic" =>
        /\ cpc = "idle" /\ pc # "store" /\ (driver # "dart" => pc # "ready")
        /\ Counters
        /\ Places

\* One step around the pool.
LEMMA Around ==
    ASSUME TypeInv
    PROVE  /\ Count \in Nat /\ Count >= 2
           /\ \A b \in Buffers : /\ Succ(b) \in Buffers
                                 /\ Behind(Succ(b), 1) = b
                                 /\ Behind(b, 0) = b
           /\ \A b \in Buffers, d \in 0 .. Count - 1 :
                 /\ Behind(Succ(b), d + 1) = Behind(b, d)
                 /\ Behind(b, d) \in Buffers
                 /\ d > 0 => Behind(b, d) # b /\ Succ(Behind(b, d)) = Behind(b, d - 1)
<1>1. Count \in Nat /\ Count >= 2
  BY PoolAssumption DEF TypeInv, TypeOK, Count, BUFFERCOUNT
<1> QED
  BY <1>1 DEF Buffers, Succ, Behind

\* A step keeps the counters and places: play or the callback alone takes a
\* buffer from one place to the next.
LEMMA PoolStep == TypeInv /\ TypeInv' /\ PoolInv /\ [Next]_vars => PoolInv'
<1> SUFFICES ASSUME TypeInv, TypeInv', PoolInv, [Next]_vars, build' = "atomic"
             PROVE  PoolInv'
  BY DEF PoolInv
<1>1. UNCHANGED setting
  BY DEF Next, Playing, Control, Callback, Win32Play, DartPlay, AhiPlay, Call, Win32Copy,
         Win32Wait, Win32Write, Win32Advance, DartWait, DartWrite, DartReady, DartStore,
         DartAdvance, DartCopy, AhiWait, AhiCopy, AhiSend, AhiAdvance, Win32Callback,
         Win32Modulo, DartCallback, DartCallbackError, DartCallbackStore,
         Complete, Deinit, Closed, vars
<1>2. /\ build = "atomic" /\ cpc = "idle" /\ pc # "store" /\ (driver # "dart" => pc # "ready")
      /\ Counters /\ Places
  BY <1>1 DEF PoolInv, setting
<1>3. /\ Count \in Nat /\ Count >= 2 /\ Count' = Count /\ Buffers' = Buffers
      /\ next \in Buffers /\ Turn \in Buffers
  BY <1>1, Around DEF setting, Count, Buffers, TypeInv, TypeOK, Turn
<1>4. /\ Len(queue) \in Nat /\ done \in Nat /\ lost \in Nat /\ ready \in Int
      /\ Len(queue') \in Nat /\ done' \in Nat /\ lost' \in Nat /\ ready' \in Int
      /\ queue \in Seq(Buffers) /\ driver \in {"win32", "dart", "ahi"}
      /\ freebuffer \in 0 .. num_buffers - 1 /\ num_buffers \in Nat /\ num_buffers >= 2
  <2>1. /\ queue \in Seq(Buffers) /\ queue' \in Seq(Buffers) /\ driver \in Drivers
        /\ done \in Nat /\ done' \in Nat /\ lost \in 0 .. MaxLost
        /\ lost' \in 0 .. MaxLost /\ ready \in Int /\ ready' \in Int
        /\ freebuffer \in 0 .. num_buffers /\ freebuffer < num_buffers
    BY <1>2, <1>3 DEF TypeInv, TypeOK
  <2> QED
    BY <2>1, PoolAssumption
<1>5. ASSUME Turn' = Turn, UNCHANGED <<queue, lost>>
      PROVE  Places'
  BY <1>1, <1>2, <1>3, <1>5 DEF Places, Behind, setting
<1>6. ASSUME pc = "write", driver # "ahi", Submit, Submitted', UNCHANGED next
      PROVE  /\ Turn' = Succ(Turn) /\ Turn = next /\ Out' = Out + 1
             /\ Places'
  <2>1. Turn' = Succ(Turn) /\ Turn = next
    BY <1>2, <1>3, <1>6 DEF Turn, Submitted, Succ
  <2>2. Out' = Out + 1
    <3>1. CASE queue' = Append(queue, next) /\ UNCHANGED <<lost, done>>
      <4>1. Len(queue') = Len(queue) + 1
        BY <1>3, <1>4, <3>1
      <4> QED
        BY <1>4, <3>1, <4>1 DEF Out
    <3>2. CASE lost' = lost + 1 /\ UNCHANGED <<queue, done>>
      BY <1>4, <3>2 DEF Out
    <3> QED
      BY <1>6, <3>1, <3>2 DEF Submit
  <2>3. Out <= Count - 2 /\ Len(queue) + lost <= Count - 2
    BY SMTT(30), <1>2, <1>4, <1>6 DEF Counters, Count, Out, BUFFERCOUNT
  <2>4. ASSUME NEW k \in 1 .. Len(queue)
        PROVE  \E d \in 1 .. Len(queue) - k + 2 + lost : queue[k] = Behind(Succ(Turn), d)
    <3>1. PICK d \in 1 .. Len(queue) - k + 1 + lost : queue[k] = Behind(Turn, d)
      BY <1>2, <1>6 DEF Places
    <3>2. d \in 0 .. Count - 1 /\ d + 1 \in 1 .. Len(queue) - k + 2 + lost
      BY <1>3, <1>4, <2>3
    <3> QED
      BY <1>3, <3>1, <3>2, Around
  <2>5. Behind(Succ(Turn), 1) = next
    BY <1>3, <2>1, Around
  <2>7. Places'
    <3>1. CASE queue' = Append(queue, next) /\ UNCHANGED lost
      <4>1. Len(queue') = Len(queue) + 1 /\ queue'[Len(queue) + 1] = next
            /\ \A k \in 1 .. Len(queue) : queue'[k] = queue[k]
        BY <1>3, <1>4, <3>1
      <4>2. ASSUME NEW k \in 1 .. Len(queue')
            PROVE  \E d \in 1 .. Len(queue') - k + 1 + lost' :
                      queue'[k] = Behind(Turn', d)
        <5>1. CASE k <= Len(queue)
          BY <1>4, <2>1, <2>4, <3>1, <4>1, <5>1
        <5>2. CASE ~(k <= Len(queue))
          <6>1. k = Len(queue) + 1 /\ 1 \in 1 .. Len(queue') - k + 1 + lost'
            BY <1>4, <4>1, <5>2
          <6> QED
            BY <2>1, <2>5, <4>1, <6>1
        <5> QED
          BY <5>1, <5>2
      <4> QED
        BY <1>3, <4>2 DEF Places, Behind
    <3>2. CASE lost' = lost + 1 /\ UNCHANGED queue
      <4>1. ASSUME NEW k \in 1 .. Len(queue')
            PROVE  \E d \in 1 .. Len(queue') - k + 1 + lost' :
                      queue'[k] = Behind(Turn', d)
        BY <1>4, <2>1, <2>4, <3>2
      <4> QED
        BY <1>3, <4>1 DEF Places, Behind
    <3> QED
      BY <1>6, <3>1, <3>2 DEF Submit
  <2> QED
    BY <2>1, <2>2, <2>7
<1>7. \A n \in Buffers : driver = "win32" => (n + 1) % num_buffers = Succ(n)
  <2>1. \A n \in 0 .. num_buffers - 1 :
           (n + 1) % num_buffers = IF n + 1 = num_buffers THEN 0 ELSE n + 1
    BY <1>4
  <2> QED
    BY <2>1 DEF Buffers, Count, Succ
\* Steps that leave the pool as it is.
<1>8. ASSUME driver # "ahi", UNCHANGED <<queue, done, lost, ready, freebuffer, cpc>>,
             Turn' = Turn, pc # "ready", pc' \notin {"ready", "store"},
             pc' = "write" /\ driver = "win32" => Out <= num_buffers - 2,
             pc' = "write" /\ driver = "dart" => ready > 0
      PROVE  PoolInv'
  <2>1. Places' /\ Out' = Out /\ \A d : Behind(Turn, d)' = Behind(Turn, d')
    BY <1>3, <1>5, <1>8 DEF Out, Behind
  <2>2. Counters'
    BY <1>1, <1>2, <1>3, <1>8, <2>1 DEF Counters, setting, Behind
  <2> QED
    BY <1>1, <1>2, <1>8, <2>1, <2>2 DEF PoolInv, setting
<1>9. ASSUME driver = "ahi", UNCHANGED cpc, pc' \notin {"ready", "store"},
             \A k \in 1 .. Len(queue') : queue'[k] \in used',
             pc' \in {"copy", "write"} => \A k \in 1 .. Len(queue') : queue'[k] # next',
             pc' = "write" => next' \in used'
      PROVE  PoolInv'
  BY <1>1, <1>2, <1>9 DEF PoolInv, Counters, Places, setting
<1>10. CASE UNCHANGED vars
  BY ZenonT(30), <1>2, <1>10 DEF vars, setting, pool, threads, device, stream, PoolInv, Counters, Places,
         Turn, Submitted, Succ, Behind, Out, Count
<1>11. CASE Win32Play \/ Win32Copy
  <2>1. /\ driver = "win32" /\ UNCHANGED <<queue, done, lost, ready, freebuffer, next, cpc>>
        /\ pc \in {"idle", "copy"} /\ pc' \in {"copy", "wait"}
    BY <1>11 DEF Win32Play, Win32Copy, Call, CopyBytes, At, Goto, pool, device
  <2> QED
    BY <1>8, <2>1 DEF Turn, Submitted
<1>12. CASE Win32Wait
  <2>1. /\ driver = "win32" /\ UNCHANGED <<queue, done, lost, ready, freebuffer, next, cpc>>
        /\ pc = "wait" /\ pc' = "write" /\ Turn = next /\ Turn' = Turn
    BY <1>12 DEF Win32Wait, At, Goto, pool, device, Turn, Submitted
  <2>2. Succ(Turn) # freebuffer
    BY <1>3, <1>7, <1>12, <2>1 DEF Win32Wait
  <2>3. Out <= num_buffers - 1 /\ freebuffer = Behind(Turn, Out) /\ Count = num_buffers
    BY <1>2, <2>1 DEF Counters, Count
  <2>4. Out # num_buffers - 1
    <3>1. Turn \in 0 .. num_buffers - 1
      BY <1>3, <2>3 DEF Buffers
    <3>2. Behind(Turn, num_buffers - 1) = Succ(Turn)
      BY <1>4, <2>3, <3>1 DEF Behind, Succ
    <3> QED
      BY <2>2, <2>3, <3>2
  <2> QED
    BY <1>4, <1>8, <2>1, <2>3, <2>4 DEF Out
<1>13. CASE Win32Write
  <2>1. /\ driver = "win32" /\ pc = "write" /\ pc' = "advance" /\ Submit
        /\ UNCHANGED <<freebuffer, next, cpc, done>>
    BY <1>13 DEF Win32Write, At, Goto, Submit, pool
  <2>2. Submitted'
    BY <2>1 DEF Submitted
  <2>3. Turn' = Succ(Turn) /\ Out' = Out + 1 /\ Places'
    BY <1>6, <2>1, <2>2
  <2>4. Out <= num_buffers - 2 /\ freebuffer = Behind(Turn, Out) /\ Count = num_buffers
    BY <1>2, <2>1 DEF Counters, Count
  <2>5. Behind(Succ(Turn), Out + 1) = Behind(Turn, Out)
    BY <1>3, <1>4, <2>4, Around DEF Out
  <2>6. Counters'
    BY <1>1, <1>3, <1>4, <2>1, <2>3, <2>4, <2>5 DEF Counters, setting, Behind, Out
  <2> QED
    BY <1>1, <1>2, <2>1, <2>3, <2>6 DEF PoolInv, setting
<1>14. CASE Win32Advance
  <2>1. /\ driver = "win32" /\ UNCHANGED <<queue, done, lost, ready, freebuffer, cpc>>
        /\ pc = "advance" /\ pc' = "idle" /\ next' = Succ(next)
    BY <1>3, <1>7, <1>14 DEF Win32Advance, At, Goto, device
  <2>2. Turn' = Turn
    BY <2>1 DEF Turn, Submitted
  <2> QED
    BY <1>8, <2>1, <2>2
<1>15. CASE Win32Callback
  <2>1. /\ driver = "win32" /\ UNCHANGED <<queue, lost, ready, next, pc, cpc>>
        /\ done > 0 /\ done' = done - 1 /\ freebuffer' = (freebuffer + 1) % num_buffers
    BY <1>2, <1>15 DEF Win32Callback
  <2>2. Turn' = Turn /\ Out' = Out - 1 /\ Places'
    BY <1>3, <1>4, <1>5, <2>1 DEF Turn, Submitted, Succ, Out
  <2>3. Out <= num_buffers - 1 /\ freebuffer = Behind(Turn, Out) /\ Count = num_buffers
    BY <1>2, <2>1 DEF Counters, Count
  <2>4. freebuffer' = Behind(Turn, Out - 1)
    <3>1. Out \in 1 .. Count - 1
      BY <1>4, <2>1, <2>3 DEF Out
    <3>2. freebuffer \in Buffers /\ Succ(freebuffer) = Behind(Turn, Out - 1)
      BY <1>3, <2>3, <3>1, Around
    <3> QED
      BY <1>7, <2>1, <3>2
  <2>5. Counters'
    BY <1>1, <1>2, <1>3, <1>4, <2>1, <2>2, <2>3, <2>4 DEF Counters, setting, Behind, Out
  <2> QED
    BY <1>1, <1>2, <2>1, <2>2, <2>5 DEF PoolInv, setting
<1>16. CASE Win32Modulo \/ DartStore \/ DartCallbackStore
  BY <1>2, <1>16 DEF Win32Modulo, DartStore, DartCallbackStore, At
<1>17. CASE DartPlay \/ DartWait \/ DartCopy
  <2>1. /\ driver = "dart" /\ UNCHANGED <<queue, done, lost, ready, freebuffer, next, cpc>>
        /\ pc \in {"idle", "wait", "copy"} /\ pc' \in {"idle", "wait", "copy", "write"}
        /\ pc' = "write" => ready # 0
    BY <1>17 DEF DartPlay, DartWait, DartCopy, Call, CopyBytes, At, Goto, pool, device
  <2>2. Turn' = Turn /\ ready >= 0
    BY <1>2, <2>1 DEF Turn, Submitted, Counters
  <2> QED
    BY <1>4, <1>8, <2>1, <2>2
<1>18. CASE DartWrite
  <2>1. /\ driver = "dart" /\ pc = "write" /\ pc' = "ready" /\ Submit
        /\ UNCHANGED <<ready, next, cpc>>
    BY <1>18 DEF DartWrite, At, Goto, Submit
  <2>2. Submitted'
    BY <2>1 DEF Submitted
  <2>3. Turn' = Succ(Turn) /\ Out' = Out + 1 /\ Places'
    BY <1>6, <2>1, <2>2
  <2>4. Out \in Nat /\ ready > 0 /\ ready + Out = 3
    BY <1>2, <1>4, <2>1 DEF Counters, Out, BUFFERCOUNT
  <2>5. ready' > 0 /\ ready' + Out' = 4
    BY <1>4, <2>1, <2>3, <2>4
  <2>6. Counters'
    BY <1>1, <1>4, <2>1, <2>5 DEF Counters, setting, BUFFERCOUNT
  <2> QED
    BY <1>1, <1>2, <2>1, <2>3, <2>6 DEF PoolInv, setting
<1>19. CASE DartReady
  <2>1. /\ driver = "dart" /\ pc = "ready" /\ pc' = "advance" /\ ready' = ready - 1
        /\ UNCHANGED <<queue, done, lost, next, cpc>>
    BY <1>2, <1>19 DEF DartReady, At, device
  <2>2. Turn' = Turn /\ Out' = Out /\ Places'
    BY <1>3, <1>5, <2>1 DEF Turn, Submitted, Succ, Out
  <2>3. Out \in Nat /\ ready > 0 /\ ready + Out = 4
    BY <1>2, <1>4, <2>1 DEF Counters, Out, BUFFERCOUNT
  <2>4. ready' >= 0 /\ ready' + Out' = 3
    BY <1>4, <2>1, <2>2, <2>3
  <2>5. Counters'
    BY <1>1, <2>1, <2>4 DEF Counters, setting, BUFFERCOUNT
  <2> QED
    BY <1>1, <1>2, <2>1, <2>2, <2>5 DEF PoolInv, setting
<1>20. CASE DartAdvance
  <2>1. /\ driver = "dart" /\ UNCHANGED <<queue, done, lost, ready, freebuffer, cpc>>
        /\ pc = "advance" /\ pc' = "copy" /\ next' = Succ(next)
    BY <1>20 DEF DartAdvance, At, Goto, device, Succ, Count
  <2>2. Turn' = Turn
    BY <2>1 DEF Turn, Submitted
  <2> QED
    BY <1>8, <2>1, <2>2
<1>21. CASE DartCallback
  <2>1. /\ driver = "dart" /\ UNCHANGED <<queue, lost, next, pc, cpc>>
        /\ done > 0 /\ done' = done - 1 /\ ready' = ready + 1
    BY <1>2, <1>21 DEF DartCallback
  <2>2. Turn' = Turn /\ Out' = Out - 1 /\ Places'
    BY <1>3, <1>4, <1>5, <2>1 DEF Turn, Submitted, Succ, Out
  <2>3. Counters'
    BY <1>1, <1>2, <1>4, <2>1, <2>2 DEF Counters, setting, Out, BUFFERCOUNT
  <2> QED
    BY <1>1, <1>2, <2>1, <2>2, <2>3 DEF PoolInv, setting
<1>29. CASE DartCallbackError
  <2>1. /\ driver = "dart" /\ UNCHANGED <<queue, next, pc, cpc, ready>>
        /\ done > 0 /\ done' = done - 1 /\ lost' = lost + 1
    BY <1>29 DEF DartCallbackError, pool, threads
  <2>2. Turn' = Turn /\ Out' = Out
    BY <1>3, <1>4, <2>1 DEF Turn, Submitted, Succ, Out
  <2>3. Places'
    <3>1. ASSUME NEW k \in 1 .. Len(queue)
          PROVE  \E d \in 1 .. Len(queue) - k + 1 + lost' : queue[k] = Behind(Turn, d)
      <4>1. PICK d \in 1 .. Len(queue) - k + 1 + lost : queue[k] = Behind(Turn, d)
        BY <1>2, <2>1 DEF Places
      <4> QED
        BY <1>4, <2>1, <4>1
    <3> QED
      BY <1>3, <2>1, <2>2, <3>1 DEF Places, Behind
  <2>4. Counters'
    BY <1>1, <1>2, <1>4, <2>1, <2>2 DEF Counters, setting, BUFFERCOUNT
  <2> QED
    BY <1>1, <1>2, <2>1, <2>3, <2>4 DEF PoolInv, setting
<1>22. CASE AhiPlay
  BY <1>2, <1>9, <1>22 DEF AhiPlay, Call, Goto, pool, device, Counters
<1>23. CASE AhiWait
  <2>1. /\ driver = "ahi" /\ UNCHANGED <<queue, used, next, cpc>> /\ pc' = "copy"
        /\ next \in used => ~Contains(queue, next)
    BY <1>23 DEF AhiWait, At, Goto, pool, device
  <2>2. \A k \in 1 .. Len(queue) : queue[k] \in used /\ queue[k] # next
    BY <1>2, <1>4, <2>1 DEF Counters, Contains
  <2> QED
    BY <1>9, <2>1, <2>2
<1>24. CASE AhiCopy
  <2>1. /\ driver = "ahi" /\ UNCHANGED <<queue, next, cpc>> /\ pc = "copy" /\ pc' = "write"
        /\ used' = used \union {next}
    BY <1>24 DEF AhiCopy, At, Goto, CopyBytes, device
  <2> QED
    BY <1>2, <1>9, <2>1 DEF Counters
<1>25. CASE AhiSend
  <2>1. /\ driver = "ahi" /\ UNCHANGED <<next, cpc, used>> /\ pc = "write" /\ pc' = "advance"
        /\ queue' = Append(queue, next)
    BY <1>25 DEF AhiSend, At, Goto, Submit, pool
  <2>2. /\ \A k \in 1 .. Len(queue) : queue[k] \in used
        /\ next \in used
    BY <1>2, <2>1 DEF Counters
  <2>3. \A k \in 1 .. Len(queue') : queue'[k] \in used'
    BY <1>3, <1>4, <2>1, <2>2
  <2> QED
    BY <1>9, <2>1, <2>3
<1>26. CASE AhiAdvance
  BY <1>2, <1>9, <1>26 DEF AhiAdvance, At, Goto, device, Counters
<1>27. CASE Complete
  <2>1. /\ UNCHANGED <<next, pc, cpc, ready, freebuffer, used, lost>>
        /\ queue # <<>> /\ queue' = Tail(queue)
        /\ done' = (IF driver = "ahi" THEN done ELSE done + 1)
    BY <1>27 DEF Complete, pool, threads
  <2>2. /\ Len(queue') = Len(queue) - 1
        /\ \A k \in 1 .. Len(queue') : k + 1 \in 1 .. Len(queue) /\ queue'[k] = queue[k + 1]
    BY <1>4, <2>1
  <2>3. CASE driver = "ahi"
    BY <1>2, <1>9, <2>1, <2>2, <2>3 DEF Counters
  <2>4. CASE driver # "ahi"
    <3>1. Turn' = Turn /\ Out' = Out
      BY <1>3, <1>4, <2>1, <2>2, <2>4 DEF Turn, Submitted, Succ, Out
    <3>2. ASSUME NEW k \in 1 .. Len(queue')
          PROVE  \E d \in 1 .. Len(queue') - k + 1 + lost' : queue'[k] = Behind(Turn', d)
      <4>1. PICK d \in 1 .. Len(queue) - (k + 1) + 1 + lost : queue[k + 1] = Behind(Turn, d)
        BY <1>2, <2>2, <2>4 DEF Places
      <4> QED
        BY <1>4, <2>1, <2>2, <3>1, <4>1
    <3>3. Places'
      BY <1>3, <3>2 DEF Places, Behind
    <3>4. Counters'
      BY <1>1, <1>2, <1>3, <2>1, <2>4, <3>1 DEF Counters, setting, Behind
    <3> QED
      BY <1>1, <1>2, <2>1, <3>3, <3>4 DEF PoolInv, setting
  <2> QED
    BY <2>3, <2>4
<1>28. CASE Deinit
  <2>1. /\ UNCHANGED <<queue, done, lost, ready, freebuffer, next, used, cpc>>
        /\ pc = "idle" /\ pc' = "closed" /\ Turn' = Turn
    BY <1>28 DEF Deinit, Goto, pool, device, Turn, Submitted
  <2>2. CASE driver = "ahi"
    BY <1>2, <1>9, <2>1, <2>2 DEF Counters
  <2>3. CASE driver # "ahi"
    BY <1>8, <2>1, <2>3
  <2> QED
    BY <2>2, <2>3
<1> QED
  BY <1>10, <1>11, <1>12, <1>13, <1>14, <1>15, <1>16, <1>17, <1>18, <1>19, <1>20, <1>21, <1>22,
     <1>23, <1>24, <1>25, <1>26, <1>27, <1>28, <1>29
     DEF Next, Playing, Control, Callback, Closed

\* Types and counters are right in every state.
LEMMA PoolCorrect == Spec => [](TypeInv /\ PoolInv)
<1>1. Init => TypeInv
  <2> SUFFICES ASSUME Init PROVE TypeInv
    OBVIOUS
  <2>1. /\ 0 % Modulus = 0 /\ num_buffers \in Nat /\ num_buffers >= 2
        /\ Modulus \in Nat \ {0} /\ MaxLost \in Nat
        /\ Drivers \subseteq {"win32", "dart", "ahi"}
    BY PoolAssumption
  <2>2. next \in Buffers /\ queue \in Seq(Buffers)
    BY SMTT(30), <2>1 DEF Init, Buffers, Count, BUFFERCOUNT
  <2>3. data \in [Buffers -> Seq(0 .. Modulus - 1)] /\ Len(data[next]) = 0
    BY <2>1, <2>2 DEF Init
  <2> QED
    BY <2>1, <2>2, <2>3 DEF Init, TypeInv, TypeOK
<1>2. Init => PoolInv
  <2> SUFFICES ASSUME Init PROVE PoolInv
    OBVIOUS
  <2>2. num_buffers \in Nat /\ num_buffers >= 2 /\ driver \in {"win32", "dart", "ahi"}
    BY PoolAssumption DEF Init
  <2>3. Counters
    BY <2>2 DEF Init, Counters, Out, Turn, Submitted, Behind, BUFFERCOUNT
  <2>4. Places
    <3>1. CASE driver = "dart"
      <4>1. /\ Len(queue) = 2 /\ queue[1] = 0 /\ queue[2] = 1 /\ Turn = 2 /\ lost = 0
        BY <3>1 DEF Init, Turn, Submitted
      <4>2. Behind(2, 2) = 0 /\ Behind(2, 1) = 1
        BY DEF Behind
      <4> QED
        BY <4>1, <4>2 DEF Places
    <3>2. CASE driver # "dart"
      BY <3>2 DEF Init, Places
    <3> QED
      BY <3>1, <3>2
  <2> QED
    BY <2>3, <2>4 DEF Init, PoolInv
<1> QED
  BY <1>1, <1>2, TypeStep, PoolStep, PTL DEF Spec

\* The counters account for every buffer, of any number of them, whatever the
\* device refuses and however the callback interleaves with play (Win32, DART).
THEOREM CountersBalance == Spec => []Credits
<1>1. TypeInv /\ PoolInv => Credits
  <2> SUFFICES ASSUME TypeInv, PoolInv, build = "atomic" PROVE Credits
    BY DEF Credits
  <2>1. CASE driver = "win32"
    <3>1. /\ Out <= num_buffers - 1 /\ freebuffer = Behind(Turn, Out) /\ Out \in Nat
          /\ Count = num_buffers /\ num_buffers \in Nat \ {0} /\ freebuffer \in Nat
          /\ next \in 0 .. num_buffers - 1
          /\ Turn = IF pc = "advance" THEN Succ(next) ELSE next
      <4>1. /\ Out <= num_buffers - 1 /\ freebuffer = Behind(Turn, Out)
            /\ pc \notin {"ready", "store"}
        BY <2>1 DEF PoolInv, Counters
      <4>2. Count = num_buffers /\ num_buffers \in Nat \ {0}
        BY <2>1, PoolAssumption DEF Count
      <4>3. freebuffer \in Nat /\ Out \in Nat /\ next \in 0 .. num_buffers - 1
        BY <4>2, PoolAssumption DEF TypeInv, TypeOK, Out, Buffers
      <4> QED
        BY <4>1, <4>2, <4>3 DEF Turn, Submitted
    <3>2. Out = Len(queue) + done + lost
          /\ freebuffer + Out = freebuffer + Len(queue) + done + lost
      BY DEF Out, TypeInv, TypeOK
    <3>3. /\ freebuffer + Out \in 0 .. 2 * num_buffers - 1
          /\ freebuffer + Out = Turn \/ freebuffer + Out = Turn + num_buffers
      BY <3>1 DEF Behind, Succ
    <3>4. \A n \in 0 .. 2 * num_buffers - 1 :
             n % num_buffers = IF n < num_buffers THEN n ELSE n - num_buffers
      BY <3>1, ModuloOnce
    <3>5. (freebuffer + Out) % num_buffers = Turn
      BY <3>1, <3>3, <3>4 DEF Succ
    <3>6. (next + (IF pc = "advance" THEN 1 ELSE 0)) % num_buffers = Turn
      BY <3>1, <3>4 DEF Succ
    <3> QED
      BY <2>1, <3>1, <3>2, <3>5, <3>6 DEF Credits
  <2>2. CASE driver = "dart"
    BY SMTT(30), <2>2 DEF PoolInv, Counters, Credits, Out, TypeInv, TypeOK, BUFFERCOUNT
  <2>3. CASE driver \notin {"win32", "dart"}
    BY <2>3 DEF Credits
  <2> QED
    BY <2>1, <2>2, <2>3
<1> QED
  BY <1>1, PoolCorrect, PTL

\* The buffer that play fills or is about to give away is not the device's.
LEMMA FrontFree == TypeInv /\ PoolInv => NeverOwned
<1> SUFFICES ASSUME TypeInv, PoolInv, build = "atomic", pc \in {"copy", "write"},
                    NEW k \in 1 .. Len(queue)
             PROVE  queue[k] # next
  BY DEF NeverOwned, Contains, TypeInv, TypeOK
<1>1. Counters /\ Places /\ Turn = next /\ Len(queue) \in Nat /\ done \in Nat /\ lost \in Nat
      /\ next \in Buffers /\ driver \in {"win32", "dart", "ahi"} /\ ready \in Int
  BY PoolAssumption DEF PoolInv, Turn, Submitted, TypeInv, TypeOK
<1>2. CASE driver = "ahi"
  BY <1>1, <1>2 DEF Counters
<1>3. CASE driver # "ahi"
  <2>1. PICK d \in 1 .. Len(queue) - k + 1 + lost : queue[k] = Behind(next, d)
    BY <1>1, <1>3 DEF Places
  <2>2. Out <= Count - 1
    BY <1>1, <1>3 DEF Counters, Count, BUFFERCOUNT, Out
  <2>3. d \in 1 .. Count - 1
    BY <1>1, <2>2, Around DEF Out
  <2> QED
    BY <1>1, <2>1, <2>3, Around
<1> QED
  BY <1>2, <1>3

\* play() never copies into a buffer the device has, and never gives it one
\* twice, whatever the number of buffers.
THEOREM BuffersOwned == Spec => []NeverOwned
BY FrontFree, PoolCorrect, PTL
-----------------------------------------------------------------------------
(* The steps as they are seen from outside *)

\* Bytes of a frame are added to the buffer that is being filled.
Fills ==
    /\ pc = "copy" /\ UNCHANGED <<queue, got, next>>
    /\ \E n \in Nat :
         /\ data' = [data EXCEPT ![next] = Filled \o Bytes(sent, n)]
         /\ sent' = (sent + n) % Modulus
         /\ Filled' = Filled \o Bytes(sent, n)

\* The device is given what was filled.
Gives ==
    /\ pc = "write" /\ UNCHANGED <<sent, got>>
    /\ queue' = Append(queue, next)
    /\ data'[next] = Filled /\ \A b \in Buffers \ {next} : data'[b] = data[b]
    /\ Filled' = <<>>

\* The device has played its oldest buffer.
Plays ==
    /\ queue # <<>> /\ queue' = Tail(queue)
    /\ got' = (got + Len(data[Head(queue)])) % Modulus
    /\ UNCHANGED <<data, sent, Filled>>

Rests == UNCHANGED <<data, queue, sent, got, Filled>>

\* What is in the pool, and the empty piece of the stream.
LEMMA PoolTypes ==
    ASSUME TypeInv
    PROVE  /\ Modulus \in Nat \ {0} /\ Room \in Nat \ {0} /\ num_buffers \in Nat
           /\ data \in [Buffers -> Seq(0 .. Modulus - 1)] /\ next \in Buffers
           /\ queue \in Seq(Buffers) /\ Len(queue) \in Nat
           /\ \A k \in 1 .. Len(queue) : queue[k] \in Buffers
           /\ sent \in 0 .. Modulus - 1 /\ got \in 0 .. Modulus - 1 /\ len \in Nat
           /\ index \in Nat /\ (driver = "dart" => index \in 0 .. Len(data[next]))
           /\ driver \in {"win32", "dart", "ahi"}
           /\ data[next] \in Seq(0 .. Modulus - 1) /\ SubSeq(data[next], 1, 0) = <<>>
           /\ Filled \in Seq(0 .. Modulus - 1)
<1>1. /\ Modulus \in Nat \ {0} /\ Room \in Nat \ {0} /\ num_buffers \in Nat
      /\ data \in [Buffers -> Seq(0 .. Modulus - 1)] /\ next \in Buffers
      /\ queue \in Seq(Buffers) /\ Len(queue) \in Nat
      /\ \A k \in 1 .. Len(queue) : queue[k] \in Buffers
      /\ sent \in 0 .. Modulus - 1 /\ got \in 0 .. Modulus - 1 /\ len \in Nat
      /\ index \in Nat /\ (driver = "dart" => index \in 0 .. Len(data[next]))
      /\ driver \in {"win32", "dart", "ahi"}
      /\ data[next] \in Seq(0 .. Modulus - 1)
  BY PoolAssumption DEF TypeInv, TypeOK
<1>2. SubSeq(data[next], 1, 0) = <<>>
  <2>1. 0 \in 0 .. Len(data[next])
    BY <1>1
  <2> QED
    BY <1>1, <2>1, Prefix, EmptySeq
<1>3. Filled \in Seq(0 .. Modulus - 1)
  <2>1. driver = "dart" => SubSeq(data[next], 1, index) \in Seq(0 .. Modulus - 1)
    BY <1>1, Prefix
  <2>2. Filled \in {data[next], <<>>} \/ (driver = "dart" /\ Filled = SubSeq(data[next], 1, index))
    BY <1>1 DEF Filled
  <2>3. <<>> \in Seq(0 .. Modulus - 1)
    OBVIOUS
  <2> QED
    BY <1>1, <2>1, <2>2, <2>3
<1> QED
  BY <1>1, <1>2, <1>3

\* Every step is one of them: what the threads do to their counters and where
\* they are is not seen.
LEMMA SeenSteps ==
    ASSUME TypeInv, [Next]_vars, build = "atomic", lost' = lost
    PROVE  Fills \/ Gives \/ Plays \/ Rests
<1>1. /\ UNCHANGED <<driver, Buffers>>
      /\ driver \in {"win32", "dart", "ahi"} /\ len \in Nat /\ Room \in Nat
      /\ lost \in Nat
  <2>1. UNCHANGED setting
    BY DEF Next, Playing, Control, Callback, vars, setting, device, Submit, Call,
         Win32Play, Win32Copy, Win32Wait, Win32Write, Win32Advance, Win32Callback,
         Win32Modulo, DartPlay, DartWait, DartWrite, DartReady, DartStore,
         DartAdvance, DartCopy, DartCallback, DartCallbackError, DartCallbackStore,
         AhiPlay, AhiWait,
         AhiCopy, AhiSend, AhiAdvance, Complete, Deinit, Closed
  <2> QED
    BY <2>1, PoolTypes, PoolAssumption DEF setting, Buffers, Count, TypeInv, TypeOK
<1>2. TypeInv'
  BY TypeStep
<1>3. CASE UNCHANGED vars \/ Closed
  <2>1. UNCHANGED <<data, queue, sent, got, pc, index, next, driver>>
    BY <1>3 DEF Closed, vars, setting, pool, threads, device, stream
  <2> QED
    BY <2>1 DEF Filled, Rests
<1>4. CASE Win32Play \/ DartPlay \/ AhiPlay \/ Deinit
  <2>1. UNCHANGED <<data, queue, sent, got, index, next, driver>> /\ pc = "idle"
        /\ pc' \in {"copy", "wait", "closed"} /\ (driver = "win32" => pc' # "wait")
    BY <1>1, <1>4 DEF Win32Play, DartPlay, AhiPlay, Deinit, Call, Goto, pool, device, stream
  <2> QED
    BY <1>1, <2>1 DEF Filled, Rests
<1>5. CASE Win32Wait \/ DartWait \/ AhiWait
  <2>1. UNCHANGED <<data, queue, sent, got, index, next, driver>> /\ pc = "wait"
        /\ pc' = (IF driver = "ahi" THEN "copy" ELSE "write")
    BY <1>1, <1>5 DEF Win32Wait, DartWait, AhiWait, At, Goto, pool, device, stream
  <2> QED
    BY <1>1, <2>1 DEF Filled, Rests
<1>6. CASE Win32Callback \/ Win32Modulo \/ DartCallback \/ DartCallbackError
           \/ DartCallbackStore
  <2>1. UNCHANGED <<data, queue, sent, got, index, next, driver, pc>>
    BY <1>1, <1>6 DEF Win32Callback, Win32Modulo, DartCallback, DartCallbackError,
         DartCallbackStore, pool, threads, device, stream
  <2> QED
    BY <2>1 DEF Filled, Rests
<1>7. CASE Win32Advance \/ AhiAdvance \/ DartReady \/ DartStore \/ DartAdvance
  <2>1. UNCHANGED <<data, queue, sent, got, driver>> /\ pc \in {"ready", "store", "advance"}
    BY <1>1, <1>7 DEF Win32Advance, AhiAdvance, DartReady, DartStore, DartAdvance, At, device, stream
  <2>2. /\ driver = "win32" => pc' = "idle" /\ pc \notin {"wait", "write"}
        /\ driver = "ahi" => pc' \in {"wait", "idle"} /\ pc # "write"
        /\ driver = "dart" => pc' \in {"advance", "store"} \/ index' = 0
    BY <1>7 DEF Win32Advance, AhiAdvance, DartReady, DartStore, DartAdvance, At, Goto
  <2>3. Filled = <<>>
    BY <1>1, <2>1, <2>2 DEF Filled
  <2>4. SubSeq(data'[next'], 1, 0) = <<>>
    <3>1. data'[next'] \in Seq(0 .. Modulus - 1)
      BY <1>2 DEF TypeInv, TypeOK
    <3>2. 0 \in 0 .. Len(data'[next'])
      BY <3>1
    <3> QED
      BY <3>1, <3>2, Prefix, EmptySeq
  <2>5. Filled' = <<>>
    BY <1>1, <2>1, <2>2, <2>4 DEF Filled
  <2> QED
    BY <2>1, <2>3, <2>5 DEF Rests
<1>8. CASE Win32Copy \/ DartCopy \/ AhiCopy
  <2>1. PICK from \in Nat, n \in Nat :
          /\ CopyBytes(from, n) /\ Filled = SubSeq(data[next], 1, from)
          /\ from \in 0 .. Len(data[next]) /\ pc = "copy"
          /\ driver = "dart" => pc' = "idle" /\ index' = from + n
          /\ driver = "win32" => pc' = "wait"
          /\ driver = "ahi" => pc' = "write"
    <3>1. /\ SubSeq(data[next], 1, 0) = <<>> /\ 0 \in 0 .. Len(data[next])
          /\ 0 \in Nat /\ index \in Nat
          /\ driver = "dart" => index \in 0 .. Len(data[next])
      BY PoolTypes
    <3>2. CASE Win32Copy
      <4>1. driver = "win32" /\ pc = "copy" /\ pc' = "wait" /\ CopyBytes(0, len)
        BY <3>2 DEF Win32Copy, At, Goto
      <4>2. Filled = <<>>
        BY <4>1 DEF Filled
      <4> QED
        BY <1>1, <3>1, <4>1, <4>2
    <3>3. CASE DartCopy
      <4>1. driver = "dart" /\ pc = "copy" /\ pc' = "idle" /\ CopyBytes(index, len)
            /\ index' = index + len
        BY <3>3 DEF DartCopy, At, Goto
      <4>2. Filled = SubSeq(data[next], 1, index)
        BY <4>1 DEF Filled
      <4> QED
        BY <1>1, <3>1, <4>1, <4>2
    <3>4. CASE AhiCopy
      <4>1. driver = "ahi" /\ pc = "copy" /\ pc' = "write"
            /\ CopyBytes(0, IF len < Room THEN len ELSE Room)
            /\ (IF len < Room THEN len ELSE Room) \in Nat
        BY <1>1, <3>4 DEF AhiCopy, At, Goto
      <4>2. Filled = <<>>
        BY <4>1 DEF Filled
      <4> QED
        BY <1>1, <3>1, <4>1, <4>2
    <3> QED
      BY <1>8, <3>2, <3>3, <3>4
  <2>2. UNCHANGED <<queue, got, next, driver>>
    BY <1>1, <1>8 DEF Win32Copy, DartCopy, AhiCopy, CopyBytes, device
  <2>3. /\ data' = [data EXCEPT ![next] = Filled \o Bytes(sent, n)]
        /\ sent' = (sent + n) % Modulus
    BY <2>1 DEF CopyBytes
  <2>4. data'[next] = Filled \o Bytes(sent, n)
    BY <2>3, PoolTypes
  <2>5. Filled' = Filled \o Bytes(sent, n)
    <3>1. CASE driver = "dart"
      <4>1. Filled' = SubSeq(data'[next], 1, from + n)
        BY <2>1, <2>2, <3>1 DEF Filled
      <4>2. /\ Filled \in Seq(0 .. Modulus - 1) /\ Len(Filled) = from
            /\ Bytes(sent, n) \in Seq(0 .. Modulus - 1) /\ Len(Bytes(sent, n)) = n
        <5>1. data[next] \in Seq(0 .. Modulus - 1) /\ sent \in Nat
          BY PoolTypes
        <5>2. Filled \in Seq(0 .. Modulus - 1) /\ Len(Filled) = from
          BY <2>1, <5>1, Prefix
        <5> QED
          BY <5>1, <5>2, BytesType
      <4>3. data'[next] \in Seq(0 .. Modulus - 1) /\ Len(data'[next]) = from + n
        BY <2>4, <4>2, ConcatProperties
      <4>4. \A s \in Seq(0 .. Modulus - 1) : SubSeq(s, 1, Len(s)) = s
        BY SubSeqFull
      <4> QED
        BY <2>4, <4>1, <4>3, <4>4
    <3>2. CASE driver # "dart"
      BY <1>1, <2>1, <2>2, <2>4, <3>2 DEF Filled
    <3> QED
      BY <3>1, <3>2
  <2> QED
    BY <2>1, <2>2, <2>3, <2>5 DEF Fills
<1>9. CASE Win32Write \/ DartWrite \/ AhiSend
  <2>1. /\ pc = "write" /\ UNCHANGED <<sent, got, driver>>
        /\ queue' = Append(queue, next)
        /\ pc' \in {"advance", "ready"} /\ (driver # "dart" => pc' = "advance")
    BY <1>1, <1>9 DEF Win32Write, DartWrite, AhiSend, At, Goto, Submit, stream
  <2>2. data'[next] = Filled /\ \A b \in Buffers \ {next} : data'[b] = data[b]
    <3>1. CASE driver = "dart"
      <4>1. data' = [data EXCEPT ![next] = SubSeq(@, 1, index)]
        BY <1>9, <3>1 DEF Win32Write, DartWrite, AhiSend, At
      <4> QED
        BY <2>1, <3>1, <4>1, PoolTypes DEF Filled
    <3>2. CASE driver # "dart"
      <4>1. data' = data
        BY <1>9, <3>2 DEF Win32Write, DartWrite, AhiSend, At, pool
      <4> QED
        BY <1>1, <2>1, <3>2, <4>1 DEF Filled
    <3> QED
      BY <3>1, <3>2
  <2>3. Filled' = <<>>
    BY <1>1, <2>1 DEF Filled
  <2> QED
    BY <2>1, <2>2, <2>3 DEF Gives
<1>10. CASE Complete
  <2>1. /\ queue # <<>> /\ queue' = Tail(queue)
        /\ got' = (got + Len(data[Head(queue)])) % Modulus
        /\ UNCHANGED <<data, sent, pc, next, index, driver>>
    BY <1>1, <1>10 DEF Complete, pool, threads
  <2>2. Filled' = Filled
    BY <2>1 DEF Filled
  <2> QED
    BY <2>1, <2>2 DEF Plays
<1> QED
  BY <1>3, <1>4, <1>5, <1>6, <1>7, <1>8, <1>9, <1>10 DEF Next, Playing, Control, Callback

-----------------------------------------------------------------------------
(* The stream *)

\* The buffers the device has hold the pieces of the stream that follow what
\* was played, one behind the other; o[k] is where the k-th begins, and the
\* last one where the buffer being filled does.
Pieces(o) ==
    /\ o \in [1 .. Len(queue) + 1 -> 0 .. Modulus - 1]
    /\ o[1] = got
    /\ \A k \in 1 .. Len(queue) :
         /\ data[queue[k]] = Bytes(o[k], Len(data[queue[k]]))
         /\ o[k + 1] = (o[k] + Len(data[queue[k]])) % Modulus

\* What play has filled of its buffer is the piece from first to sent.
FilledFrom(first) ==
    /\ Filled = Bytes(first, Len(Filled))
    /\ sent = (first + Len(Filled)) % Modulus

StreamInv ==
    build = "atomic" /\ lost = 0 =>
        \E o : Pieces(o) /\ FilledFrom(o[Len(queue) + 1])

\* A step keeps the stream: the device and play each hold the pieces that
\* follow, none of which the other can write.
LEMMA StreamStep ==
    TypeInv /\ PoolInv /\ StreamInv /\ [Next]_vars => StreamInv'
<1> SUFFICES ASSUME TypeInv, PoolInv, StreamInv, [Next]_vars,
                    build' = "atomic", lost' = 0
             PROVE  \E o : Pieces(o)' /\ FilledFrom(o[Len(queue) + 1])'
  BY DEF StreamInv
<1>1. /\ Modulus \in Nat \ {0}
      /\ data \in [Buffers -> Seq(0 .. Modulus - 1)] /\ next \in Buffers
      /\ queue \in Seq(Buffers) /\ Len(queue) \in Nat
      /\ \A k \in 1 .. Len(queue) : queue[k] \in Buffers
      /\ sent \in 0 .. Modulus - 1 /\ got \in 0 .. Modulus - 1
  BY PoolTypes
<1>2. build = "atomic" /\ lost = 0
  BY DEF Next, Playing, Control, Callback, vars, setting, device, Submit, Call,
         Win32Play, Win32Copy, Win32Wait, Win32Write, Win32Advance, Win32Callback,
         Win32Modulo, DartPlay, DartWait, DartWrite, DartReady, DartStore,
         DartAdvance, DartCopy, DartCallback, DartCallbackError, DartCallbackStore,
         AhiPlay, AhiWait,
         AhiCopy, AhiSend, AhiAdvance, Complete, Deinit, Closed, TypeInv, TypeOK
<1>3. PICK o : Pieces(o) /\ FilledFrom(o[Len(queue) + 1])
  BY <1>2 DEF StreamInv
<1>4. \A f \in 0 .. Modulus - 1 : Bytes(f, 0) = <<>> /\ (f + 0) % Modulus = f
  <2> TAKE f \in 0 .. Modulus - 1
  <2>1. f \in Nat
    BY <1>1
  <2>2. (f + 0) % Modulus = f
    BY NothingAdded
  <2>3. Bytes(f, 0) \in Seq(0 .. Modulus - 1) /\ Len(Bytes(f, 0)) = 0
    BY <2>1, BytesType
  <2> QED
    BY <2>1, <2>2, <2>3, EmptySeq
<1>5. Filled \in Seq(0 .. Modulus - 1) /\ Len(Filled) \in Nat
  BY PoolTypes
<1>6. CASE Rests
  <2>1. Pieces(o)' /\ FilledFrom(o[Len(queue) + 1])'
    BY <1>3, <1>6 DEF Rests, Pieces, FilledFrom
  <2> QED
    BY <2>1
<1>7. CASE Fills
  <2>1. PICK n \in Nat : /\ data' = [data EXCEPT ![next] = Filled \o Bytes(sent, n)]
                         /\ sent' = (sent + n) % Modulus /\ Filled' = Filled \o Bytes(sent, n)
    BY <1>7 DEF Fills
  <2>2. UNCHANGED <<queue, got, next>> /\ pc = "copy"
    BY <1>7 DEF Fills
  <2>4. \A k \in 1 .. Len(queue) : queue[k] # next /\ data'[queue[k]] = data[queue[k]]
    <3>1. \A k \in 1 .. Len(queue) : queue[k] # next
      BY <1>1, <1>2, <2>2, FrontFree DEF NeverOwned, Contains
    <3> QED
      BY <1>1, <2>1, <3>1
  <2>5. Pieces(o)'
    BY <1>3, <2>2, <2>4 DEF Pieces
  <2>6. PICK first \in Nat : first = o[Len(queue) + 1]
    <3>1. Len(queue) + 1 \in 1 .. Len(queue) + 1
      BY <1>1
    <3>2. o[Len(queue) + 1] \in 0 .. Modulus - 1
      BY <1>3, <3>1 DEF Pieces
    <3> QED
      BY <1>1, <3>2
  <2>7. PICK l \in Nat : l = Len(Filled) /\ Filled = Bytes(first, l) /\ sent = (first + l) % Modulus
    BY <1>3, <1>5, <2>6 DEF FilledFrom
  <2>8. Filled' = Bytes(first, l + n) /\ sent' = (first + (l + n)) % Modulus
    <3>1. /\ Bytes(first, l) \o Bytes((first + l) % Modulus, n) = Bytes(first, l + n)
          /\ (((first + l) % Modulus) + n) % Modulus = (first + (l + n)) % Modulus
      BY BytesJoin
    <3> QED
      BY <2>1, <2>7, <3>1
  <2>9. Len(Bytes(first, l + n)) = l + n
    <3>1. l + n \in Nat
      OBVIOUS
    <3> QED
      BY <3>1, BytesType
  <2>10. FilledFrom(o[Len(queue) + 1])'
    BY <2>2, <2>6, <2>8, <2>9 DEF FilledFrom
  <2> QED
    BY <2>5, <2>10
<1>8. CASE Gives
  <2>1. pc = "write" /\ UNCHANGED <<sent, got>> /\ queue' = Append(queue, next)
    BY <1>8 DEF Gives
  <2>2. data'[next] = Filled /\ \A b \in Buffers \ {next} : data'[b] = data[b]
    BY <1>8 DEF Gives
  <2>3. \A k \in 1 .. Len(queue) : data'[queue[k]] = data[queue[k]]
    <3>1. \A k \in 1 .. Len(queue) : queue[k] # next
      BY <1>1, <1>2, <2>1, FrontFree DEF NeverOwned, Contains
    <3> QED
      BY <1>1, <2>2, <3>1
  <2>4. PICK last \in Nat : last = Len(queue) + 1
    BY <1>1
  <2>5. /\ Len(queue') = last /\ queue'[last] = next
        /\ \A k \in 1 .. Len(queue) : queue'[k] = queue[k]
    BY <1>1, <2>1, <2>4
  <2>6. PICK p \in [1 .. last + 1 -> 0 .. Modulus - 1] :
          p[last + 1] = sent /\ \A k \in 1 .. last : p[k] = o[k]
    <3> DEFINE q == [k \in 1 .. last + 1 |-> IF k = last + 1 THEN sent ELSE o[k]]
    <3>1. \A k \in 1 .. last : o[k] \in 0 .. Modulus - 1
      BY <1>3, <2>4 DEF Pieces
    <3>2. q \in [1 .. last + 1 -> 0 .. Modulus - 1]
      BY <1>1, <3>1
    <3>3. q[last + 1] = sent /\ \A k \in 1 .. last : q[k] = o[k]
      OBVIOUS
    <3> QED
      BY <3>2, <3>3
  <2>7. /\ p[1] = got /\ p[last] = o[last]
        /\ \A k \in 1 .. Len(queue) : p[k] = o[k] /\ p[k + 1] = o[k + 1]
    <3>1. 1 \in 1 .. last /\ o[1] = got
      BY <1>1, <1>3, <2>4 DEF Pieces
    <3>2. last \in 1 .. last /\ \A k \in 1 .. Len(queue) : k \in 1 .. last /\ k + 1 \in 1 .. last
      BY <1>1, <2>4
    <3> QED
      BY <2>6, <3>1, <3>2
  <2>8. /\ data'[next] = Bytes(p[last], Len(data'[next]))
        /\ p[last + 1] = (p[last] + Len(data'[next])) % Modulus
    BY <1>3, <2>2, <2>4, <2>6, <2>7 DEF FilledFrom
  <2>9. ASSUME NEW k \in 1 .. Len(queue')
        PROVE  /\ data'[queue'[k]] = Bytes(p[k], Len(data'[queue'[k]]))
               /\ p[k + 1] = (p[k] + Len(data'[queue'[k]])) % Modulus
    <3>1. CASE k = last
      BY <2>5, <2>8, <3>1
    <3>2. CASE k # last
      <4>1. k \in 1 .. Len(queue)
        BY <1>1, <2>4, <2>5, <3>2
      <4> QED
        <5>1. queue'[k] = queue[k] /\ data'[queue[k]] = data[queue[k]]
              /\ p[k] = o[k] /\ p[k + 1] = o[k + 1]
          BY <2>3, <2>5, <2>7, <4>1
        <5>2. /\ data[queue[k]] = Bytes(o[k], Len(data[queue[k]]))
              /\ o[k + 1] = (o[k] + Len(data[queue[k]])) % Modulus
          BY <1>3, <4>1 DEF Pieces
        <5> QED
          BY <5>1, <5>2
    <3> QED
      BY <3>1, <3>2
  <2>10. Pieces(p)'
    <3>1. Len(queue') + 1 = last + 1 /\ p[1] = got'
      BY <2>1, <2>5, <2>7
    <3> QED
      BY <2>6, <2>9, <3>1 DEF Pieces
  <2>11. Filled' = <<>> /\ Len(<<>>) = 0
    BY <1>8 DEF Gives
  <2>12. FilledFrom(p[Len(queue) + 1])'
    BY <1>1, <1>4, <2>1, <2>5, <2>6, <2>11 DEF FilledFrom
  <2> QED
    BY <2>10, <2>12
<1>9. CASE Plays
  <2>1. /\ queue # <<>> /\ queue' = Tail(queue)
        /\ got' = (got + Len(data[queue[1]])) % Modulus
        /\ UNCHANGED <<data, sent, Filled>>
    BY <1>1, <1>9 DEF Plays
  <2>2. PICK last \in Nat : last = Len(queue) /\ last > 0
    BY <1>1, <2>1
  <2>3. /\ Len(queue') = last - 1
        /\ \A k \in 1 .. Len(queue') : k + 1 \in 1 .. last /\ queue'[k] = queue[k + 1]
    BY <1>1, <2>1, <2>2
  <2>4. PICK p \in [1 .. last -> 0 .. Modulus - 1] : \A k \in 1 .. last : p[k] = o[k + 1]
    <3>1. o \in [1 .. last + 1 -> 0 .. Modulus - 1]
      BY <1>3, <2>2 DEF Pieces
    <3>2. \A k \in 1 .. last : o[k + 1] \in 0 .. Modulus - 1
      BY <2>2, <3>1
    <3>3. [k \in 1 .. last |-> o[k + 1]] \in [1 .. last -> 0 .. Modulus - 1]
      BY <3>2
    <3> QED
      BY <3>3
  <2>5. Len(queue') + 1 = last /\ p[1] = got'
    <3>1. o[1] = got /\ o[1 + 1] = (o[1] + Len(data[queue[1]])) % Modulus
      BY <1>3, <2>2 DEF Pieces
    <3> QED
      BY <2>1, <2>2, <2>3, <2>4, <3>1
  <2>6. /\ p[last] = o[last + 1]
        /\ \A k \in 1 .. Len(queue') : p[k] = o[k + 1] /\ p[k + 1] = o[k + 1 + 1]
    BY <2>2, <2>3, <2>4
  <2>7. ASSUME NEW k \in 1 .. Len(queue')
        PROVE  /\ data'[queue'[k]] = Bytes(p[k], Len(data'[queue'[k]]))
               /\ p[k + 1] = (p[k] + Len(data'[queue'[k]])) % Modulus
    <3>1. k + 1 \in 1 .. Len(queue)
      BY <2>2, <2>3
    <3> QED
      BY <1>3, <2>1, <2>3, <2>6, <3>1 DEF Pieces
  <2>8. Pieces(p)'
    BY <2>4, <2>5, <2>7 DEF Pieces
  <2>9. FilledFrom(p[Len(queue) + 1])'
    BY <1>3, <2>1, <2>2, <2>5, <2>6 DEF FilledFrom
  <2> QED
    BY <2>8, <2>9
<1>10. Fills \/ Gives \/ Plays \/ Rests
  BY <1>2, SeenSteps
<1> QED
  BY <1>6, <1>7, <1>8, <1>9, <1>10

\* The device plays the bytes of the stream in their order, whatever the sizes
\* of the frames and of the pool, if it takes every buffer.
THEOREM StreamPlayed == Spec => []PlaysStream
<1>1. Init /\ TypeInv => StreamInv
  <2> SUFFICES ASSUME Init, TypeInv PROVE StreamInv
    OBVIOUS
  <2> DEFINE o == [k \in 1 .. Len(queue) + 1 |-> 0]
  <2>1. /\ Modulus \in Nat \ {0} /\ 0 % Modulus = 0 /\ got = 0 /\ sent = 0 /\ index = 0
        /\ data = [b \in Buffers |-> <<>>] /\ next \in Buffers
        /\ Len(queue) \in Nat /\ \A k \in 1 .. Len(queue) : queue[k] \in Buffers
    BY PoolAssumption DEF Init, TypeInv, TypeOK
  <2>2. /\ <<>> \in Seq(0 .. Modulus - 1) /\ Len(<<>>) = 0
        /\ SubSeq(<<>>, 1, 0) = <<>> /\ Bytes(0, 0) = <<>>
    <3>1. <<>> \in Seq(0 .. Modulus - 1) /\ Len(<<>>) = 0
      BY EmptySeq
    <3>2. Bytes(0, 0) \in Seq(0 .. Modulus - 1) /\ Len(Bytes(0, 0)) = 0
      BY BytesType
    <3>3. SubSeq(<<>>, 1, 0) \in Seq(0 .. Modulus - 1) /\ Len(SubSeq(<<>>, 1, 0)) = 0
      BY <3>1, Prefix
    <3> QED
      BY <3>1, <3>2, <3>3, EmptySeq
  <2>3. Pieces(o)
    BY <2>1, <2>2 DEF Pieces
  <2>4. Filled = <<>>
    BY <2>1, <2>2 DEF Filled
  <2>5. FilledFrom(o[Len(queue) + 1])
    BY <2>1, <2>2, <2>4 DEF FilledFrom
  <2> QED
    BY <2>3, <2>5 DEF StreamInv
<1>2. StreamInv /\ TypeInv => PlaysStream
  <2> SUFFICES ASSUME StreamInv, TypeInv, build = "atomic", lost = 0, queue # <<>>
               PROVE  data[Head(queue)] = Bytes(got, Len(data[Head(queue)]))
    BY DEF PlaysStream
  <2>1. Head(queue) = queue[1] /\ 1 \in 1 .. Len(queue)
    BY DEF TypeInv, TypeOK
  <2> QED
    BY <2>1 DEF StreamInv, Pieces
<1> QED
  BY <1>1, <1>2, PoolCorrect, StreamStep, PTL DEF Spec

-----------------------------------------------------------------------------
(* The pool is a queue of bytes *)

\* The fold that joins sequences is well defined: each step adds one of them.
LEMMA FlattenSteps ==
    ASSUME NEW s, Len(s) \in Nat \ {0}
    PROVE  \E f : /\ f[1] = s[1]
                  /\ \A i \in 1 .. Len(s) - 1 : f[i + 1] = f[i] \o s[i + 1]
                  /\ FlattenSeq(s) = f[Len(s)]
<1> DEFINE N == Len(s)
           E(x, i) == x \o s[i]
           Solves(h, n) == h = [i \in 1 .. n |-> IF i = 1 THEN s[i] ELSE E(h[i - 1], i)]
           T == {n \in Nat : \E h : Solves(h, n)}
<1> HIDE DEF N, E
<1>1. 0 \in T
  <2> DEFINE h == [i \in 1 .. 0 |-> s[i]]
  <2>1. Solves(h, 0)
    OBVIOUS
  <2> QED
    BY <2>1
<1>2. ASSUME NEW n \in Nat, n \in T PROVE n + 1 \in T
  <2>1. PICK h : Solves(h, n)
    BY <1>2
  <2> DEFINE f == [i \in 1 .. n + 1 |-> IF i <= n THEN h[i]
                                        ELSE IF i = 1 THEN s[i] ELSE E(h[n], i)]
  <2>2. \A i \in 1 .. n + 1 : f[i] = IF i = 1 THEN s[i] ELSE E(f[i - 1], i)
    <3> TAKE i \in 1 .. n + 1
    <3>1. CASE i = n + 1
      BY <3>1
    <3>2. CASE i # n + 1
      <4>1. h[i] = IF i = 1 THEN s[i] ELSE E(h[i - 1], i)
        BY <2>1, <3>2
      <4> QED
        BY <3>2, <4>1
    <3> QED
      BY <3>1, <3>2
  <2>3. Solves(f, n + 1)
    <3>1. f = [i \in 1 .. n + 1 |-> f[i]]
      OBVIOUS
    <3> HIDE DEF f
    <3> QED
      BY <2>2, <3>1
  <2>4. \E g : Solves(g, n + 1)
    <3> HIDE DEF f, Solves
    <3> QED
      BY <2>3
  <2> QED
    BY <2>4
<1>3. \A n \in Nat : n \in T
  <2> HIDE DEF T
  <2> QED
    BY <1>1, <1>2, InductionOn
<1>4. N \in Nat \ {0}
  BY DEF N
<1>5. \E h : Solves(h, N)
  BY <1>3, <1>4
<1> DEFINE f == CHOOSE h : Solves(h, N)
<1>6. Solves(f, N)
  BY <1>5
<1>7. FlattenSeq(s) = f[N]
  BY <1>4 DEF FlattenSeq, N, E
<1> HIDE DEF f
<1>8. f[1] = s[1]
  BY <1>4, <1>6
<1>9. \A i \in 1 .. N - 1 : f[i + 1] = E(f[i], i + 1)
  BY <1>4, <1>6
<1> QED
  BY <1>7, <1>8, <1>9 DEF N, E

\* What the steps hold: a sequence of the elements, as long as its parts.
LEMMA FlattenParts ==
    ASSUME NEW S, NEW s \in Seq(Seq(S)), NEW R \in Nat,
           \A k \in 1 .. Len(s) : Len(s[k]) <= R,
           NEW f, f[1] = s[1], \A i \in 1 .. Len(s) - 1 : f[i + 1] = f[i] \o s[i + 1]
    PROVE  \A i \in 1 .. Len(s) : f[i] \in Seq(S) /\ Len(f[i]) <= i * R
<1> DEFINE T == {n \in Nat : n + 1 \in 1 .. Len(s) =>
                    f[n + 1] \in Seq(S) /\ Len(f[n + 1]) <= (n + 1) * R}
<1>1. \A k \in 1 .. Len(s) : s[k] \in Seq(S) /\ Len(s[k]) \in Nat
  OBVIOUS
<1>2. 0 \in T
  BY <1>1
<1>3. ASSUME NEW n \in Nat, n \in T PROVE n + 1 \in T
  <2> SUFFICES ASSUME n + 2 \in 1 .. Len(s)
               PROVE  f[n + 2] \in Seq(S) /\ Len(f[n + 2]) <= (n + 2) * R
    <3>1. (n + 1) + 1 = n + 2
      OBVIOUS
    <3> QED
      BY <3>1
  <2>1. n + 1 \in 1 .. Len(s) - 1 /\ n + 1 \in 1 .. Len(s) /\ (n + 1) + 1 = n + 2
    OBVIOUS
  <2>2. PICK x \in Seq(S), y \in Seq(S) :
          x = f[n + 1] /\ y = s[n + 2] /\ Len(x) <= (n + 1) * R /\ Len(y) <= R
    BY <1>1, <1>3, <2>1
  <2>3. f[n + 2] = x \o y
    BY <2>1, <2>2
  <2>4. x \o y \in Seq(S) /\ Len(x \o y) = Len(x) + Len(y)
    BY ConcatProperties
  <2>5. PICK m \in Nat : m = (n + 1) * R /\ m + R = (n + 2) * R
    OBVIOUS
  <2>6. Len(x) \in Nat /\ Len(y) \in Nat /\ Len(x) <= m /\ Len(y) <= R
    BY <2>2, <2>5
  <2>7. Len(x) + Len(y) <= m + R
    BY <2>6
  <2> QED
    BY <2>3, <2>4, <2>5, <2>7, Zenon
<1>4. \A n \in Nat : n \in T
  <2> HIDE DEF T
  <2> QED
    BY <1>2, <1>3, InductionOn
<1> TAKE i \in 1 .. Len(s)
<1>5. i - 1 \in T /\ (i - 1) + 1 = i
  <2> HIDE DEF T
  <2> QED
    BY <1>4
<1> QED
  BY <1>5

\* Joining sequences: the type and the length of the result, one sequence more at
\* the end, one less at the front.
LEMMA Flattened ==
    ASSUME NEW S, NEW s \in Seq(Seq(S)), NEW R \in Nat, \A k \in 1 .. Len(s) : Len(s[k]) <= R
    PROVE  FlattenSeq(s) \in Seq(S) /\ Len(FlattenSeq(s)) <= Len(s) * R
<1>1. CASE Len(s) = 0
  <2>1. FlattenSeq(s) = s /\ s = <<>>
    BY <1>1, EmptySeq DEF FlattenSeq
  <2> QED
    BY <1>1, <2>1, EmptySeq
<1>2. CASE Len(s) \in Nat \ {0}
  <2>1. PICK f : /\ f[1] = s[1]
                 /\ \A i \in 1 .. Len(s) - 1 : f[i + 1] = f[i] \o s[i + 1]
                 /\ FlattenSeq(s) = f[Len(s)]
    BY <1>2, FlattenSteps
  <2>2. \A i \in 1 .. Len(s) : f[i] \in Seq(S) /\ Len(f[i]) <= i * R
    BY <2>1, FlattenParts
  <2>3. Len(s) \in 1 .. Len(s)
    BY <1>2
  <2> QED
    BY <2>1, <2>2, <2>3
<1> QED
  BY <1>1, <1>2

\* Sequences may be joined in any order.
LEMMA Regroup ==
    ASSUME NEW S, NEW x \in Seq(S), NEW y \in Seq(S), NEW z \in Seq(S)
    PROVE  (x \o y) \o z = x \o (y \o z) /\ x \o y \in Seq(S) /\ y \o z \in Seq(S)
BY ConcatAssociative, ConcatProperties

\* The step i of the fold f is the step i of the fold g with "before" in front.
Along(S, f, g, before, ahead, i) ==
    f[ahead + i] = before \o g[i] /\ g[i] \in Seq(S)

\* The step i of both folds joins the same sequence.
SameNext(S, f, g, ahead, i) ==
    \E y \in Seq(S) : f[ahead + (i + 1)] = f[ahead + i] \o y /\ g[i + 1] = g[i] \o y

LEMMA AlongStep ==
    ASSUME NEW S, NEW f, NEW g, NEW before \in Seq(S), NEW ahead, NEW i,
           Along(S, f, g, before, ahead, i), SameNext(S, f, g, ahead, i)
    PROVE  Along(S, f, g, before, ahead, i + 1)
<1>1. PICK y \in Seq(S) : f[ahead + (i + 1)] = f[ahead + i] \o y /\ g[i + 1] = g[i] \o y
  BY DEF SameNext
<1>2. PICK x \in Seq(S) : x = g[i] /\ f[ahead + i] = before \o x
  BY DEF Along
<1>3. (before \o x) \o y = before \o (x \o y) /\ x \o y \in Seq(S)
  BY Regroup
<1>4. f[ahead + (i + 1)] = before \o g[i + 1] /\ g[i + 1] \in Seq(S)
  BY <1>1, <1>2, <1>3, Zenon
<1> QED
  BY <1>4 DEF Along

\* Two folds that begin alike and join the same sequences go along.
LEMMA FlattenAlong ==
    ASSUME NEW S, NEW f, NEW g, NEW before \in Seq(S), NEW ahead, NEW n \in Nat \ {0},
           Along(S, f, g, before, ahead, 1),
           \A i \in 1 .. n - 1 : SameNext(S, f, g, ahead, i)
    PROVE  Along(S, f, g, before, ahead, n)
<1> DEFINE T == {m \in Nat : m + 1 <= n => Along(S, f, g, before, ahead, m + 1)}
<1>1. 0 \in T
  OBVIOUS
<1>2. ASSUME NEW m \in Nat, m \in T PROVE m + 1 \in T
  <2> SUFFICES ASSUME (m + 1) + 1 <= n
               PROVE  Along(S, f, g, before, ahead, (m + 1) + 1)
    OBVIOUS
  <2>1. m + 1 \in 1 .. n - 1
    OBVIOUS
  <2>2. Along(S, f, g, before, ahead, m + 1) /\ SameNext(S, f, g, ahead, m + 1)
    BY <1>2, <2>1
  <2> QED
    BY <2>2, AlongStep
<1>3. \A m \in Nat : m \in T
  <2> HIDE DEF T
  <2> QED
    BY <1>1, <1>2, InductionOn
<1>4. n - 1 \in T /\ (n - 1) + 1 = n
  <2> HIDE DEF T
  <2> QED
    BY <1>3
<1> QED
  BY <1>4

\* One sequence more at the end of those that are joined.
LEMMA FlattenAppend ==
    ASSUME NEW S, NEW s \in Seq(Seq(S)), NEW x \in Seq(S)
    PROVE  FlattenSeq(Append(s, x)) = FlattenSeq(s) \o x
<1>1. PICK t \in Seq(Seq(S)) : /\ t = Append(s, x) /\ Len(t) = Len(s) + 1
                               /\ \A k \in 1 .. Len(s) : t[k] = s[k]
                               /\ t[Len(s) + 1] = x
  BY AppendProperties
<1>2. Len(s) \in Nat /\ Len(t) \in Nat \ {0}
  BY <1>1
<1>3. PICK f : /\ f[1] = t[1]
               /\ \A i \in 1 .. Len(t) - 1 : f[i + 1] = f[i] \o t[i + 1]
               /\ FlattenSeq(t) = f[Len(t)]
  BY <1>2, FlattenSteps
<1>4. CASE Len(s) = 0
  <2>1. s = <<>> /\ FlattenSeq(s) = s
    BY <1>4, EmptySeq DEF FlattenSeq
  <2>2. FlattenSeq(t) = x
    BY <1>1, <1>3, <1>4
  <2>3. <<>> \o x = x
    OBVIOUS
  <2> QED
    BY <1>1, <2>1, <2>2, <2>3
<1>5. CASE Len(s) \in Nat \ {0}
  <2>1. PICK g : /\ g[1] = s[1]
                 /\ \A i \in 1 .. Len(s) - 1 : g[i + 1] = g[i] \o s[i + 1]
                 /\ FlattenSeq(s) = g[Len(s)]
    BY <1>5, FlattenSteps
  <2>2. <<>> \in Seq(S) /\ 0 \in Nat /\ g[1] \in Seq(S) /\ 0 + 1 = 1 /\ 0 + Len(s) = Len(s)
    BY <1>5, <2>1
  <2>3. Along(S, f, g, <<>>, 0, 1)
    BY <1>1, <1>3, <1>5, <2>1, <2>2 DEF Along
  <2>4. ASSUME NEW i \in 1 .. Len(s) - 1
        PROVE  SameNext(S, f, g, 0, i)
    <3>1. i \in 1 .. Len(t) - 1 /\ i + 1 \in 1 .. Len(s) /\ 0 + (i + 1) = i + 1 /\ 0 + i = i
      BY <1>1
    <3>2. t[i + 1] = s[i + 1] /\ s[i + 1] \in Seq(S)
      BY <1>1, <3>1
    <3>3. f[i + 1] = f[i] \o t[i + 1] /\ g[i + 1] = g[i] \o s[i + 1]
      BY <1>3, <2>1, <3>1
    <3> QED
      BY <3>1, <3>2, <3>3, Zenon DEF SameNext
  <2>5. Along(S, f, g, <<>>, 0, Len(s))
    BY <1>5, <2>2, <2>3, <2>4, FlattenAlong
  <2>6. f[Len(s)] = FlattenSeq(s)
    BY <2>1, <2>2, <2>5 DEF Along
  <2>7. Len(s) \in 1 .. Len(t) - 1
    BY <1>1, <1>5
  <2>8. f[Len(s) + 1] = f[Len(s)] \o t[Len(s) + 1]
    BY <1>3, <2>7
  <2> QED
    BY <1>1, <1>3, <2>6, <2>8
<1> QED
  BY <1>2, <1>4, <1>5

\* One sequence less at the front.
LEMMA FlattenTail ==
    ASSUME NEW S, NEW s \in Seq(Seq(S)), s # <<>>
    PROVE  FlattenSeq(s) = Head(s) \o FlattenSeq(Tail(s))
<1>1. PICK t \in Seq(Seq(S)) : /\ t = Tail(s) /\ Len(t) = Len(s) - 1
                               /\ \A k \in 1 .. Len(t) : t[k] = s[k + 1]
  BY HeadTailProperties
<1>2. /\ Len(s) \in Nat \ {0} /\ Len(t) \in Nat /\ Len(s) = 1 + Len(t)
      /\ Head(s) = s[1] /\ s[1] \in Seq(S)
  BY <1>1, EmptySeq
<1>3. PICK f : /\ f[1] = s[1]
               /\ \A i \in 1 .. Len(s) - 1 : f[i + 1] = f[i] \o s[i + 1]
               /\ FlattenSeq(s) = f[Len(s)]
  BY <1>2, FlattenSteps
<1>4. CASE Len(t) = 0
  <2>1. t = <<>> /\ FlattenSeq(t) = t
    BY <1>4, EmptySeq DEF FlattenSeq
  <2>2. FlattenSeq(s) = s[1]
    BY <1>2, <1>3, <1>4
  <2>3. s[1] \o <<>> = s[1]
    BY <1>2
  <2> QED
    BY <1>1, <1>2, <2>1, <2>2, <2>3
<1>5. CASE Len(t) \in Nat \ {0}
  <2>1. PICK g : /\ g[1] = t[1]
                 /\ \A i \in 1 .. Len(t) - 1 : g[i + 1] = g[i] \o t[i + 1]
                 /\ FlattenSeq(t) = g[Len(t)]
    BY <1>5, FlattenSteps
  <2>2. g[1] \in Seq(S) /\ s[2] = t[1] /\ 1 + 1 = 2 /\ 1 \in 1 .. Len(s) - 1
    <3>1. 1 \in 1 .. Len(t) /\ 1 + 1 = 2
      BY <1>5
    <3> QED
      BY <1>1, <1>2, <2>1, <3>1
  <2>3. Along(S, f, g, s[1], 1, 1)
    BY <1>3, <2>1, <2>2 DEF Along
  <2>4. ASSUME NEW i \in 1 .. Len(t) - 1
        PROVE  SameNext(S, f, g, 1, i)
    <3>1. /\ i + 1 \in 1 .. Len(s) - 1 /\ i + 1 \in 1 .. Len(t)
          /\ 1 + (i + 1) = (i + 1) + 1 /\ 1 + i = i + 1
      BY <1>2
    <3>2. s[(i + 1) + 1] = t[i + 1] /\ t[i + 1] \in Seq(S)
      BY <1>1, <3>1
    <3>3. f[(i + 1) + 1] = f[i + 1] \o s[(i + 1) + 1] /\ g[i + 1] = g[i] \o t[i + 1]
      BY <1>3, <2>1, <3>1
    <3> QED
      BY <3>1, <3>2, <3>3, Zenon DEF SameNext
  <2>5. Along(S, f, g, s[1], 1, Len(t))
    BY <1>2, <1>5, <2>3, <2>4, FlattenAlong
  <2> QED
    BY <1>1, <1>2, <1>3, <2>1, <2>5 DEF Along
<1> QED
  BY <1>2, <1>4, <1>5

-----------------------------------------------------------------------------
(* Room in the buffers *)

\* No buffer holds more than it has room for, nor will when play has copied what
\* it still has to; a device that is given a buffer has not got it already.
RoomInv ==
    /\ lost <= limit
    /\ \A b \in Buffers : Len(data[b]) <= Room
    /\ driver # "ahi" => len <= Room
    /\ driver = "dart" => index <= Room /\ (pc = "copy" => index + len <= Room)
    /\ driver = "ahi" /\ build = "atomic" =>
         \A j, k \in 1 .. Len(queue) : queue[j] = queue[k] => j = k

\* What a step may change of it, one action at a time.
LEMMA RoomStep == TypeInv /\ PoolInv /\ RoomInv /\ [Next]_vars => RoomInv'
<1> SUFFICES ASSUME TypeInv, PoolInv, RoomInv, [Next]_vars PROVE RoomInv'
  OBVIOUS
<1>1. /\ UNCHANGED <<driver, build, limit, Buffers>>
      /\ driver \in {"win32", "dart", "ahi"} /\ len \in Nat /\ Room \in Nat \ {0}
      /\ index \in Nat /\ lost \in Nat /\ limit \in Nat
      /\ driver \in Drivers /\ (driver # "ahi" => \A n \in Frames[driver] : n <= Room)
  <2>1. UNCHANGED setting
    BY DEF Next, Playing, Control, Callback, vars, setting, device, Submit, Call,
         Win32Play, Win32Copy, Win32Wait, Win32Write, Win32Advance, Win32Callback,
         Win32Modulo, DartPlay, DartWait, DartWrite, DartReady, DartStore,
         DartAdvance, DartCopy, DartCallback, DartCallbackError, DartCallbackStore,
         AhiPlay, AhiWait,
         AhiCopy, AhiSend, AhiAdvance, Complete, Deinit, Closed
  <2>2. lost \in Nat /\ limit \in Nat /\ driver \in Drivers
    BY PoolAssumption DEF TypeInv, TypeOK
  <2>3. driver # "ahi" => \A n \in Frames[driver] : n <= Room
    BY <2>2, PoolAssumption
  <2>4. UNCHANGED <<driver, build, limit, Buffers>>
    BY <2>1 DEF setting, Buffers, Count
  <2> QED
    BY <2>2, <2>3, <2>4, PoolTypes
<1>2. /\ data \in [Buffers -> Seq(0 .. Modulus - 1)] /\ next \in Buffers
      /\ queue \in Seq(Buffers) /\ sent \in Nat
      /\ data[next] \in Seq(0 .. Modulus - 1)
      /\ driver = "dart" => index \in 0 .. Len(data[next])
  BY PoolTypes
<1>3. CASE UNCHANGED vars \/ Closed
  <2>1. UNCHANGED <<data, queue, pc, index, len, lost>>
    BY <1>3 DEF Closed, vars, pool, threads, device
  <2> QED
    BY <1>1, <2>1 DEF RoomInv
<1>4. CASE Win32Play \/ DartPlay \/ AhiPlay
  <2>1. UNCHANGED <<data, queue, index, lost>>
    BY <1>4 DEF Win32Play, DartPlay, AhiPlay, Call, pool, device
  <2>2. PICK n \in Frames[driver] :
          len' = n /\ (driver = "dart" => pc' = IF index + n > Room THEN "wait" ELSE "copy")
    BY <1>4 DEF Win32Play, DartPlay, AhiPlay, Call, Goto
  <2>3. n \in Nat /\ (driver # "ahi" => n <= Room)
    BY <1>1, PoolAssumption
  <2>4. driver = "dart" /\ pc' = "copy" => index + n <= Room
    BY <1>1, <2>2, <2>3
  <2> QED
    BY <1>1, <2>1, <2>2, <2>3, <2>4 DEF RoomInv
<1>5. CASE Deinit \/ Win32Wait \/ DartWait \/ AhiWait \/ Win32Advance \/ AhiAdvance
           \/ DartReady \/ DartStore
  <2>1. UNCHANGED <<data, queue, index, len, lost>> /\ (driver = "dart" => pc' # "copy")
    BY <1>5 DEF Deinit, Win32Wait, DartWait, AhiWait, Win32Advance, AhiAdvance, DartReady,
         DartStore, At, Goto, pool, device
  <2> QED
    BY <1>1, <2>1 DEF RoomInv
<1>6. CASE DartAdvance
  <2>1. UNCHANGED <<data, queue, len, lost>> /\ index' = 0 /\ driver = "dart"
    BY <1>6 DEF DartAdvance, At, device
  <2> QED
    BY <1>1, <2>1 DEF RoomInv
<1>7. CASE Callback \/ Complete
  <2>1. UNCHANGED <<data, index, len, pc>> /\ lost' <= limit
    BY <1>1, <1>7 DEF Callback, Win32Callback, Win32Modulo, DartCallback,
         DartCallbackError, DartCallbackStore, Complete,
         pool, threads, device, RoomInv
  <2>2. queue' = queue \/ (queue # <<>> /\ queue' = Tail(queue))
    BY <1>7 DEF Callback, Win32Callback, Win32Modulo, DartCallback,
         DartCallbackError, DartCallbackStore, Complete,
         device
  <2>3. CASE queue' = queue
    BY <1>1, <2>1, <2>3 DEF RoomInv
  <2>4. CASE queue # <<>> /\ queue' = Tail(queue)
    <3>1. \A k \in 1 .. Len(queue') : k + 1 \in 1 .. Len(queue) /\ queue'[k] = queue[k + 1]
      BY <1>2, <2>4
    <3>2. ASSUME driver = "ahi", build = "atomic",
                 NEW j \in 1 .. Len(queue'), NEW k \in 1 .. Len(queue'), queue'[j] = queue'[k]
          PROVE  j = k
      <4>1. /\ j + 1 \in 1 .. Len(queue) /\ k + 1 \in 1 .. Len(queue)
            /\ queue[j + 1] = queue[k + 1]
        BY <3>1, <3>2
      <4>2. j + 1 = k + 1
        BY <3>2, <4>1 DEF RoomInv
      <4> QED
        BY <4>2
    <3> QED
      BY <1>1, <2>1, <3>2 DEF RoomInv
  <2> QED
    BY <2>2, <2>3, <2>4
<1>8. CASE Win32Copy \/ DartCopy \/ AhiCopy
  <2>1. PICK from \in Nat, n \in Nat :
          /\ CopyBytes(from, n) /\ from \in 0 .. Len(data[next])
          /\ from + n <= Room /\ n <= len /\ pc' # "copy"
          /\ driver = "dart" => index' = from + n
    <3>1. CASE Win32Copy
      <4>1. driver = "win32" /\ CopyBytes(0, len) /\ 0 + len <= Room /\ pc' # "copy"
        BY <1>1, <3>1 DEF Win32Copy, At, Goto, RoomInv
      <4>2. 0 \in 0 .. Len(data[next]) /\ 0 \in Nat /\ len <= len
        BY <1>1, <1>2
      <4> QED
        BY <1>1, <4>1, <4>2
    <3>2. CASE DartCopy
      <4>1. CopyBytes(index, len) /\ index + len <= Room /\ index' = index + len
            /\ index \in 0 .. Len(data[next]) /\ pc' # "copy" /\ len <= len
        BY <1>1, <1>2, <3>2 DEF DartCopy, At, Goto, RoomInv
      <4> QED
        BY <1>1, <4>1
    <3>3. CASE AhiCopy
      <4>1. PICK n \in Nat : n = (IF len < Room THEN len ELSE Room) /\ n <= len /\ 0 + n <= Room
        BY <1>1
      <4>2. driver = "ahi" /\ CopyBytes(0, n) /\ pc' # "copy"
        BY <3>3, <4>1 DEF AhiCopy, At, Goto
      <4>3. 0 \in 0 .. Len(data[next]) /\ 0 \in Nat
        BY <1>2
      <4> QED
        BY <4>1, <4>2, <4>3
    <3> QED
      BY <1>8, <3>1, <3>2, <3>3
  <2>2. UNCHANGED <<queue, lost>>
    BY <1>8 DEF Win32Copy, DartCopy, AhiCopy, device
  <2>3. /\ data' = [data EXCEPT ![next] = SubSeq(@, 1, from) \o Bytes(sent, n)]
        /\ len' = len - n
    BY <2>1 DEF CopyBytes
  <2>4. Len(SubSeq(data[next], 1, from) \o Bytes(sent, n)) = from + n
    <3>1. PICK x \in Seq(0 .. Modulus - 1) : x = SubSeq(data[next], 1, from) /\ Len(x) = from
      BY <1>2, <2>1, Prefix
    <3>2. PICK y \in Seq(0 .. Modulus - 1) : y = Bytes(sent, n) /\ Len(y) = n
      BY <1>2, BytesType
    <3>3. Len(x \o y) = Len(x) + Len(y)
      BY ConcatProperties
    <3> QED
      BY <3>1, <3>2, <3>3
  <2>5. \A b \in Buffers : Len(data'[b]) <= Room
    BY <1>2, <2>1, <2>3, <2>4 DEF RoomInv
  <2>6. len' \in Nat /\ len' <= len
    BY <1>1, <2>1, <2>3
  <2> QED
    BY <1>1, <2>1, <2>2, <2>5, <2>6 DEF RoomInv
<1>9. CASE Win32Write \/ DartWrite \/ AhiSend
  <2>1. /\ UNCHANGED <<index, len>> /\ pc = "write" /\ pc' # "copy"
        /\ \/ queue' = Append(queue, next) /\ lost' = lost
           \/ driver # "ahi" /\ lost < limit /\ lost' = lost + 1 /\ queue' = queue
    BY <1>9 DEF Win32Write, DartWrite, AhiSend, At, Goto, Submit, pool
  <2>2. lost' <= limit
    BY <1>1, <2>1 DEF RoomInv
  <2>3. \A b \in Buffers : Len(data'[b]) <= Room
    <3>1. CASE data' = data
      BY <3>1 DEF RoomInv
    <3>2. CASE driver = "dart" /\ data' = [data EXCEPT ![next] = SubSeq(@, 1, index)]
      <4>1. Len(SubSeq(data[next], 1, index)) = index
        BY <1>2, <3>2, Prefix
      <4> QED
        BY <1>2, <3>2, <4>1 DEF RoomInv
    <3> QED
      BY <1>9, <3>1, <3>2 DEF Win32Write, DartWrite, AhiSend, At, pool
  <2>4. ASSUME driver = "ahi", build = "atomic",
               NEW j \in 1 .. Len(queue'), NEW k \in 1 .. Len(queue'), queue'[j] = queue'[k]
        PROVE  j = k
    <3>1. /\ Len(queue) \in Nat /\ Len(queue') = Len(queue) + 1
          /\ queue'[Len(queue) + 1] = next
          /\ \A i \in 1 .. Len(queue) : queue'[i] = queue[i]
      <4>1. queue' = Append(queue, next)
        BY <2>1, <2>4
      <4> QED
        BY <1>2, <4>1, AppendProperties
    <3>2. \A i \in 1 .. Len(queue) : queue[i] # next
      BY <1>2, <2>1, <2>4, FrontFree DEF NeverOwned, Contains
    <3>3. CASE j = Len(queue) + 1 \/ k = Len(queue) + 1
      BY <2>4, <3>1, <3>2, <3>3
    <3>4. CASE j \in 1 .. Len(queue) /\ k \in 1 .. Len(queue)
      BY <2>4, <3>1, <3>4 DEF RoomInv
    <3> QED
      BY <3>1, <3>3, <3>4
  <2> QED
    BY <1>1, <2>1, <2>2, <2>3, <2>4 DEF RoomInv
<1> QED
  BY <1>3, <1>4, <1>5, <1>6, <1>7, <1>8, <1>9 DEF Next, Playing, Control

-----------------------------------------------------------------------------
(* The pool implements the queue *)

\* The bytes of the buffers q, buffer by buffer, where d holds the bytes of each.
Contents(d, q) == [k \in DOMAIN q |-> d[q[k]]]

Maps(d, B, V) == \A b \in B : d[b] \in V

LEMMA ContentsAre ==
    ASSUME NEW B, NEW V, NEW d, Maps(d, B, V), NEW q \in Seq(B)
    PROVE  /\ Contents(d, q) \in Seq(V) /\ Len(Contents(d, q)) = Len(q)
           /\ \A k \in 1 .. Len(q) : Contents(d, q)[k] = d[q[k]]
<1>1. DOMAIN q = 1 .. Len(q) /\ Len(q) \in Nat /\ \A k \in 1 .. Len(q) : q[k] \in B
  OBVIOUS
<1>2. Contents(d, q) \in [1 .. Len(q) -> V]
  BY <1>1 DEF Contents, Maps
<1>3. Contents(d, q) \in Seq(V) /\ Len(Contents(d, q)) = Len(q)
  BY <1>1, <1>2
<1> QED
  BY <1>1, <1>3 DEF Contents

\* Their number bounds the length of all the bytes.
LEMMA ContentsJoined ==
    ASSUME NEW B, NEW W, NEW d, Maps(d, B, Seq(W)), NEW q \in Seq(B), NEW R \in Nat,
           \A b \in B : Len(d[b]) <= R
    PROVE  /\ FlattenSeq(Contents(d, q)) \in Seq(W)
           /\ Len(FlattenSeq(Contents(d, q))) <= Len(q) * R
<1> DEFINE s == Contents(d, q)
<1>1. /\ s \in Seq(Seq(W)) /\ Len(s) = Len(q)
      /\ \A k \in 1 .. Len(q) : s[k] = d[q[k]]
  BY ContentsAre, SMT
<1> HIDE DEF s
<1>2. \A k \in 1 .. Len(s) : Len(s[k]) <= R
  <2>1. \A k \in 1 .. Len(q) : q[k] \in B
    OBVIOUS
  <2> QED
    BY <1>1, <2>1, Zenon
<1>3. FlattenSeq(s) \in Seq(W) /\ Len(FlattenSeq(s)) <= Len(s) * R
  BY <1>1, <1>2, Flattened
<1> QED
  BY <1>1, <1>3, Zenon DEF s

\* A buffer more.
LEMMA ContentsAppend ==
    ASSUME NEW B, NEW V, NEW d, Maps(d, B, V), NEW e, Maps(e, B, V),
           NEW q \in Seq(B), NEW b \in B, \A k \in 1 .. Len(q) : e[q[k]] = d[q[k]]
    PROVE  Contents(e, Append(q, b)) = Append(Contents(d, q), e[b])
<1> DEFINE r == Append(q, b)
           s == Contents(d, q)
           u == Contents(e, r)
           t == Append(s, e[b])
<1>1. /\ r \in Seq(B) /\ Len(r) = Len(q) + 1 /\ r[Len(q) + 1] = b
      /\ \A k \in 1 .. Len(q) : r[k] = q[k]
  BY AppendProperties, SMT
<1> HIDE DEF r
<1>2. s \in Seq(V) /\ Len(s) = Len(q) /\ \A k \in 1 .. Len(q) : s[k] = d[q[k]]
  BY ContentsAre, SMT
<1>3. u \in Seq(V) /\ Len(u) = Len(r) /\ \A k \in 1 .. Len(r) : u[k] = e[r[k]]
  BY <1>1, ContentsAre, SMT
<1> HIDE DEF s, u
<1>4. e[b] \in V
  BY DEF Maps
<1>5. /\ t \in Seq(V) /\ Len(t) = Len(s) + 1
      /\ t[Len(s) + 1] = e[b] /\ \A k \in 1 .. Len(s) : t[k] = s[k]
  BY <1>2, <1>4, AppendProperties, SMT
<1> HIDE DEF t
<1>6. ASSUME NEW k \in 1 .. Len(u)
      PROVE  u[k] = t[k]
  <2>1. Len(q) \in Nat /\ Len(u) = Len(q) + 1
    BY <1>1, <1>3
  <2>2. CASE k = Len(q) + 1
    BY <1>1, <1>2, <1>3, <1>5, <2>2
  <2>3. CASE k # Len(q) + 1
    <3>1. k \in 1 .. Len(q)
      BY <2>1, <2>3
    <3> QED
      BY <1>1, <1>2, <1>3, <1>5, <3>1
  <2> QED
    BY <2>2, <2>3
<1>7. Len(u) = Len(t)
  BY <1>1, <1>2, <1>3, <1>5
<1>8. u = t
  BY <1>3, <1>5, <1>6, <1>7, SeqEqual
<1> QED
  BY <1>8 DEF r, s, t, u

\* A buffer less.
LEMMA ContentsTail ==
    ASSUME NEW B, NEW V, NEW d, Maps(d, B, V), NEW q \in Seq(B), q # <<>>
    PROVE  /\ Contents(d, q) # <<>> /\ Head(Contents(d, q)) = d[Head(q)]
           /\ Contents(d, Tail(q)) = Tail(Contents(d, q))
<1> DEFINE r == Tail(q)
           s == Contents(d, q)
           u == Contents(d, r)
           t == Tail(s)
<1>1. r \in Seq(B) /\ Len(r) = Len(q) - 1 /\ \A k \in 1 .. Len(r) : r[k] = q[k + 1]
  BY HeadTailProperties, Zenon
<1> HIDE DEF r
<1>2. s \in Seq(V) /\ Len(s) = Len(q) /\ \A k \in 1 .. Len(q) : s[k] = d[q[k]]
  BY ContentsAre, SMT
<1>3. u \in Seq(V) /\ Len(u) = Len(r) /\ \A k \in 1 .. Len(r) : u[k] = d[r[k]]
  BY <1>1, ContentsAre, SMT
<1> HIDE DEF s, u
<1>4. Len(q) \in Nat /\ Len(q) >= 1 /\ Head(q) = q[1]
  OBVIOUS
<1>5. s # <<>> /\ Head(s) = d[Head(q)]
  BY <1>2, <1>4
<1>6. t \in Seq(V) /\ Len(t) = Len(s) - 1 /\ \A k \in 1 .. Len(t) : t[k] = s[k + 1]
  BY <1>2, <1>5, HeadTailProperties, Zenon
<1> HIDE DEF t
<1>7. ASSUME NEW k \in 1 .. Len(u)
      PROVE  u[k] = t[k]
  <2>1. k \in 1 .. Len(r) /\ k \in 1 .. Len(t) /\ k + 1 \in 1 .. Len(q)
    BY <1>1, <1>2, <1>3, <1>4, <1>6
  <2> QED
    BY <1>1, <1>2, <1>3, <1>6, <2>1
<1>8. Len(u) = Len(t)
  BY <1>1, <1>2, <1>3, <1>6
<1>9. u = t
  BY <1>3, <1>6, <1>7, <1>8, SeqEqual
<1> QED
  BY <1>5, <1>9 DEF r, s, t, u

\* The pool has room for what play is filling.
LEMMA PoolHasRoom ==
    ASSUME TypeInv, PoolInv, RoomInv, build = "atomic", pc = "copy"
    PROVE  Len(Given) + Room <= Count * Room /\ Given \in Seq(0 .. Modulus - 1)
<1>1. /\ Room \in Nat /\ queue \in Seq(Buffers) /\ Len(queue) \in Nat
      /\ \A k \in 1 .. Len(queue) : queue[k] \in Buffers
      /\ driver \in {"win32", "dart", "ahi"} /\ num_buffers \in Nat
  BY PoolTypes
<1>2. Maps(data, Buffers, Seq(0 .. Modulus - 1)) /\ \A b \in Buffers : Len(data[b]) <= Room
  BY PoolTypes DEF RoomInv, Maps
<1>3. Given \in Seq(0 .. Modulus - 1) /\ Len(Given) <= Len(queue) * Room
  BY <1>1, <1>2, ContentsJoined DEF Given, Contents
<1>4. Len(queue) + 1 <= Count /\ Count \in Nat
  <2>1. Counters /\ done \in Nat /\ lost \in Nat /\ ready \in Int
    BY PoolAssumption DEF PoolInv, TypeInv, TypeOK
  <2>2. CASE driver = "win32"
    BY <1>1, <2>1, <2>2 DEF Counters, Count, Out
  <2>3. CASE driver = "dart"
    BY <1>1, <2>1, <2>3 DEF Counters, Count, Out, BUFFERCOUNT
  <2>4. CASE driver = "ahi"
    <3>1. Count = 2
      BY <2>4 DEF Count
    <3>2. Buffers = {0, 1}
      BY <3>1 DEF Buffers
    <3>3. next \in {0, 1}
      BY <3>2, PoolTypes
    <3>4. \A k \in 1 .. Len(queue) : queue[k] # next
      BY <2>1, <2>4 DEF Counters
    <3>5. ASSUME Len(queue) >= 2 PROVE FALSE
      <4>1. 1 \in 1 .. Len(queue) /\ 2 \in 1 .. Len(queue)
        BY <1>1, <3>5
      <4>2. queue[1] = queue[2]
        BY <1>1, <3>2, <3>3, <3>4, <4>1
      <4> QED
        BY <2>4, <4>1, <4>2 DEF RoomInv
    <3> QED
      BY <1>1, <3>1, <3>5
  <2> QED
    BY <1>1, <2>2, <2>3, <2>4
<1>5. PICK l \in Nat, c \in Nat : l = Len(queue) /\ c = Count /\ l + 1 <= c
  BY <1>1, <1>4
<1>6. l * Room + Room <= c * Room
  <2>1. PICK e \in Nat : c = l + 1 + e
    <3>1. c - (l + 1) \in Nat /\ c = l + 1 + (c - (l + 1))
      BY <1>5
    <3> QED
      BY <3>1
  <2>2. c * Room = l * Room + Room + e * Room /\ e * Room \in Nat /\ l * Room \in Nat
    BY <1>1, <2>1
  <2> QED
    BY <1>1, <2>2
<1>7. Len(Given) \in Nat /\ l * Room \in Nat /\ c * Room \in Nat
  BY <1>1, <1>3
<1> QED
  BY <1>1, <1>3, <1>5, <1>6, <1>7

\* What the queue of bytes stands for.
Held == Given \o Filled

LEMMA HeldType ==
    ASSUME TypeInv, RoomInv
    PROVE  /\ Held \in Seq(0 .. Modulus - 1) /\ Given \in Seq(0 .. Modulus - 1)
           /\ Filled \in Seq(0 .. Modulus - 1)
<1>1. /\ Maps(data, Buffers, Seq(0 .. Modulus - 1)) /\ queue \in Seq(Buffers) /\ Room \in Nat
      /\ \A b \in Buffers : Len(data[b]) <= Room
  BY PoolTypes DEF RoomInv, Maps
<1>2. Given \in Seq(0 .. Modulus - 1)
  BY <1>1, ContentsJoined DEF Given, Contents
<1>3. Filled \in Seq(0 .. Modulus - 1)
  BY PoolTypes
<1> QED
  BY <1>2, <1>3, ConcatProperties DEF Held

\* What play fills comes last.
LEMMA FillsHeld ==
    ASSUME TypeInv, TypeInv', PoolInv, RoomInv, RoomInv', build = "atomic", Fills,
           UNCHANGED Buffers
    PROVE  \E n \in Nat : /\ Held' = Held \o Bytes(sent, n) /\ sent' = (sent + n) % Modulus
                          /\ got' = got /\ Len(Held) + n <= Count * Room
<1>1. PICK n \in Nat : /\ data' = [data EXCEPT ![next] = Filled \o Bytes(sent, n)]
                       /\ sent' = (sent + n) % Modulus /\ Filled' = Filled \o Bytes(sent, n)
  BY DEF Fills
<1>2. pc = "copy" /\ queue' = queue /\ got' = got
  BY DEF Fills
<1>3. \A k \in 1 .. Len(queue) : queue[k] # next /\ data'[queue[k]] = data[queue[k]]
  <2>1. \A k \in 1 .. Len(queue) : queue[k] # next
    BY <1>2, FrontFree, PoolTypes DEF NeverOwned, Contains
  <2> QED
    BY <1>1, <2>1, PoolTypes
<1>4. Given' = Given
  <2>1. DOMAIN queue = 1 .. Len(queue)
    BY PoolTypes
  <2>2. Contents(data', queue') = Contents(data, queue)
    BY <1>2, <1>3, <2>1 DEF Contents
  <2> QED
    BY <2>2 DEF Contents, Given
<1>5. PICK x \in Seq(0 .. Modulus - 1), y \in Seq(0 .. Modulus - 1), z \in Seq(0 .. Modulus - 1) :
          x = Given /\ y = Filled /\ z = Bytes(sent, n) /\ Len(z) = n
  <2>1. sent \in Nat
    BY PoolTypes
  <2>2. Bytes(sent, n) \in Seq(0 .. Modulus - 1) /\ Len(Bytes(sent, n)) = n
    BY <2>1, BytesType
  <2> QED
    BY <2>2, HeldType
<1>6. Held' = Held \o Bytes(sent, n)
  <2>1. (x \o y) \o z = x \o (y \o z)
    <3> DEFINE S == 0 .. Modulus - 1
    <3>1. x \in Seq(S) /\ y \in Seq(S) /\ z \in Seq(S)
      OBVIOUS
    <3> HIDE DEF S
    <3> QED
      BY ONLY <3>1, Regroup
  <2> QED
    BY <1>1, <1>4, <1>5, <2>1 DEF Held
<1>7. Len(Held) + n <= Count * Room
  <2>1. Len(x) + Room <= Count * Room
    BY <1>2, <1>5, PoolHasRoom
  <2>2. Len(y \o z) <= Room
    <3>1. data'[next] = y \o z /\ next \in Buffers'
      BY <1>1, <1>5, PoolTypes
    <3> QED
      BY <3>1 DEF RoomInv
  <2>3. Len(y \o z) = Len(y) + Len(z) /\ Len(x \o y) = Len(x) + Len(y)
    BY ConcatProperties
  <2>4. Len(x) \in Nat /\ Len(y) \in Nat /\ Room \in Nat /\ Count \in Nat
    <3>1. num_buffers \in Nat /\ Room \in Nat /\ driver \in {"win32", "dart", "ahi"}
      BY PoolTypes
    <3>2. Count \in Nat
      BY ONLY <3>1 DEF Count, BUFFERCOUNT
    <3> QED
      BY <1>5, <3>1, <3>2
  <2>5. PICK c \in Nat : c = Count * Room
    BY <2>4
  <2>6. Held = x \o y
    BY <1>5 DEF Held
  <2> QED
    BY <1>5, <2>1, <2>2, <2>3, <2>4, <2>5, <2>6
<1> QED
  BY <1>1, <1>2, <1>6, <1>7

\* Giving a buffer to the device moves none of the bytes.
LEMMA GivesHeld ==
    ASSUME TypeInv, TypeInv', PoolInv, RoomInv, RoomInv', build = "atomic", Gives,
           UNCHANGED Buffers
    PROVE  Held' = Held
<1>1. /\ queue \in Seq(Buffers) /\ next \in Buffers /\ Len(queue) \in Nat
      /\ \A k \in 1 .. Len(queue) : queue[k] \in Buffers
  BY PoolTypes
<1>2. /\ Maps(data, Buffers, Seq(0 .. Modulus - 1)) /\ Maps(data', Buffers, Seq(0 .. Modulus - 1))
      /\ queue' = Append(queue, next) /\ data'[next] = Filled
  BY PoolTypes DEF Gives, TypeInv, TypeOK, Maps
<1>3. \A k \in 1 .. Len(queue) : data'[queue[k]] = data[queue[k]]
  <2>1. \A k \in 1 .. Len(queue) : queue[k] # next
    BY <1>1, FrontFree DEF Gives, NeverOwned, Contains
  <2> QED
    BY <1>1, <2>1 DEF Gives
<1>4. PICK s \in Seq(Seq(0 .. Modulus - 1)), x \in Seq(0 .. Modulus - 1) :
          s = Contents(data, queue) /\ x = Filled /\ Given = FlattenSeq(s)
  <2>1. Contents(data, queue) \in Seq(Seq(0 .. Modulus - 1))
    BY <1>1, <1>2, ContentsAre
  <2>2. Given = FlattenSeq(Contents(data, queue)) /\ Filled \in Seq(0 .. Modulus - 1)
    BY HeldType DEF Given, Contents
  <2> QED
    BY <2>1, <2>2
<1>5. Contents(data', queue') = Append(s, x)
  BY <1>1, <1>2, <1>3, <1>4, ContentsAppend
<1>6. Given' = Given \o x
  <2>1. Given' = FlattenSeq(Append(s, x))
    BY <1>5 DEF Given, Contents
  <2>2. FlattenSeq(Append(s, x)) = FlattenSeq(s) \o x
    BY FlattenAppend
  <2> QED
    BY <1>4, <2>1, <2>2
<1>7. Filled' = <<>> /\ Held \in Seq(0 .. Modulus - 1)
  BY HeldType DEF Gives
<1>8. \A h \in Seq(0 .. Modulus - 1) : h \o <<>> = h
  OBVIOUS
<1>9. Held' = Held \o <<>>
  BY <1>4, <1>6, <1>7 DEF Held
<1> QED
  BY <1>7, <1>8, <1>9

\* What the device plays goes first.
LEMMA PlaysHeld ==
    ASSUME TypeInv, TypeInv', RoomInv, RoomInv', Plays, UNCHANGED Buffers
    PROVE  /\ Held = data[Head(queue)] \o Held' /\ Held' \in Seq(0 .. Modulus - 1)
           /\ data[Head(queue)] \in Seq(0 .. Modulus - 1)
<1>1. /\ queue \in Seq(Buffers) /\ queue # <<>> /\ queue' = Tail(queue) /\ data' = data
      /\ Len(queue) \in Nat
      /\ \A k \in 1 .. Len(queue) : queue[k] \in Buffers
  BY PoolTypes DEF Plays
<1>2. Maps(data, Buffers, Seq(0 .. Modulus - 1)) /\ Given = FlattenSeq(Contents(data, queue))
  BY PoolTypes DEF Given, Contents, Maps
<1>3. PICK s \in Seq(Seq(0 .. Modulus - 1)) : s = Contents(data, queue)
  BY <1>1, <1>2, ContentsAre
<1>4. s # <<>> /\ Head(s) = data[Head(queue)]
  BY <1>1, <1>2, <1>3, ContentsTail
<1>5. Contents(data', queue') = Tail(s)
  <2>1. Contents(data, Tail(queue)) = Tail(Contents(data, queue))
    BY <1>1, <1>2, ContentsTail
  <2> QED
    BY <1>1, <1>3, <2>1, Zenon
<1>6. Given = Head(s) \o Given'
  <2>1. Given' = FlattenSeq(Tail(s))
    BY <1>5 DEF Given, Contents
  <2> QED
    BY <1>2, <1>3, <1>4, <2>1, FlattenTail
<1>7. PICK x \in Seq(0 .. Modulus - 1), y \in Seq(0 .. Modulus - 1), z \in Seq(0 .. Modulus - 1) :
          x = Head(s) /\ y = Given' /\ z = Filled'
  <2>1. Head(s) \in Seq(0 .. Modulus - 1)
    BY <1>4, HeadTailProperties
  <2>2. Given' \in Seq(0 .. Modulus - 1)
    <3>1. /\ Maps(data', Buffers, Seq(0 .. Modulus - 1)) /\ queue' \in Seq(Buffers) /\ Room \in Nat
          /\ \A b \in Buffers : Len(data'[b]) <= Room
      BY <1>1, <1>2, PoolTypes DEF TypeInv, TypeOK, RoomInv
    <3> QED
      BY <3>1, ContentsJoined DEF Given, Contents
  <2>3. Filled' \in Seq(0 .. Modulus - 1)
    BY HeldType DEF Plays
  <2> QED
    BY <2>1, <2>2, <2>3
<1>8. Held = (x \o y) \o z
  BY <1>6, <1>7 DEF Held, Plays
<1>9. (x \o y) \o z = x \o (y \o z) /\ y \o z \in Seq(0 .. Modulus - 1)
  <2> DEFINE S == 0 .. Modulus - 1
  <2>1. x \in Seq(S) /\ y \in Seq(S) /\ z \in Seq(S)
    OBVIOUS
  <2> HIDE DEF S
  <2>2. (x \o y) \o z = x \o (y \o z) /\ y \o z \in Seq(S)
    BY ONLY <2>1, Regroup, SMTT(30)
  <2> QED
    BY ONLY <2>2 DEF S
<1>10. Held' = y \o z
  BY <1>7 DEF Held
<1> QED
  BY <1>4, <1>7, <1>8, <1>9, <1>10, Zenon

-----------------------------------------------------------------------------
(* The refinement *)

\* The two halves of a joined sequence.
LEMMA Halves ==
    ASSUME NEW S, NEW x \in Seq(S), NEW y \in Seq(S)
    PROVE  /\ SubSeq(x \o y, 1, Len(x)) = x
           /\ SubSeq(x \o y, Len(x) + 1, Len(x \o y)) = y
<1> DEFINE z == x \o y
<1>1. /\ z \in Seq(S) /\ Len(z) = Len(x) + Len(y)
      /\ \A k \in 1 .. Len(x) + Len(y) : z[k] = IF k <= Len(x) THEN x[k] ELSE y[k - Len(x)]
  BY ConcatProperties
<1> HIDE DEF z
<1>2. PICK m \in Nat, n \in Nat : m = Len(x) /\ n = Len(y)
  OBVIOUS
<1>3. SubSeq(z, 1, m) = x
  <2> DEFINE u == SubSeq(z, 1, m)
  <2>1. u \in Seq(S) /\ Len(u) = m /\ \A k \in 1 .. m : u[k] = z[k]
    BY <1>1, <1>2
  <2> HIDE DEF u
  <2>2. Len(u) = Len(x) /\ \A k \in 1 .. Len(u) : u[k] = x[k]
    BY <1>1, <1>2, <2>1
  <2>3. u = x
    BY <2>1, <2>2, SeqEqual
  <2> QED
    BY <2>3 DEF u
<1>4. SubSeq(z, m + 1, m + n) = y
  <2> DEFINE u == SubSeq(z, m + 1, m + n)
  <2>1. u \in Seq(S) /\ Len(u) = n /\ \A k \in 1 .. n : u[k] = z[m + k]
    BY <1>1, <1>2
  <2> HIDE DEF u
  <2>2. Len(u) = Len(y) /\ \A k \in 1 .. Len(u) : u[k] = y[k]
    BY SMTT(30), <1>1, <1>2, <2>1
  <2>3. u = y
    BY <2>1, <2>2, SeqEqual
  <2> QED
    BY <2>3 DEF u
<1> QED
  BY <1>1, <1>2, <1>3, <1>4 DEF z

\* Each step of the pool is one of the queue or none.
LEMMA PoolQueueStep ==
    /\ TypeInv /\ TypeInv' /\ PoolInv /\ RoomInv /\ RoomInv' /\ PlaysStream /\ [Next]_vars
    => [Fifo!Next]_(Fifo!vars)
<1> SUFFICES ASSUME TypeInv, TypeInv', PoolInv, RoomInv, RoomInv', PlaysStream, [Next]_vars
             PROVE  [Fifo!Next]_(Fifo!vars)
  OBVIOUS
<1>1. UNCHANGED <<driver, build, limit, Buffers, Count>>
  <2>1. UNCHANGED setting
    BY DEF Next, Playing, Control, Callback, vars, setting, device, Submit, Call,
         Win32Play, Win32Copy, Win32Wait, Win32Write, Win32Advance, Win32Callback,
         Win32Modulo, DartPlay, DartWait, DartWrite, DartReady, DartStore,
         DartAdvance, DartCopy, DartCallback, DartCallbackError, DartCallbackStore,
         AhiPlay, AhiWait,
         AhiCopy, AhiSend, AhiAdvance, Complete, Deinit, Closed
  <2> QED
    BY <2>1 DEF setting, Buffers, Count
<1>2. Reliable' = Reliable
  BY <1>1 DEF Reliable
<1>3. CASE ~Reliable
  BY <1>2, <1>3 DEF Fifo!vars, IfReliable
<1>4. CASE Reliable
  <2>1. /\ build = "atomic" /\ lost = 0 /\ lost' = lost
        /\ sent \in Nat /\ got \in Nat /\ Modulus \in Nat \ {0}
        /\ got \in 0 .. Modulus - 1
    <3>1. /\ build = "atomic" /\ limit = 0 /\ lost \in Nat /\ lost' \in Nat
          /\ lost <= limit /\ lost' <= limit
      BY <1>1, <1>4, PoolAssumption DEF Reliable, RoomInv, TypeInv, TypeOK
    <3> QED
      BY <3>1, PoolTypes
  <2> DEFINE Step ==
          \/ /\ \E n \in 1 .. Count * Room - Len(Held) :
                  /\ Held' = Held \o Bytes(sent, n)
                  /\ sent' = (sent + n) % Modulus
             /\ got' = got
          \/ /\ \E n \in 1 .. Len(Held) :
                  /\ SubSeq(Held, 1, n) = Bytes(got, n)
                  /\ Held' = SubSeq(Held, n + 1, Len(Held))
                  /\ got' = (got + n) % Modulus
             /\ sent' = sent
          \/ UNCHANGED <<Held, sent, got>>
  <2>2. SUFFICES Step
    BY <1>1, <1>2, <1>4 DEF Fifo!Next, Fifo!Put, Fifo!Get, Fifo!vars, Fifo!Stream, IfReliable,
       Held, Bytes
  <2>3. CASE Fills
    <3>1. PICK n \in Nat : /\ Held' = Held \o Bytes(sent, n) /\ sent' = (sent + n) % Modulus
                           /\ got' = got /\ Len(Held) + n <= Count * Room
      BY <1>1, <2>1, <2>3, FillsHeld
    <3>2. Held \in Seq(0 .. Modulus - 1) /\ Len(Held) \in Nat
      BY HeldType
    <3>3. CASE n = 0
      <4>1. Bytes(sent, 0) \in Seq(0 .. Modulus - 1) /\ Len(Bytes(sent, 0)) = 0
        BY <2>1, BytesType
      <4>2. Bytes(sent, 0) = <<>>
        BY <4>1, EmptySeq
      <4>3. Held \o <<>> = Held
        BY <3>2
      <4>4. sent' = sent
        BY <3>1, <3>3, PoolTypes, NothingAdded
      <4> QED
        BY <3>1, <3>3, <4>2, <4>3, <4>4
    <3>4. CASE n > 0
      <4>1. Count * Room \in Int
        <5>1. Count \in Nat /\ Room \in Nat
          BY PoolTypes DEF Count, BUFFERCOUNT
        <5> QED
          BY <5>1
      <4>2. n \in 1 .. Count * Room - Len(Held)
        BY <3>1, <3>2, <3>4, <4>1
      <4> QED
        BY <3>1, <4>2
    <3>5. n = 0 \/ n > 0
      OBVIOUS
    <3> HIDE DEF Step
    <3> QED
      BY <3>3, <3>4, <3>5
  <2>4. CASE Gives
    <3>1. Held' = Held
      BY <1>1, <2>1, <2>4, GivesHeld
    <3> QED
      BY <2>4, <3>1 DEF Gives
  <2>5. CASE Plays
    <3>1. PICK x \in Seq(0 .. Modulus - 1), y \in Seq(0 .. Modulus - 1), n \in Nat :
            x = data[Head(queue)] /\ y = Held' /\ Held = x \o y /\ n = Len(x)
      <4>1. /\ Held = data[Head(queue)] \o Held'
            /\ data[Head(queue)] \in Seq(0 .. Modulus - 1)
            /\ Held' \in Seq(0 .. Modulus - 1)
        BY <1>1, <2>5, PlaysHeld
      <4>2. \A x \in Seq(0 .. Modulus - 1) : Len(x) \in Nat
        OBVIOUS
      <4> QED
        BY <4>1, <4>2, Zenon
    <3>2. x = Bytes(got, n) /\ got' = (got + n) % Modulus /\ sent' = sent
      BY <2>1, <2>5, <3>1 DEF Plays, PlaysStream
    <3>3. CASE n = 0
      <4>1. x = <<>> /\ Held' = Held
        <5>1. x = <<>>
          BY <3>1, <3>3, EmptySeq
        <5>2. <<>> \o y = y
          OBVIOUS
        <5> QED
          BY <3>1, <5>1, <5>2
      <4>2. got' = got
        BY <2>1, <3>2, <3>3, NothingAdded
      <4> QED
        BY <3>2, <4>1, <4>2
    <3>4. CASE n > 0
      <4>1. SubSeq(x \o y, 1, n) = x /\ SubSeq(x \o y, n + 1, Len(x \o y)) = y
        BY <3>1, Halves
      <4>2. n \in 1 .. Len(Held)
        <5>1. Len(x \o y) = Len(x) + Len(y) /\ Len(y) \in Nat
          BY ConcatProperties
        <5> QED
          BY <3>1, <3>4, <5>1
      <4>3. /\ SubSeq(Held, 1, n) = Bytes(got, n)
            /\ Held' = SubSeq(Held, n + 1, Len(Held))
        BY <3>1, <3>2, <4>1
      <4> QED
        BY <3>2, <4>2, <4>3
    <3>5. n = 0 \/ n > 0
      OBVIOUS
    <3> HIDE DEF Step
    <3> QED
      BY <3>3, <3>4, <3>5
  <2>6. CASE Rests
    <3>1. UNCHANGED <<Held, sent, got>>
      BY <2>6 DEF Rests, Held, Given
    <3> QED
      BY <3>1
  <2>7. Fills \/ Gives \/ Plays \/ Rests
    BY <2>1, SeenSteps
  <2> HIDE DEF Step
  <2> QED
    BY <2>3, <2>4, <2>5, <2>6, <2>7
<1> QED
  BY <1>3, <1>4

\* A pool of any number of buffers, filled by frames of any size, is a bounded
\* queue of bytes, for a device that takes every buffer (Win32, DART, AHI).
THEOREM PoolIsFifo == Spec => IsFifo
<1>1. Init /\ TypeInv => Fifo!Init
  <2> SUFFICES ASSUME Init, TypeInv PROVE Fifo!Init
    OBVIOUS
  <2>1. /\ data = [b \in Buffers |-> <<>>] /\ index = 0 /\ pc = "idle" /\ sent = 0 /\ got = 0
        /\ Maps(data, Buffers, Seq(0 .. Modulus - 1)) /\ next \in Buffers
        /\ queue \in Seq(Buffers) /\ Len(queue) \in Nat
    BY PoolTypes DEF Init, Maps
  <2>2. \A b \in Buffers : Len(data[b]) <= 0
    BY <2>1
  <2>3. Given \in Seq(0 .. Modulus - 1) /\ Len(Given) <= Len(queue) * 0
    BY <2>1, <2>2, ContentsJoined DEF Given, Contents
  <2>4. Given = <<>>
    <3>1. Len(Given) = 0
      BY <2>1, <2>3
    <3> QED
      BY <2>3, <3>1, EmptySeq
  <2>5. Filled = <<>>
    <3>1. data[next] = <<>> /\ SubSeq(data[next], 1, 0) = <<>>
      BY <2>1, PoolTypes
    <3> QED
      BY <2>1, <3>1 DEF Filled
  <2>6. Given \o Filled = <<>>
    BY <2>4, <2>5
  <2> QED
    BY <2>1, <2>6 DEF Fifo!Init, IfReliable
<1>2. Init /\ TypeInv => RoomInv
  <2> SUFFICES ASSUME Init, TypeInv PROVE RoomInv
    OBVIOUS
  <2>1. /\ Room \in Nat \ {0} /\ limit \in Nat /\ lost = 0 /\ len = 0 /\ index = 0
        /\ pc = "idle" /\ \A b \in Buffers : data[b] = <<>>
    BY PoolAssumption DEF Init
  <2>2. driver = "ahi" => queue = <<>>
    BY DEF Init
  <2> QED
    BY <2>1, <2>2 DEF RoomInv
<1> QED
  BY <1>1, <1>2, PoolCorrect, RoomStep, PoolQueueStep, StreamPlayed, PTL DEF Spec, IsFifo, Fifo!Spec
=============================================================================
