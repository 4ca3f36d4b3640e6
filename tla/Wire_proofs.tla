----------------------------- MODULE Wire_proofs -----------------------------
(***************************************************************************)
(* What the broadcast threads send, for any sizes of packets and frames,   *)
(* percentages, minima of parity, lengths of the number space and hosts:   *)
(* the invariants of StreamWire in the four settings MCPlatform has.       *)
(***************************************************************************)
EXTENDS MCPlatform, FiniteSetTheorems, SequenceTheorems, TLAPS

(* A step of the suite is one of the component it looks at, or leaves it.  *)
LEMMA ComponentSteps ==
    ASSUME [Steps]_allVars
    PROVE  /\ focus' = focus
           /\ [focus = "kms" /\ Kms!Next]_kmsVars
           /\ \/ focus = "wlr" /\ Wlr!Next
              \/ focus = "wlrStart" /\ WlrStart!Next
              \/ UNCHANGED wlrVars
           /\ [focus = "dxgi" /\ Dxgi!Next]_dxgiVars
           /\ \/ focus = "convert" /\ Convert!Next
              \/ focus = "fbc" /\ Fbc!Next
              \/ focus = "nvenc" /\ Nvenc!Next
              \/ UNCHANGED convertVars
           /\ \/ focus = "wire" /\ Wire!Next
              \/ focus = "audioWire" /\ AudioWire!Next
              \/ focus = "control" /\ Control!Next
              \/ focus = "send" /\ Send!Next
              \/ focus = "qos" /\ Qos!Next
              \/ UNCHANGED wireVars
           /\ [focus = "audio" /\ Audio!Next]_audioVars
           /\ \/ focus = "pointer" /\ Pointer!Next
              \/ focus = "pad" /\ Rumble!Next
              \/ UNCHANGED pointerVars
  BY DEF Steps, OnlyFocus, allVars


-----------------------------------------------------------------------------
(* StreamWire.  How many packets, blocks and parity shards a frame has.    *)
LEMMA Ceiling ==
    ASSUME NEW n \in Nat, NEW z \in Nat \ {0}
    PROVE  /\ Wire!CeilDiv(n, z) \in Nat
           /\ n <= Wire!CeilDiv(n, z) * z /\ Wire!CeilDiv(n, z) * z < n + z
           /\ n > 0 => Wire!CeilDiv(n, z) > 0
  <1>1. PICK q : q = (n + z - 1) \div z
    OBVIOUS
  <1>2. q \in Int /\ z * q <= n + z - 1 /\ n + z - 1 < z * q + z
    BY <1>1
  <1>3. q \in Nat
    BY <1>2
  <1>4. q * z = z * q /\ q * z \in Nat
    BY <1>3
  <1>5. n > 0 => q > 0
    BY <1>2, <1>3
  <1>6. Wire!CeilDiv(n, z) = q
    BY <1>1 DEF Wire!CeilDiv
  <1> QED BY <1>2, <1>3, <1>4, <1>5, <1>6

(* The only number of whole units that is large enough.                    *)
LEMMA CeilingIs ==
    ASSUME NEW n \in Nat, NEW z \in Nat \ {0}, NEW c \in Nat, n <= c * z, c * z < n + z
    PROVE  Wire!CeilDiv(n, z) = c
  <1>1. PICK q : q = Wire!CeilDiv(n, z)
    OBVIOUS
  <1>2. q \in Nat /\ n <= q * z /\ q * z < n + z
    BY <1>1, Ceiling
  <1>3. ~(q < c)
    <2> SUFFICES ASSUME q + 1 <= c PROVE FALSE
      BY <1>2
    <2>1. (q + 1) * z <= c * z /\ (q + 1) * z = q * z + z
      BY <1>2
    <2> QED BY <1>2, <2>1
  <1>4. ~(c < q)
    <2> SUFFICES ASSUME c + 1 <= q PROVE FALSE
      BY <1>2
    <2>1. (c + 1) * z <= q * z /\ (c + 1) * z = c * z + z
      BY <1>2
    <2> QED BY <1>2, <2>1
  <1> QED BY <1>1, <1>2, <1>3, <1>4

(* The parity of a block, and what the client counts from its percentage.  *)
Fits(data, f) == f # 0 => data * (100 + f) <= 25500
BlockOf(bytes, data, f, l, e) ==
    /\ data \in Nat \ {0} /\ f \in 0 .. 255 /\ l \in 0 .. 2
    /\ Wire!CeilDiv(bytes, Wire!Blocksize) = data
    /\ Fits(data, f) /\ e = Wire!Encode(bytes, f, l)
Counts(data, e) ==
    /\ e.data = data /\ e.parity \in Nat /\ e.percentage < 256
    /\ (data * e.percentage + 99) \div 100 = e.parity
    /\ e.parity > 0 => data + e.parity <= 255
LEMMA ParityCounts ==
    ASSUME NEW bytes, NEW data, NEW f, NEW l, NEW e, BlockOf(bytes, data, f, l, e)
    PROVE  Counts(data, e)
  <1>0. /\ data \in Nat \ {0} /\ f \in 0 .. 255 /\ l \in 0 .. 2
        /\ Wire!CeilDiv(bytes, Wire!Blocksize) = data
        /\ Fits(data, f) /\ e = Wire!Encode(bytes, f, l)
    BY DEF BlockOf
  <1> SUFFICES /\ e.data = data /\ e.parity \in Nat /\ e.percentage < 256
               /\ (data * e.percentage + 99) \div 100 = e.parity
               /\ e.parity > 0 => data + e.parity <= 255
    BY DEF Counts
  <1>9. data \in Nat \ {0} /\ f \in 0 .. 255 /\ l \in 0 .. 2
    BY <1>0
  <1>1. PICK p, usual : p = data * f /\ usual = (p + 99) \div 100
    OBVIOUS
  <1>2. p \in Nat /\ usual \in Nat /\ 100 * usual <= p + 99 /\ p + 99 < 100 * usual + 100
    BY <1>0, <1>1
  <1>3. PICK q : q = (100 * l) \div data
    OBVIOUS
  <1>4. e = [data |-> data, parity |-> IF usual < l /\ f # 0 THEN l ELSE usual,
             percentage |-> IF usual < l /\ f # 0 THEN q ELSE f]
    BY <1>0, <1>1, <1>3 DEF Wire!Encode
  <1>5. CASE usual < l /\ f # 0
    <2>1. e.data = data /\ e.parity = l /\ e.percentage = q
      BY <1>0, <1>4, <1>5
    <2>2. l \in {1, 2} /\ usual \in {0, 1} /\ p <= 100
      BY <1>0, <1>2, <1>5
    <2>3. data <= p
      <3>1. data * f >= data
        BY <1>0, <1>5
      <3> QED BY <1>0, <1>1, <3>1
    <2>4. data \in 1 .. 100
      BY <1>0, <1>2, <2>2, <2>3
    <2>5. usual = 1 /\ l = 2
      BY <1>0, <1>2, <1>5, <2>2, <2>3
    <2>6. q \in Nat /\ data * q <= 200 /\ 200 < data * q + data
      BY <1>0, <1>3, <2>4, <2>5
    <2>7. PICK m : m = data * q
      OBVIOUS
    <2>8. m \in Nat /\ (m + 99) \div 100 = 2
      BY <1>0, <2>4, <2>6, <2>7
    <2>9. q <= data * q
      BY <1>0, <2>4, <2>6
    <2> QED BY <2>1, <2>4, <2>5, <2>6, <2>7, <2>8, <2>9
  <1>6. CASE ~(usual < l /\ f # 0)
    <2>1. e.data = data /\ e.parity = usual /\ e.percentage = f
      BY <1>0, <1>4, <1>6
    <2>2. f = 0 => usual = 0
      BY <1>0, <1>1
    <2>3. f # 0 => data + usual <= 255
      <3> SUFFICES ASSUME f # 0 PROVE data + usual <= 255
        OBVIOUS
      <3>1. data * (100 + f) = 100 * data + p
        BY <1>0, <1>1
      <3>2. data * (100 + f) <= 25500
        BY <1>0 DEF Fits
      <3> QED BY <1>0, <1>2, <3>1, <3>2
    <2> QED BY <1>9, <1>1, <1>2, <2>1, <2>2, <2>3
  <1> QED BY <1>5, <1>6

LEMMA OneMore ==
    ASSUME NEW x \in Nat, NEW y \in Nat, NEW z \in Nat, x + 1 <= y
    PROVE  x * z + z <= y * z
  <1>1. PICK g : g = y - (x + 1)
    OBVIOUS
  <1>2. g \in Nat /\ y = x + 1 + g
    BY <1>1
  <1>3. g * z \in Nat /\ y * z = x * z + z + g * z
    BY <1>2
  <1> QED BY <1>2, <1>3

(* A frame is cut at whole packets, the rest of it is the last block.      *)
Splits(el, t, z, c) ==
    /\ el \in Nat \ {0} /\ t \in Nat \ {0} /\ z \in Nat /\ z >= 3
    /\ t <= el * z /\ el * z < t + z
    /\ c \in 1 .. 4 /\ (c > 1 => t > (c - 1) * (71 * z))
SplitInto(el, t, z, c, k, m) ==
    /\ k \in Nat \ {0} /\ m \in Nat \ {0}
    /\ Wire!CeilDiv(k * z, z) = k
    /\ Wire!CeilDiv(t - (c - 1) * (k * z), z) = m
    /\ \A d \in Nat : t <= c * (d * z) => k <= d /\ m <= d
    /\ c = 4 /\ el <= 4080 => k < 1024 /\ m < 1024

LEMMA EvenSplit ==
    ASSUME NEW el, NEW t, NEW z, NEW c, Splits(el, t, z, c),
           NEW k, k = Wire!CeilDiv(t \div c, z), NEW m, m = el - (c - 1) * k
    PROVE  SplitInto(el, t, z, c, k, m)
  <1>s. /\ el \in Nat \ {0} /\ t \in Nat \ {0} /\ z \in Nat /\ z >= 3
        /\ t <= el * z /\ el * z < t + z
        /\ c \in 1 .. 4 /\ (c > 1 => t > (c - 1) * (71 * z))
    BY DEF Splits
  <1>1. PICK u : u = t \div c
    OBVIOUS
  <1>2. u \in Nat /\ c * u <= t /\ t < c * u + c
    <2>1. CASE c = 1
      BY <1>s, <1>1, <2>1
    <2>2. CASE c = 2
      BY <1>s, <1>1, <2>2
    <2>3. CASE c = 3
      BY <1>s, <1>1, <2>3
    <2>4. CASE c = 4
      BY <1>s, <1>1, <2>4
    <2> QED BY <1>s, <2>1, <2>2, <2>3, <2>4
  <1>0. z \in Nat \ {0} /\ k = Wire!CeilDiv(u, z)
    BY <1>s, <1>1
  <1>3. k \in Nat /\ u <= k * z /\ k * z < u + z
    BY <1>s, <1>0, <1>2, Ceiling
  <1>4. PICK kz, ez : kz = k * z /\ ez = el * z
    OBVIOUS
  <1>5. kz \in Nat /\ ez \in Nat /\ u <= kz /\ kz < u + z /\ t <= ez /\ ez < t + z
    <2>0. k \in Nat /\ z \in Nat /\ el \in Nat
      BY <1>s, <1>3
    <2>1. kz \in Nat /\ ez \in Nat
      BY <2>0, <1>4
    <2>2. u <= kz /\ kz < u + z
      BY <1>3, <1>4
    <2>3. t <= ez /\ ez < t + z
      BY <1>s, <1>4
    <2> QED BY <2>1, <2>2, <2>3
  <1>6. u > 0 /\ kz > 0
    <2>1. CASE c = 1
      BY <1>s, <1>2, <1>5, <2>1
    <2>2. CASE c = 2
      BY <1>s, <1>2, <1>5, <2>2
    <2>3. CASE c = 3
      BY <1>s, <1>2, <1>5, <2>3
    <2>4. CASE c = 4
      BY <1>s, <1>2, <1>5, <2>4
    <2> QED BY <1>s, <2>1, <2>2, <2>3, <2>4
  <1>7. k > 0
    BY <1>s, <1>3, <1>4, <1>6
  <1>8. PICK r : r = t - (c - 1) * kz
    OBVIOUS
  <1>9. r \in Nat /\ r > 0 /\ r <= u + c - 1
    <2>1. CASE c = 1
      BY <1>s, <1>2, <1>5, <1>8, <2>1
    <2>2. CASE c = 2
      BY <1>s, <1>2, <1>5, <1>8, <2>2
    <2>3. CASE c = 3
      BY <1>s, <1>2, <1>5, <1>8, <2>3
    <2>4. CASE c = 4
      BY <1>s, <1>2, <1>5, <1>8, <2>4
    <2> QED BY <1>s, <2>1, <2>2, <2>3, <2>4
  <1>10. m \in Int /\ m * z = ez - (c - 1) * kz
    <2>1. CASE c = 1
      <3>1. m = el
        BY <1>s, <1>3, <2>1
      <3>2. (c - 1) * kz = 0 /\ ez \in Nat
        BY <1>s, <1>5, <2>1
      <3> QED BY <1>s, <1>4, <3>1, <3>2
    <2>2. CASE c = 2
      BY <1>s, <1>3, <1>4, <2>2
    <2>3. CASE c = 3
      BY <1>s, <1>3, <1>4, <2>3
    <2>4. CASE c = 4
      BY <1>s, <1>3, <1>4, <2>4
    <2> QED BY <1>s, <2>1, <2>2, <2>3, <2>4
  <1>11. PICK mz : mz = m * z
    OBVIOUS
  <1>12. mz \in Int /\ r <= mz /\ mz < r + z
    <2>1. PICK left : left = (c - 1) * kz
      OBVIOUS
    <2>2. left \in Int
      BY <1>s, <1>5, <2>1
    <2> QED BY <1>s, <1>5, <1>8, <1>9, <1>10, <1>11, <2>1, <2>2
  <1>13. m > 0
    <2> SUFFICES ASSUME m <= 0 PROVE FALSE
      BY <1>s, <1>10
    <2>1. m * z <= 0
      BY <1>s, <1>10
    <2> QED BY <1>s, <1>9, <1>11, <1>12, <2>1
  <1>14. Wire!CeilDiv(k * z, z) = k
    BY <1>s, <1>3, <1>4, <1>5, CeilingIs
  <1>15. Wire!CeilDiv(r, z) = m
    BY <1>s, <1>9, <1>10, <1>11, <1>12, <1>13, CeilingIs
  <1>16. ASSUME NEW d \in Nat, t <= c * (d * z) PROVE k <= d /\ m <= d
    <2>1. PICK dz : dz = d * z
      OBVIOUS
    <2>2. dz \in Nat /\ t <= c * dz
      BY <1>s, <1>16, <2>1
    <2>3. u <= dz
      <3>1. CASE c = 1
        BY <1>s, <1>2, <2>2, <3>1
      <3>2. CASE c = 2
        BY <1>s, <1>2, <2>2, <3>2
      <3>3. CASE c = 3
        BY <1>s, <1>2, <2>2, <3>3
      <3>4. CASE c = 4
        BY <1>s, <1>2, <2>2, <3>4
      <3> QED BY <1>s, <3>1, <3>2, <3>3, <3>4
    <2>4. k <= d
      <3> SUFFICES ASSUME d + 1 <= k PROVE FALSE
        BY <1>s, <1>3
      <3>1. (d + 1) * z <= k * z
        BY <1>s, <1>3
      <3>2. (d + 1) * z = d * z + z
        BY <1>s
      <3>3. dz + z <= kz
        BY <1>s, <1>4, <2>1, <3>1, <3>2
      <3> QED BY <1>s, <1>2, <1>5, <2>2, <2>3, <3>3
    <2>5. r <= dz
      <3>1. CASE k = d
        <4>1. kz = dz
          BY <1>s, <1>4, <2>1, <3>1
        <4>2. CASE c = 1
          BY <1>s, <1>5, <1>8, <2>2, <4>1, <4>2
        <4>3. CASE c = 2
          BY <1>s, <1>5, <1>8, <2>2, <4>1, <4>3
        <4>4. CASE c = 3
          BY <1>s, <1>5, <1>8, <2>2, <4>1, <4>4
        <4>5. CASE c = 4
          BY <1>s, <1>5, <1>8, <2>2, <4>1, <4>5
        <4> QED BY <1>s, <4>2, <4>3, <4>4, <4>5
      <3>2. CASE k + 1 <= d
        <4>3. kz + z <= dz
          BY <1>s, <1>3, <1>4, <2>1, <3>2, OneMore
        <4> QED BY <1>s, <1>2, <1>5, <1>9, <2>2, <4>3
      <3> QED BY <1>s, <1>3, <2>4, <3>1, <3>2
    <2>6. m <= d
      <3> SUFFICES ASSUME d + 1 <= m PROVE FALSE
        BY <1>s, <1>10
      <3>1. (d + 1) * z <= m * z
        BY <1>s, <1>10
      <3>2. (d + 1) * z = d * z + z
        BY <1>s
      <3>3. dz + z <= mz
        BY <1>s, <1>11, <2>1, <3>1, <3>2
      <3> QED BY <1>s, <1>9, <1>12, <2>2, <2>5, <3>3
    <2> QED BY <1>s, <2>4, <2>6
  <1>17. ASSUME c = 4, el <= 4080 PROVE k < 1024 /\ m < 1024
    <2>1. el * z <= 4080 * z
      BY <1>s, <1>17
    <2>2. 4 * u <= 4080 * z
      BY <1>s, <1>2, <1>4, <1>5, <1>17, <2>1
    <2>6. u <= 1020 * z
      BY <1>s, <1>2, <2>2
    <2>7. kz < 1021 * z
      BY <1>s, <1>2, <1>5, <2>6
    <2>8. r <= u + 3
      BY <1>s, <1>2, <1>9, <1>17
    <2>3. kz < 1021 * z /\ mz < 1022 * z
      BY <1>s, <1>2, <1>9, <1>12, <2>6, <2>7, <2>8
    <2>4. ~(1024 <= k)
      <3> SUFFICES ASSUME 1024 <= k PROVE FALSE
        OBVIOUS
      <3>1. 1024 * z <= k * z
        BY <1>s, <1>3
      <3> QED BY <1>s, <1>4, <1>5, <2>3, <3>1
    <2>5. ~(1024 <= m)
      <3> SUFFICES ASSUME 1024 <= m PROVE FALSE
        OBVIOUS
      <3>1. 1024 * z <= m * z
        BY <1>s, <1>10
      <3> QED BY <1>s, <1>11, <1>12, <2>3, <3>1
    <2>9. k \in Int /\ m \in Int
      BY <1>3, <1>10
    <2> QED BY <2>4, <2>5, <2>9
  <1>18. k \in Nat \ {0} /\ m \in Nat \ {0}
    <2>1. k \in Nat /\ m \in Int
      BY <1>3, <1>10
    <2> QED BY <1>7, <1>13, <2>1
  <1>19. Wire!CeilDiv(t - (c - 1) * (k * z), z) = m
    BY <1>4, <1>8, <1>15
  <1> QED BY <1>14, <1>16, <1>17, <1>18, <1>19 DEF SplitInto

(* A frame as it is sent: el packets in c blocks, all but the last of k.   *)
Cut(n, f, c, g, k, el) ==
    /\ c \in 1 .. 4 /\ g \in {0, f}
    /\ \A x \in 0 .. c - 1 : Wire!CeilDiv(Wire!BlockBytes(n, f, x), Wire!Blocksize)
                                = IF x = c - 1 THEN el - (c - 1) * k ELSE k
    /\ k \in Nat \ {0} /\ el \in Nat \ {0} /\ el - (c - 1) * k \in Nat \ {0}
    /\ c > 1 => k < 1024
    /\ el - (c - 1) * k < 1024
    /\ Fits(k, g) /\ Fits(el - (c - 1) * k, g)
    /\ (el - 1) * PacketBytes + Wire!LastPayloadLen(n) - FrameHeader = n

LEMMA FrameCut ==
    ASSUME NEW n \in WireSizes, NEW f \in Percents,
           NEW c, c = Wire!Blocks(n, f).count, NEW g, g = Wire!Blocks(n, f).fec
    PROVE  \E k, el : Cut(n, f, c, g, k, el)
  <1>1. /\ n \in Nat /\ f \in 1 .. 255 /\ PacketBytes \in Nat \ {0} /\ PacketHeader \in Nat
        /\ FrameHeader \in Nat \ {0} /\ n + FrameHeader <= 4080 * PacketBytes /\ PacketBytes + PacketHeader >= 3
    BY WireAssumption
  <1>2. PICK z, el, t : z = PacketBytes + PacketHeader /\ el = Wire!CeilDiv(FrameHeader + n, PacketBytes)
                        /\ t = el * PacketHeader + FrameHeader + n
    OBVIOUS
  <1>3. z \in Nat \ {0} /\ z >= 3 /\ Wire!Blocksize = z /\ Wire!Total(n) = t
    BY <1>1, <1>2 DEF Wire!Blocksize, Wire!Total, Wire!Elements
  <1>4. /\ el \in Nat \ {0} /\ FrameHeader + n <= el * PacketBytes
        /\ el * PacketBytes < FrameHeader + n + PacketBytes
    <2>1. FrameHeader + n \in Nat /\ FrameHeader + n > 0
      BY <1>1
    <2> QED BY <1>1, <1>2, <2>1, Ceiling
  <1>5. t \in Nat \ {0} /\ t <= el * z /\ el * z < t + z
    <2>1. PICK a, b : a = el * PacketHeader /\ b = el * PacketBytes
      OBVIOUS
    <2>2. a \in Nat /\ b \in Nat /\ el * z = b + a
      BY <1>1, <1>2, <1>4, <2>1
    <2> QED BY <1>1, <1>2, <1>4, <2>1, <2>2
  <1>6. el <= 4080
    <2> SUFFICES ASSUME 4081 <= el PROVE FALSE
      BY <1>4
    <2>1. 4081 * PacketBytes <= el * PacketBytes
      BY <1>1, <1>4
    <2>2. el * PacketBytes < 4081 * PacketBytes
      BY <1>1, <1>4
    <2> QED BY <1>1, <1>4, <2>1, <2>2
  <1>7. (el - 1) * PacketBytes + Wire!LastPayloadLen(n) - FrameHeader = n
    <2>1. PICK w, q, rest : w = FrameHeader + n /\ q = w \div PacketBytes /\ rest = w % PacketBytes
      OBVIOUS
    <2>2. /\ w \in Nat /\ q \in Nat /\ rest \in Nat /\ rest < PacketBytes
          /\ w = PacketBytes * q + rest
      BY <1>1, <2>1
    <2>3. Wire!LastPayloadLen(n) = IF rest = 0 THEN PacketBytes ELSE rest
      <3>1. (n + FrameHeader) % PacketBytes = rest
        BY <1>1, <2>1
      <3> QED BY <3>1 DEF Wire!LastPayloadLen
    <2>4. CASE rest = 0
      <3>1. Wire!CeilDiv(w, PacketBytes) = q
        <4>1. q * PacketBytes = w
          BY <1>1, <2>2, <2>4
        <4> QED BY <1>1, <2>2, <4>1, CeilingIs
      <3>2. el = q
        BY <1>2, <2>1, <3>1
      <3>3. (el - 1) * PacketBytes = PacketBytes * q - PacketBytes
        BY <1>1, <2>2, <3>2
      <3>4. (el - 1) * PacketBytes = w - PacketBytes
        BY <1>1, <2>2, <2>4, <3>3
      <3>5. Wire!LastPayloadLen(n) = PacketBytes
        BY <2>3, <2>4
      <3> QED BY <1>1, <2>1, <3>4, <3>5
    <2>5. CASE rest # 0
      <3>1. Wire!CeilDiv(w, PacketBytes) = q + 1
        <4>1. (q + 1) * PacketBytes = PacketBytes * q + PacketBytes
          BY <1>1, <2>2
        <4>2. w <= (q + 1) * PacketBytes /\ (q + 1) * PacketBytes < w + PacketBytes
          BY <1>1, <2>2, <2>5, <4>1
        <4> QED BY <1>1, <2>2, <4>2, CeilingIs
      <3>2. el - 1 = q
        BY <1>2, <2>1, <2>2, <3>1
      <3>3. (el - 1) * PacketBytes = PacketBytes * q
        BY <1>1, <2>2, <3>2
      <3> QED BY <1>1, <2>1, <2>2, <2>3, <2>5, <3>3
    <2> QED BY <2>4, <2>5
  <1>8. PICK d : d = 25500 \div (100 + f)
    OBVIOUS
  <1>9. d \in Nat /\ d >= 71 /\ d * (100 + f) <= 25500
    <2>1. PICK y : y = 100 + f
      OBVIOUS
    <2>2. y \in 101 .. 355 /\ d = 25500 \div y
      BY <1>1, <1>8, <2>1
    <2>3. d \in Int /\ y * d <= 25500 /\ 25500 < y * d + y
      BY <2>2
    <2>4. ~(d <= 70)
      <3> SUFFICES ASSUME d <= 70 PROVE FALSE
        OBVIOUS
      <3>1. y * d <= y * 70
        BY <2>2, <2>3
      <3> QED BY <2>2, <2>3, <3>1
    <2> QED BY <2>1, <2>2, <2>3, <2>4
  <1>10. PICK most, needed : most = d * z /\ needed = Wire!CeilDiv(t, most)
    OBVIOUS
  <1>11. most \in Nat \ {0} /\ most >= 71 * z
    <2>1. d * z >= 71 * z
      BY <1>3, <1>9
    <2> QED BY <1>3, <1>9, <1>10, <2>1
  <1>12. needed \in Nat \ {0} /\ t <= needed * most /\ needed * most < t + most
    <2>1. t \in Nat /\ t > 0 /\ most \in Nat \ {0} /\ needed = Wire!CeilDiv(t, most)
      BY <1>5, <1>10, <1>11
    <2> QED BY <2>1, Ceiling
  <1>13. Wire!Blocks(n, f) = IF needed > 4 THEN [count |-> 4, fec |-> 0] ELSE [count |-> needed, fec |-> f]
    BY <1>3, <1>8, <1>10 DEF Wire!Blocks, Wire!DATA_SHARDS_MAX, Wire!MAX_FEC_BLOCKS
  <1>14. c \in 1 .. 4 /\ g \in {0, f} /\ (needed > 4 => c = 4 /\ g = 0) /\ (needed <= 4 => c = needed /\ g = f)
    BY <1>12, <1>13
  <1>15. c > 1 => t > (c - 1) * (71 * z)
    <2>1. CASE needed > 4
      <3>1. 5 * most <= needed * most
        BY <1>11, <1>12, <2>1
      <3> QED BY <1>3, <1>5, <1>11, <1>12, <1>14, <2>1, <3>1
    <2>2. CASE needed <= 4
      <3>1. CASE needed = 1
        BY <1>14, <3>1
      <3>2. CASE needed = 2
        BY <1>3, <1>5, <1>11, <1>12, <1>14, <3>2
      <3>3. CASE needed = 3
        BY <1>3, <1>5, <1>11, <1>12, <1>14, <3>3
      <3>4. CASE needed = 4
        BY <1>3, <1>5, <1>11, <1>12, <1>14, <3>4
      <3> QED BY <1>12, <2>2, <3>1, <3>2, <3>3, <3>4
    <2> QED BY <1>12, <2>1, <2>2
  <1>16. PICK k, m : k = Wire!CeilDiv(t \div c, z) /\ m = el - (c - 1) * k
    OBVIOUS
  <1>26. Splits(el, t, z, c)
    BY <1>3, <1>4, <1>5, <1>14, <1>15 DEF Splits
  <1>27. SplitInto(el, t, z, c, k, m)
    BY <1>16, <1>26, EvenSplit
  <1>17. /\ k \in Nat \ {0} /\ m \in Nat \ {0}
         /\ Wire!CeilDiv(k * z, z) = k
         /\ Wire!CeilDiv(t - (c - 1) * (k * z), z) = m
         /\ \A y \in Nat : t <= c * (y * z) => k <= y /\ m <= y
         /\ c = 4 /\ el <= 4080 => k < 1024 /\ m < 1024
    BY <1>27 DEF SplitInto
  <1>18. \A x \in 0 .. c - 1 : Wire!CeilDiv(Wire!BlockBytes(n, f, x), Wire!Blocksize)
                                  = IF x = c - 1 THEN m ELSE k
    <2> SUFFICES ASSUME NEW x \in 0 .. c - 1
                 PROVE  Wire!CeilDiv(Wire!BlockBytes(n, f, x), z) = IF x = c - 1 THEN m ELSE k
      BY <1>3
    <2>1. Wire!BlockBytes(n, f, x) = IF x = c - 1 THEN t - (c - 1) * (k * z) ELSE k * z
      BY <1>3, <1>16 DEF Wire!BlockBytes
    <2> QED BY <1>17, <2>1
  <1>19. needed <= 4 => k <= d /\ m <= d
    BY <1>9, <1>10, <1>12, <1>14, <1>17
  <1>20. d <= 252
    BY <1>1, <1>8
  <1>21. k < 1024 /\ m < 1024
    <2>1. CASE needed > 4
      BY <1>6, <1>14, <1>17, <2>1
    <2>2. CASE needed <= 4
      BY <1>9, <1>17, <1>19, <1>20, <2>2
    <2> QED BY <1>12, <2>1, <2>2
  <1>22. g # 0 => k * (100 + g) <= 25500 /\ m * (100 + g) <= 25500
    <2> SUFFICES ASSUME g # 0 PROVE k * (100 + f) <= 25500 /\ m * (100 + f) <= 25500
      BY <1>14
    <2>1. k <= d /\ m <= d
      BY <1>12, <1>14, <1>19
    <2>2. k * (100 + f) <= d * (100 + f)
      BY <1>1, <1>9, <1>17, <2>1
    <2>3. m * (100 + f) <= d * (100 + f)
      BY <1>1, <1>9, <1>17, <2>1
    <2> QED BY <1>1, <1>9, <1>17, <2>2, <2>3
  <1>23. el - (c - 1) * k = m
    BY <1>16
  <1>24. /\ k \in Nat \ {0} /\ el \in Nat \ {0} /\ m \in Nat \ {0}
         /\ (c > 1 => k < 1024) /\ m < 1024
         /\ Fits(k, g) /\ Fits(m, g)
    BY <1>4, <1>17, <1>21, <1>22 DEF Fits
  <1>25. c \in 1 .. 4 /\ g \in {0, f}
    BY <1>14
  <1>28. \A x \in 0 .. c - 1 : Wire!CeilDiv(Wire!BlockBytes(n, f, x), Wire!Blocksize)
                                  = IF x = c - 1 THEN el - (c - 1) * k ELSE k
    BY <1>18, <1>23
  <1>29. /\ el - (c - 1) * k \in Nat \ {0} /\ el - (c - 1) * k < 1024
         /\ Fits(k, g) /\ Fits(el - (c - 1) * k, g)
    BY <1>23, <1>24
  <1> QED BY <1>7, <1>24, <1>25, <1>28, <1>29 DEF Cut

(* What is on the wire: each block is the one the frame, the percentage    *)
(* and the minimum give, it goes on where the one before it ended, and the *)
(* numbers of the shards it took are behind the counter.                   *)
BlockOk(b, f, l) ==
    /\ b.size \in WireSizes /\ b.of = Wire!Blocks(b.size, f).count
    /\ b.block \in 0 .. b.of - 1 /\ b.last = Wire!LastPayloadLen(b.size)
    /\ \E e : /\ e = Wire!Encode(Wire!BlockBytes(b.size, f, b.block), Wire!Blocks(b.size, f).fec, l)
              /\ b.data = e.data /\ b.parity = e.parity /\ b.percentage = e.percentage
Follows(a, b) ==
    /\ a.block = b.block - 1 /\ a.frame = b.frame /\ a.size = b.size
    /\ b.first = a.first + a.data + a.parity
WireBlock ==
    [frame : Nat, size : WireSizes, block : Nat, of : Nat, first : Nat, data : Nat,
     parity : Nat, percentage : Nat, iv : Nat, last : Nat]
WireTypes ==
    /\ fec \in Percents /\ minimum \in Parities /\ counter \in Nat /\ wireFrames \in Nat /\ lowseq \in Nat
    /\ wire \in Seq(WireBlock)
    /\ frame # Wire!NoFrame =>
        /\ DOMAIN frame = {"id", "size", "block", "low"}
        /\ frame.id \in Nat /\ frame.size \in WireSizes /\ frame.block \in Nat /\ frame.low \in Nat
BlocksInv ==
    /\ \A i \in 1 .. Len(wire) : BlockOk(wire[i], fec, minimum)
    /\ \A i \in 1 .. Len(wire) : wire[i].block > 0 => i > 1 /\ Follows(wire[i - 1], wire[i])
    /\ frame # Wire!NoFrame /\ frame.block > 0 =>
        /\ Len(wire) > 0 /\ wire[Len(wire)].block = frame.block - 1
        /\ wire[Len(wire)].frame = frame.id /\ wire[Len(wire)].size = frame.size
        /\ frame.low = wire[Len(wire)].first + wire[Len(wire)].data + wire[Len(wire)].parity
    /\ \A i \in 1 .. Len(wire) : wire[i].iv + wire[i].data + wire[i].parity <= counter
    /\ Wire!FreshIv
WireInv == WireTypes /\ BlocksInv

LEMMA WireStart == ASSUME Wire!Init PROVE WireInv
  <1>1. wire = <<>> /\ Len(wire) = 0 /\ frame = Wire!NoFrame
    BY DEF Wire!Init
  <1>2. WireTypes
    BY <1>1 DEF Wire!Init, WireTypes
  <1> QED BY <1>1, <1>2 DEF WireInv, BlocksInv, Wire!FreshIv

(* A block of a frame that is being sent, with its parity.                 *)
LEMMA BlockMade ==
    ASSUME WireTypes, NEW n \in WireSizes, NEW x \in 0 .. Wire!Blocks(n, fec).count - 1,
           NEW e, e = Wire!Encode(Wire!BlockBytes(n, fec, x), Wire!Blocks(n, fec).fec, minimum)
    PROVE  /\ e.data \in Nat \ {0} /\ e.parity \in Nat /\ e.percentage \in Nat
           /\ e.data < 1024 /\ e.percentage < 256 /\ (e.data * e.percentage + 99) \div 100 = e.parity
           /\ e.parity > 0 => e.data + e.parity <= 255
           /\ e.data = Wire!CeilDiv(Wire!BlockBytes(n, fec, x), Wire!Blocksize)
           /\ Wire!Blocks(n, fec).count \in 1 .. 4
  <1>1. PICK f, l, c, g : /\ f = fec /\ l = minimum /\ c = Wire!Blocks(n, f).count
                          /\ g = Wire!Blocks(n, f).fec
    OBVIOUS
  <1>2. f \in Percents /\ l \in Parities
    BY <1>1 DEF WireTypes
  <1>3. f \in 1 .. 255 /\ l \in 0 .. 2
    BY <1>2, WireAssumption
  <1>0. PICK k, el : Cut(n, f, c, g, k, el)
    BY <1>1, <1>2, FrameCut
  <1>4. /\ c \in 1 .. 4 /\ g \in {0, f}
        /\ \A y \in 0 .. c - 1 : Wire!CeilDiv(Wire!BlockBytes(n, f, y), Wire!Blocksize)
                                          = IF y = c - 1 THEN el - (c - 1) * k ELSE k
        /\ k \in Nat \ {0} /\ el \in Nat \ {0} /\ el - (c - 1) * k \in Nat \ {0}
        /\ c > 1 => k < 1024
        /\ el - (c - 1) * k < 1024
        /\ Fits(k, g) /\ Fits(el - (c - 1) * k, g)
    BY <1>0 DEF Cut
  <1>5. PICK bytes, data : bytes = Wire!BlockBytes(n, f, x) /\ data = Wire!CeilDiv(bytes, Wire!Blocksize)
    OBVIOUS
  <1>6. data \in Nat \ {0} /\ data < 1024 /\ Fits(data, g)
    <2>1. data = IF x = c - 1 THEN el - (c - 1) * k ELSE k
      BY <1>1, <1>4, <1>5
    <2>2. CASE x = c - 1
      BY <1>4, <2>1, <2>2
    <2>3. CASE x # c - 1
      <3>1. c > 1
        BY <1>1, <1>4, <2>3
      <3> QED BY <1>4, <2>1, <2>3, <3>1
    <2> QED BY <2>2, <2>3
  <1>7. e = Wire!Encode(bytes, g, l)
    BY <1>1, <1>5
  <1>8. g \in 0 .. 255
    BY <1>3, <1>4
  <1>9. /\ e.data = data /\ e.parity \in Nat /\ e.percentage < 256
        /\ (data * e.percentage + 99) \div 100 = e.parity
        /\ e.parity > 0 => data + e.parity <= 255
    <2>1. BlockOf(bytes, data, g, l, e)
      BY <1>3, <1>5, <1>6, <1>7, <1>8 DEF BlockOf
    <2> QED BY <2>1, ParityCounts DEF Counts
  <1>10. e.percentage \in Nat
    <2>1. e.percentage = g \/ (l \in Nat /\ e.percentage = (100 * l) \div data)
      BY <1>3, <1>5, <1>7 DEF Wire!Encode
    <2> QED BY <1>6, <1>8, <2>1
  <1> QED BY <1>1, <1>4, <1>5, <1>6, <1>9, <1>10

LEMMA LastLength ==
    ASSUME NEW n \in WireSizes PROVE Wire!LastPayloadLen(n) \in Nat
  <1>1. n \in Nat /\ PacketBytes \in Nat \ {0} /\ FrameHeader \in Nat
    BY WireAssumption
  <1> QED BY <1>1 DEF Wire!LastPayloadLen

LEMMA BlockSent == ASSUME WireInv, Wire!SendBlock PROVE WireInv'
  <1> USE DEF Wire!settings
  <1>1. PICK n, x, f, id, low : /\ n = frame.size /\ x = frame.block /\ f = fec
                                /\ id = frame.id /\ low = frame.low
    OBVIOUS
  <1>2. /\ n \in WireSizes /\ x \in Nat /\ id \in Nat /\ low \in Nat
        /\ x < Wire!Blocks(n, f).count /\ frame # Wire!NoFrame
        /\ DOMAIN frame = {"id", "size", "block", "low"}
    BY <1>1 DEF Wire!SendBlock, WireInv, WireTypes
  <1>3. PICK e : e = Wire!Encode(Wire!BlockBytes(n, f, x), Wire!Blocks(n, f).fec, minimum)
    OBVIOUS
  <1>4. Wire!Blocks(n, f).count \in 1 .. 4
    <2>1. f \in Percents
      BY <1>1 DEF WireInv, WireTypes
    <2>2. PICK g, k, el : Cut(n, f, Wire!Blocks(n, f).count, g, k, el)
      BY <1>2, <2>1, FrameCut
    <2> QED BY <2>2 DEF Cut
  <1>5. x \in 0 .. Wire!Blocks(n, f).count - 1
    BY <1>2, <1>4
  <1>6. e.data \in Nat /\ e.parity \in Nat /\ e.percentage \in Nat
    BY <1>1, <1>2, <1>3, <1>5, BlockMade DEF WireInv
  <1>7. PICK b : b = [frame |-> id, size |-> n, block |-> x, of |-> Wire!Blocks(n, f).count,
                      first |-> low, data |-> e.data, parity |-> e.parity,
                      percentage |-> e.percentage, iv |-> counter, last |-> Wire!LastPayloadLen(n)]
    OBVIOUS
  <1>8. /\ b.frame = id /\ b.size = n /\ b.block = x /\ b.of = Wire!Blocks(n, f).count
        /\ b.first = low /\ b.data = e.data /\ b.parity = e.parity
        /\ b.percentage = e.percentage /\ b.iv = counter /\ b.last = Wire!LastPayloadLen(n)
    BY <1>7
  <1>9. b \in WireBlock
    <2>1. counter \in Nat
      BY DEF WireInv, WireTypes
    <2> QED BY <1>2, <1>4, <1>6, <1>7, <2>1, LastLength DEF WireBlock
  <1>10. /\ wire' = Append(wire, b) /\ counter' = counter + e.data + e.parity
         /\ frame' = [frame EXCEPT !.block = @ + 1, !.low = @ + e.data + e.parity]
         /\ UNCHANGED <<fec, minimum, wireFrames, lowseq>>
    BY <1>1, <1>3, <1>7 DEF Wire!SendBlock
  <1>11. /\ wire \in Seq(WireBlock) /\ wire' \in Seq(WireBlock) /\ Len(wire) \in Nat /\ Len(wire') = Len(wire) + 1
         /\ wire'[Len(wire')] = b /\ \A i \in 1 .. Len(wire) : wire'[i] = wire[i]
    BY <1>9, <1>10 DEF WireInv, WireTypes
  <1>12. /\ DOMAIN frame' = {"id", "size", "block", "low"}
         /\ frame'.id = id /\ frame'.size = n /\ frame'.block = x + 1 /\ frame'.low = low + e.data + e.parity
    BY <1>1, <1>2, <1>10
  <1>20. \A i \in 1 .. Len(wire') : i \in 1 .. Len(wire) \/ i = Len(wire')
    BY <1>11
  <1>13. WireTypes'
    <2>1. counter' \in Nat /\ x + 1 \in Nat /\ low + e.data + e.parity \in Nat
      <3>1. PICK u, w, c : u = e.data /\ w = e.parity /\ c = counter
        OBVIOUS
      <3>2. u \in Nat /\ w \in Nat /\ c \in Nat /\ counter' = c + u + w
        BY <1>6, <1>10, <3>1 DEF WireInv, WireTypes
      <3> QED BY <1>2, <3>1, <3>2
    <2>2. /\ fec' \in Percents /\ minimum' \in Parities /\ wireFrames' \in Nat /\ lowseq' \in Nat
      BY <1>10 DEF WireInv, WireTypes
    <2>3. frame'.id \in Nat /\ frame'.size \in WireSizes /\ frame'.block \in Nat /\ frame'.low \in Nat
      BY <1>2, <1>12, <2>1
    <2> QED BY <1>11, <1>12, <2>1, <2>2, <2>3 DEF WireTypes
  <1>14. BlockOk(b, fec', minimum')
    <2>1. fec' = f /\ minimum' = minimum
      BY <1>1, <1>10
    <2> QED BY <1>2, <1>3, <1>5, <1>8, <2>1 DEF BlockOk
  <1>15. \A i \in 1 .. Len(wire') : BlockOk(wire'[i], fec', minimum')
    <2>1. ASSUME NEW i \in 1 .. Len(wire) PROVE BlockOk(wire'[i], fec', minimum')
      <3>1. BlockOk(wire[i], fec, minimum) /\ wire'[i] = wire[i]
        BY <1>11 DEF WireInv, BlocksInv
      <3> QED BY <1>10, <3>1 DEF BlockOk
    <2> QED BY <1>11, <1>14, <1>20, <2>1
  <1>16. \A i \in 1 .. Len(wire') : wire'[i].block > 0 => i > 1 /\ Follows(wire'[i - 1], wire'[i])
    <2>1. ASSUME NEW i \in 1 .. Len(wire), wire'[i].block > 0 PROVE i > 1 /\ Follows(wire'[i - 1], wire'[i])
      BY <1>11, <2>1 DEF WireInv, BlocksInv
    <2>2. ASSUME b.block > 0 PROVE Len(wire') > 1 /\ Follows(wire'[Len(wire') - 1], b)
      <3>1. Len(wire) > 0 /\ wire'[Len(wire') - 1] = wire[Len(wire)]
        BY <1>1, <1>2, <1>8, <1>11, <2>2 DEF WireInv, BlocksInv
      <3> QED BY <1>1, <1>2, <1>8, <1>11, <2>2, <3>1 DEF WireInv, BlocksInv, Follows
    <2> QED BY <1>11, <2>1, <2>2
  <1>17. \A i \in 1 .. Len(wire') : wire'[i].iv + wire'[i].data + wire'[i].parity <= counter'
    <2>1. ASSUME NEW i \in 1 .. Len(wire) PROVE wire'[i].iv + wire'[i].data + wire'[i].parity <= counter'
      <3>1. wire[i].iv + wire[i].data + wire[i].parity <= counter /\ wire[i] \in WireBlock
        BY <1>11 DEF WireInv, BlocksInv
      <3>2. wire[i].iv \in Nat /\ wire[i].data \in Nat /\ wire[i].parity \in Nat /\ counter \in Nat
        BY <3>1 DEF WireBlock, WireInv, WireTypes
      <3>3. wire'[i] = wire[i]
        BY <1>11
      <3>4. PICK v, d, p, c : v = wire[i].iv /\ d = wire[i].data /\ p = wire[i].parity /\ c = counter
        OBVIOUS
      <3>5. PICK u, w : u = e.data /\ w = e.parity
        OBVIOUS
      <3>6. v + d + p <= c + u + w
        <4>1. v \in Nat /\ d \in Nat /\ p \in Nat /\ c \in Nat /\ u \in Nat /\ w \in Nat
          BY <1>6, <3>2, <3>4, <3>5
        <4>2. v + d + p <= c
          BY <3>1, <3>4
        <4> QED BY <4>1, <4>2
      <3>7. counter' = c + u + w
        BY <1>10, <3>4, <3>5
      <3> QED BY <3>3, <3>4, <3>6, <3>7
    <2>2. b.iv + b.data + b.parity <= counter'
      <3>1. counter \in Nat
        BY DEF WireInv, WireTypes
      <3> QED BY <1>6, <1>8, <1>10, <3>1
    <2> QED BY <1>11, <1>20, <2>1, <2>2
  <1>18. ASSUME NEW i \in 1 .. Len(wire'), NEW j \in 1 .. Len(wire'), i < j
         PROVE  wire'[i].iv + wire'[i].data + wire'[i].parity <= wire'[j].iv
    <2>1. i \in 1 .. Len(wire) /\ wire'[i] = wire[i]
      BY <1>11, <1>18
    <2>2. CASE j \in 1 .. Len(wire)
      BY <1>11, <1>18, <2>1, <2>2 DEF WireInv, BlocksInv, Wire!FreshIv
    <2>3. CASE j = Len(wire')
      BY <1>8, <1>11, <2>1, <2>3 DEF WireInv, BlocksInv
    <2> QED BY <1>11, <2>2, <2>3
  <1>19. BlocksInv'
    <2>1. Wire!FreshIv'
      BY <1>18 DEF Wire!FreshIv
    <2>2. /\ Len(wire') > 0 /\ wire'[Len(wire')].block = frame'.block - 1
          /\ wire'[Len(wire')].frame = frame'.id /\ wire'[Len(wire')].size = frame'.size
          /\ frame'.low = wire'[Len(wire')].first + wire'[Len(wire')].data + wire'[Len(wire')].parity
      BY <1>2, <1>8, <1>11, <1>12
    <2> QED BY <1>15, <1>16, <1>17, <2>1, <2>2 DEF BlocksInv
  <1> QED BY <1>13, <1>19 DEF WireInv

LEMMA WireStep == ASSUME WireInv, Wire!Next PROVE WireInv'
  <1> USE DEF Wire!settings
  <1>0. ASSUME UNCHANGED <<fec, minimum, counter, wireFrames, lowseq, wire, frame>> PROVE WireInv'
    BY <1>0 DEF WireInv, WireTypes, BlocksInv, BlockOk, Wire!FreshIv
  <1>1. ASSUME NEW n \in WireSizes, Wire!PopFrame(n) PROVE WireInv'
    <2>1. /\ frame' = [id |-> wireFrames + 1, size |-> n, block |-> 0, low |-> lowseq]
          /\ wireFrames' = wireFrames + 1 /\ UNCHANGED <<fec, minimum, counter, lowseq, wire>>
      BY <1>1 DEF Wire!PopFrame
    <2>2. frame'.block = 0 /\ WireTypes'
      BY <2>1 DEF WireInv, WireTypes
    <2> QED BY <2>1, <2>2 DEF WireInv, BlocksInv, BlockOk, Wire!FreshIv
  <1>2. CASE Wire!SendBlock
    BY <1>2, BlockSent
  <1>3. CASE Wire!FinishFrame
    <2>1. lowseq' = frame.low /\ frame' = Wire!NoFrame /\ frame # Wire!NoFrame
          /\ UNCHANGED <<fec, minimum, counter, wireFrames, wire>>
      BY <1>3 DEF Wire!FinishFrame
    <2>2. WireTypes'
      BY <2>1 DEF WireInv, WireTypes
    <2> QED BY <2>1, <2>2 DEF WireInv, BlocksInv, BlockOk, Wire!FreshIv
  <1>4. CASE Wire!SendThrows
    <2>1. /\ frame' = Wire!NoFrame /\ counter' = counter + 1
          /\ UNCHANGED <<fec, minimum, lowseq, wireFrames, wire>>
      BY <1>4 DEF Wire!SendThrows
    <2>2. WireTypes'
      BY <2>1 DEF WireInv, WireTypes
    <2>3. \A i \in 1 .. Len(wire) : wire[i].iv + wire[i].data + wire[i].parity <= counter + 1
      <3> SUFFICES ASSUME NEW i \in 1 .. Len(wire)
                   PROVE  wire[i].iv + wire[i].data + wire[i].parity <= counter + 1
        OBVIOUS
      <3>1. wire[i] \in WireBlock /\ wire[i].iv + wire[i].data + wire[i].parity <= counter /\ counter \in Nat
        BY DEF WireInv, WireTypes, BlocksInv
      <3> QED BY <3>1 DEF WireBlock
    <2> QED BY <2>1, <2>2, <2>3 DEF WireInv, BlocksInv, BlockOk, Wire!FreshIv
  <1>5. ASSUME NEW n, Wire!StartBatch(n) PROVE WireInv'
    BY <1>0, <1>5 DEF Wire!StartBatch, Wire!streamVars, Wire!videoVars
  <1>6. ASSUME NEW s, Wire!ClientPing(s) \/ Wire!ReceivePing(s) \/ Wire!RunPosted(s) PROVE WireInv'
    BY <1>0, <1>6 DEF Wire!ClientPing, Wire!ReceivePing, Wire!RunPosted, Wire!videoVars
  <1>7. ASSUME NEW b, Wire!Call(b) \/ Wire!CallInput(b) PROVE WireInv'
    BY <1>0, <1>7 DEF Wire!Call, Wire!CallInput, Wire!videoVars
  <1>8. CASE Wire!StartBroadcast \/ Wire!SendAudio \/ Wire!AudioThrows \/ Wire!CallBroken \/ Wire!SendFeedback
    BY <1>0, <1>8 DEF Wire!StartBroadcast, Wire!SendAudio, Wire!AudioThrows, Wire!CallBroken,
       Wire!SendFeedback, Wire!streamVars, Wire!videoVars
  <1>9. CASE Wire!SendSegments \/ Wire!Poll \/ Wire!SendMany \/ Wire!SendWsa \/ Wire!SendSingly
    BY <1>0, <1>9 DEF Wire!SendSegments, Wire!Poll, Wire!SendMany, Wire!SendWsa, Wire!SendSingly,
       Wire!streamVars, Wire!videoVars
  <1>10. ASSUME NEW x, NEW s, Wire!EnableOptions(x, s) \/ Wire!AskFlow(x, s) PROVE WireInv'
    BY <1>0, <1>10 DEF Wire!EnableOptions, Wire!AskFlow, Wire!streamVars, Wire!videoVars
  <1>11. ASSUME NEW q, Wire!DropOptions(q) \/ Wire!DropFlow(q) PROVE WireInv'
    BY <1>0, <1>11 DEF Wire!DropOptions, Wire!DropFlow, Wire!streamVars, Wire!videoVars
  <1>12. ASSUME NEW a, Wire!AddFlow(a) PROVE WireInv'
    BY <1>0, <1>12 DEF Wire!AddFlow, Wire!streamVars, Wire!videoVars
  <1> QED BY <1>1, <1>2, <1>3, <1>4, <1>5, <1>6, <1>7, <1>8, <1>9, <1>10, <1>11, <1>12 DEF Wire!Next

(* What a client needs of the block it got as the i-th one.                *)
Before(i, k) == IF k <= wire[i].block THEN wire[i - k].data ELSE 0
BlockDecodes(i) ==
    /\ (wire[i].data * wire[i].percentage + 99) \div 100 = wire[i].parity
    /\ wire[i].percentage < 256 /\ wire[i].of <= 4 /\ wire[i].data < 1024
    /\ wire[i].parity > 0 => wire[i].data + wire[i].parity <= 255
    /\ wire[i].data > 0 /\ wire[i].block < wire[i].of
    /\ wire[i].block > 0 => /\ wire[i - 1].block = wire[i].block - 1
                            /\ wire[i - 1].frame = wire[i].frame
                            /\ wire[i].first = wire[i - 1].first + wire[i - 1].data + wire[i - 1].parity
    /\ wire[i].block = wire[i].of - 1 =>
         (Before(i, 0) + Before(i, 1) + Before(i, 2) + Before(i, 3) - 1) * PacketBytes
            + wire[i].last - FrameHeader = wire[i].size

LEMMA WireDecodes == ASSUME WireInv PROVE Wire!FramesDecode
  <1> SUFFICES ASSUME NEW i \in 1 .. Len(wire) PROVE BlockDecodes(i)
    BY DEF BlockDecodes, Before, Wire!FramesDecode, Wire!ClientParity, Wire!MAX_FEC_BLOCKS, Wire!DATA_SHARDS_MAX
  <1>1. PICK n, f, x, c, g : /\ n = wire[i].size /\ f = fec /\ x = wire[i].block
                             /\ c = Wire!Blocks(n, f).count /\ g = Wire!Blocks(n, f).fec
    OBVIOUS
  <1>2. /\ n \in WireSizes /\ f \in Percents /\ c = wire[i].of /\ x \in 0 .. c - 1
        /\ wire[i].last = Wire!LastPayloadLen(n)
    BY <1>1 DEF WireInv, WireTypes, BlocksInv, BlockOk
  <1>3. PICK e : /\ e = Wire!Encode(Wire!BlockBytes(n, f, x), g, minimum)
                 /\ wire[i].data = e.data /\ wire[i].parity = e.parity
                 /\ wire[i].percentage = e.percentage
    BY <1>1 DEF WireInv, BlocksInv, BlockOk
  <1>4. /\ e.data \in Nat \ {0} /\ e.data < 1024 /\ e.percentage < 256
        /\ (e.data * e.percentage + 99) \div 100 = e.parity
        /\ e.parity > 0 => e.data + e.parity <= 255
        /\ c \in 1 .. 4
    <2>1. WireTypes /\ n \in WireSizes /\ x \in 0 .. Wire!Blocks(n, fec).count - 1
      BY <1>1, <1>2 DEF WireInv
    <2>2. e = Wire!Encode(Wire!BlockBytes(n, fec, x), Wire!Blocks(n, fec).fec, minimum)
      BY <1>1, <1>3
    <2>3. c = Wire!Blocks(n, fec).count
      BY <1>1
    <2> QED BY <2>1, <2>2, <2>3, BlockMade
  <1>13. PICK k, el : Cut(n, f, c, g, k, el)
    BY <1>1, <1>2, FrameCut
  <1>5. /\ \A y \in 0 .. c - 1 : Wire!CeilDiv(Wire!BlockBytes(n, f, y), Wire!Blocksize)
                                    = IF y = c - 1 THEN el - (c - 1) * k ELSE k
        /\ k \in Nat \ {0} /\ el \in Nat \ {0} /\ el - (c - 1) * k \in Nat \ {0}
        /\ (el - 1) * PacketBytes + Wire!LastPayloadLen(n) - FrameHeader = n
    BY <1>13 DEF Cut
  <1>6. ASSUME NEW j \in 1 .. Len(wire), wire[j].size = n
        PROVE  /\ wire[j].block \in 0 .. c - 1
               /\ wire[j].data = IF wire[j].block = c - 1 THEN el - (c - 1) * k ELSE k
    <2>1. PICK y : y = wire[j].block
      OBVIOUS
    <2>2. /\ y \in 0 .. c - 1
          /\ wire[j].data = Wire!Encode(Wire!BlockBytes(n, f, y), g, minimum).data
      BY <1>1, <1>6, <2>1 DEF WireInv, BlocksInv, BlockOk
    <2>3. wire[j].data = Wire!CeilDiv(Wire!BlockBytes(n, f, y), Wire!Blocksize)
      BY <2>2 DEF Wire!Encode
    <2> QED BY <1>5, <2>1, <2>2, <2>3
  <1>7. ASSUME NEW j \in 1 .. Len(wire), wire[j].size = n, wire[j].block > 0
        PROVE  /\ j - 1 \in 1 .. Len(wire) /\ wire[j - 1].size = n
               /\ wire[j - 1].block = wire[j].block - 1
    BY <1>7 DEF WireInv, BlocksInv, Follows
  <1>12. ASSUME x = c - 1, c > 1
         PROVE  i - 1 \in 1 .. Len(wire) /\ wire[i - 1].size = n /\ wire[i - 1].block = c - 2
    <2>1. wire[i].size = n /\ wire[i].block > 0 /\ wire[i].block - 1 = c - 2
      BY <1>1, <1>4, <1>12
    <2> QED BY <1>7, <2>1
  <1>8. ASSUME x = c - 1
        PROVE  (Before(i, 0) + Before(i, 1) + Before(i, 2) + Before(i, 3) - 1) * PacketBytes
                  + wire[i].last - FrameHeader = wire[i].size
    <2>1. Before(i, 0) = el - (c - 1) * k
      <3>1. i - 0 = i /\ wire[i].size = n /\ wire[i].block = c - 1 /\ 0 <= c - 1
        BY <1>1, <1>4, <1>8
      <3>2. wire[i].data = el - (c - 1) * k
        BY <1>6, <3>1
      <3> QED BY <3>1, <3>2 DEF Before
    <2>2. Before(i, 1) = IF c > 1 THEN k ELSE 0
      <3>1. CASE c > 1
        <4>1. i - 1 \in 1 .. Len(wire) /\ wire[i - 1].size = n /\ wire[i - 1].block = c - 2
          BY <1>4, <1>8, <1>12, <3>1
        <4>2. wire[i - 1].data = k
          BY <1>4, <1>6, <4>1
        <4> QED BY <1>1, <1>4, <1>8, <3>1, <4>2 DEF Before
      <3>2. CASE c = 1
        BY <1>1, <1>8, <3>2 DEF Before
      <3> QED BY <1>4, <3>1, <3>2
    <2>3. Before(i, 2) = IF c > 2 THEN k ELSE 0
      <3>1. CASE c > 2
        <4>1. i - 1 \in 1 .. Len(wire) /\ wire[i - 1].size = n /\ wire[i - 1].block = c - 2
          BY <1>4, <1>8, <1>12, <3>1
        <4>2. i - 2 \in 1 .. Len(wire) /\ wire[i - 2].size = n /\ wire[i - 2].block = c - 3
          <5>1. PICK j : j = i - 1
            OBVIOUS
          <5>2. j - 1 \in 1 .. Len(wire) /\ wire[j - 1].size = n /\ wire[j - 1].block = c - 3
            BY <1>4, <1>7, <3>1, <4>1, <5>1
          <5> QED BY <5>1, <5>2
        <4>3. wire[i - 2].data = k
          BY <1>4, <1>6, <4>2
        <4> QED BY <1>1, <1>4, <1>8, <3>1, <4>3 DEF Before
      <3>2. CASE ~(c > 2)
        BY <1>1, <1>4, <1>8, <3>2 DEF Before
      <3> QED BY <3>1, <3>2
    <2>4. Before(i, 3) = IF c > 3 THEN k ELSE 0
      <3>1. CASE c > 3
        <4>1. i - 1 \in 1 .. Len(wire) /\ wire[i - 1].size = n /\ wire[i - 1].block = c - 2
          BY <1>4, <1>8, <1>12, <3>1
        <4>2. i - 2 \in 1 .. Len(wire) /\ wire[i - 2].size = n /\ wire[i - 2].block = c - 3
          <5>1. PICK j : j = i - 1
            OBVIOUS
          <5>2. j - 1 \in 1 .. Len(wire) /\ wire[j - 1].size = n /\ wire[j - 1].block = c - 3
            BY <1>4, <1>7, <3>1, <4>1, <5>1
          <5> QED BY <5>1, <5>2
        <4>3. i - 3 \in 1 .. Len(wire) /\ wire[i - 3].size = n /\ wire[i - 3].block = c - 4
          <5>1. PICK j : j = i - 2
            OBVIOUS
          <5>2. j - 1 \in 1 .. Len(wire) /\ wire[j - 1].size = n /\ wire[j - 1].block = c - 4
            BY <1>4, <1>7, <3>1, <4>2, <5>1
          <5> QED BY <5>1, <5>2
        <4>4. wire[i - 3].data = k
          BY <1>4, <1>6, <4>3
        <4> QED BY <1>1, <1>4, <1>8, <3>1, <4>4 DEF Before
      <3>2. CASE ~(c > 3)
        BY <1>1, <1>4, <1>8, <3>2 DEF Before
      <3> QED BY <3>1, <3>2
    <2>5. Before(i, 0) + Before(i, 1) + Before(i, 2) + Before(i, 3) = el
      <3>1. CASE c = 1
        BY <1>5, <2>1, <2>2, <2>3, <2>4, <3>1
      <3>2. CASE c = 2
        BY <1>5, <2>1, <2>2, <2>3, <2>4, <3>2
      <3>3. CASE c = 3
        BY <1>5, <2>1, <2>2, <2>3, <2>4, <3>3
      <3>4. CASE c = 4
        BY <1>5, <2>1, <2>2, <2>3, <2>4, <3>4
      <3> QED BY <1>4, <3>1, <3>2, <3>3, <3>4
    <2>6. wire[i].size = n /\ wire[i].last = Wire!LastPayloadLen(n)
      BY <1>1, <1>2
    <2>7. (el - 1) * PacketBytes + Wire!LastPayloadLen(n) - FrameHeader = n
      BY <1>5
    <2>8. PICK p0, p1, p2, p3 : /\ p0 = Before(i, 0) /\ p1 = Before(i, 1)
                                /\ p2 = Before(i, 2) /\ p3 = Before(i, 3)
      OBVIOUS
    <2>9. p0 + p1 + p2 + p3 = el
      BY <2>5, <2>8
    <2>11. p0 \in Nat /\ p1 \in Nat /\ p2 \in Nat /\ p3 \in Nat
      BY <1>5, <2>1, <2>2, <2>3, <2>4, <2>8
    <2>12. PICK less : less = p0 + p1 + p2 + p3 - 1
      OBVIOUS
    <2>13. less = el - 1
      BY <1>5, <2>9, <2>11, <2>12
    <2>14. less * PacketBytes + wire[i].last - FrameHeader = wire[i].size
      BY <2>6, <2>7, <2>13
    <2>10. (p0 + p1 + p2 + p3 - 1) * PacketBytes + wire[i].last - FrameHeader = wire[i].size
      BY <2>12, <2>14
    <2> QED BY <2>8, <2>10
  <1>9. ASSUME x > 0
        PROVE  /\ wire[i - 1].block = wire[i].block - 1 /\ wire[i - 1].frame = wire[i].frame
               /\ wire[i].first = wire[i - 1].first + wire[i - 1].data + wire[i - 1].parity
    BY <1>1, <1>9 DEF WireInv, BlocksInv, Follows
  <1>10. /\ (wire[i].data * wire[i].percentage + 99) \div 100 = wire[i].parity
         /\ wire[i].percentage < 256 /\ wire[i].data < 1024 /\ wire[i].data > 0
         /\ wire[i].parity > 0 => wire[i].data + wire[i].parity <= 255
    BY <1>3, <1>4
  <1>11. wire[i].of <= 4 /\ wire[i].block < wire[i].of
    BY <1>1, <1>2, <1>4
  <1> QED BY <1>1, <1>2, <1>8, <1>9, <1>10, <1>11 DEF BlockDecodes

-----------------------------------------------------------------------------
(* StreamWire, audio.  The shards are those of the last four packets, and  *)
(* the sequence number is the number of the packet, round the wrap.        *)
LEMMA RemainderIs ==
    ASSUME NEW n \in Nat, NEW z \in Nat \ {0}, NEW q \in Nat, NEW r \in 0 .. z - 1, n = z * q + r
    PROVE  n % z = r
  <1>1. PICK a, b : a = n \div z /\ b = n % z
    OBVIOUS
  <1>2. a \in Nat /\ b \in 0 .. z - 1 /\ n = z * a + b
    BY <1>1
  <1>3. ~(a < q)
    <2> SUFFICES ASSUME a + 1 <= q PROVE FALSE
      BY <1>2
    <2>1. z * (a + 1) <= z * q /\ z * (a + 1) = z * a + z
      BY <1>2
    <2> QED BY <1>2, <2>1
  <1>4. ~(q < a)
    <2> SUFFICES ASSUME q + 1 <= a PROVE FALSE
      BY <1>2
    <2>1. z * (q + 1) <= z * a /\ z * (q + 1) = z * q + z
      BY <1>2
    <2> QED BY <1>2, <2>1
  <1>5. a = q
    BY <1>2, <1>3, <1>4
  <1> QED BY <1>1, <1>2, <1>5

LEMMA Wraps ==
    ASSUME NEW n \in Nat, NEW x \in Nat
    PROVE  /\ ((n % AudioSpace) + x) % AudioSpace = (n + x) % AudioSpace
           /\ (n % AudioSpace) % 4 = n % 4
  <1>1. PICK q, r : q = n \div AudioSpace /\ r = n % AudioSpace
    OBVIOUS
  <1>2. AudioSpace \in Nat \ {0} /\ AudioSpace % 4 = 0
    BY GroupAssumption
  <1>3. q \in Nat /\ r \in 0 .. AudioSpace - 1 /\ n = AudioSpace * q + r
    BY <1>1, <1>2
  <1>4. PICK s, t : s = (r + x) \div AudioSpace /\ t = (r + x) % AudioSpace
    OBVIOUS
  <1>5. s \in Nat /\ t \in 0 .. AudioSpace - 1 /\ r + x = AudioSpace * s + t
    BY <1>2, <1>3, <1>4
  <1>6. PICK u, v : u = q + s /\ v = AudioSpace * u
    OBVIOUS
  <1>7. u \in Nat /\ n + x \in Nat /\ n + x = AudioSpace * u + t
    <2>1. AudioSpace * u = AudioSpace * q + AudioSpace * s
      BY <1>2, <1>3, <1>5, <1>6
    <2> QED BY <1>2, <1>3, <1>5, <1>6, <2>1
  <1>8. (n + x) % AudioSpace = t
    BY <1>2, <1>5, <1>7, RemainderIs
  <1>9. PICK w : w = AudioSpace \div 4
    OBVIOUS
  <1>10. w \in Nat /\ AudioSpace = 4 * w
    BY <1>2, <1>9
  <1>11. PICK p : p = w * q
    OBVIOUS
  <1>12. p \in Nat /\ n = 4 * p + r
    BY <1>3, <1>10, <1>11
  <1>13. r % 4 = n % 4
    BY <1>2, <1>3, <1>12
  <1> QED BY <1>1, <1>4, <1>8, <1>13

AudioParity == [base : Nat, seq : Nat, index : Nat, covers : SUBSET Nat]
GroupOk(p) ==
    \E g \in Nat : /\ p.covers = {g, g + 1, g + 2, g + 3} /\ p.index \in Nat
                   /\ p.seq = (g + 4 + p.index) % AudioSpace
GroupInv ==
    /\ wire = <<>> /\ frame = AudioWire!NoFrame /\ wireFrames = 0
    /\ heard \in Nat /\ base \in Nat /\ audioSeq = heard % AudioSpace
    /\ shards \in [0 .. 3 -> Nat]
    /\ \A j \in 0 .. 3 : j < heard => shards[(heard - 1 - j) % 4] = heard - 1 - j
    /\ parity \in Seq(AudioParity)
    /\ \A i \in 1 .. Len(parity) : GroupOk(parity[i])

LEMMA GroupStart == ASSUME AudioWire!Init PROVE GroupInv
  <1>1. AudioSpace \in Nat \ {0}
    BY GroupAssumption
  <1>2. /\ wire = <<>> /\ frame = AudioWire!NoFrame /\ wireFrames = 0 /\ heard = 0 /\ base = 0 /\ audioSeq = 0
        /\ shards = [k \in 0 .. 3 |-> 0] /\ parity = <<>>
    BY DEF AudioWire!Init, AudioWire!RTPA_DATA_SHARDS
  <1>3. 0 % AudioSpace = 0
    BY <1>1
  <1> QED BY <1>2, <1>3 DEF GroupInv

(* A packet in its shard.                                                  *)
LEMMA Shard ==
    ASSUME GroupInv, heard' = heard + 1, audioSeq' = (audioSeq + 1) % AudioSpace,
           shards' = [shards EXCEPT ![audioSeq % 4] = heard]
    PROVE  /\ heard' \in Nat /\ audioSeq' = heard' % AudioSpace /\ shards' \in [0 .. 3 -> Nat]
           /\ \A j \in 0 .. 3 : j < heard' => shards'[(heard' - 1 - j) % 4] = heard' - 1 - j
  <1>1. heard \in Nat /\ audioSeq = heard % AudioSpace /\ shards \in [0 .. 3 -> Nat]
    BY DEF GroupInv
  <1>2. audioSeq' = (heard + 1) % AudioSpace /\ audioSeq % 4 = heard % 4
    BY <1>1, Wraps
  <1>3. shards' = [shards EXCEPT ![heard % 4] = heard] /\ heard % 4 \in 0 .. 3
    <2>1. PICK k : k = heard % 4
      OBVIOUS
    <2>2. k \in 0 .. 3
      BY <1>1, <2>1
    <2> QED BY <1>2, <2>1, <2>2
  <1>4. ASSUME NEW j \in 0 .. 3, j < heard + 1 PROVE shards'[(heard - j) % 4] = heard - j
    <2>1. CASE j = 0
      BY <1>1, <1>3, <2>1
    <2>2. CASE j \in 1 .. 3
      <3>1. PICK i : i = j - 1
        OBVIOUS
      <3>2. i \in 0 .. 2 /\ i < heard /\ heard - 1 - i = heard - j
        BY <1>1, <1>4, <2>2, <3>1
      <3>3. shards[(heard - j) % 4] = heard - j
        <4>1. shards[(heard - 1 - i) % 4] = heard - 1 - i
          BY <3>2 DEF GroupInv
        <4> QED BY <3>2, <4>1
      <3>4. (heard - j) % 4 \in 0 .. 3 /\ (heard - j) % 4 # heard % 4
        BY <1>1, <1>4, <2>2
      <3> QED BY <1>1, <1>3, <3>3, <3>4
    <2> QED BY <1>4, <2>1, <2>2
  <1>5. heard' \in Nat /\ \A j \in 0 .. 3 : heard' - 1 - j = heard - j /\ (j < heard' <=> j < heard + 1)
    BY <1>1
  <1> QED BY <1>1, <1>2, <1>3, <1>4, <1>5

LEMMA GroupStep == ASSUME GroupInv, AudioWire!Next PROVE GroupInv'
  <1> USE DEF AudioWire!settings, AudioWire!RTPA_DATA_SHARDS, AudioWire!RTPA_FEC_SHARDS
  <1>0. ASSUME UNCHANGED <<wire, frame, wireFrames, heard, base, audioSeq, shards, parity>> PROVE GroupInv'
    BY <1>0 DEF GroupInv
  <1>1. CASE AudioWire!SendAudio
    <2>1. /\ heard' = heard + 1 /\ audioSeq' = (audioSeq + 1) % AudioSpace
          /\ shards' = [shards EXCEPT ![audioSeq % 4] = heard] /\ UNCHANGED <<wire, frame, wireFrames>>
          /\ base' = IF audioSeq % 4 = 0 THEN audioSeq ELSE base
      BY <1>1 DEF AudioWire!SendAudio, AudioWire!videoVars
    <2>2. /\ heard \in Nat /\ audioSeq = heard % AudioSpace /\ base \in Nat
          /\ AudioSpace \in Nat \ {0} /\ parity \in Seq(AudioParity)
      BY GroupAssumption DEF GroupInv
    <2>3. base' \in Nat /\ audioSeq \in Nat
      BY <2>1, <2>2
    <2>4. /\ heard' \in Nat /\ audioSeq' = heard' % AudioSpace /\ shards' \in [0 .. 3 -> Nat]
          /\ \A j \in 0 .. 3 : j < heard' => shards'[(heard' - 1 - j) % 4] = heard' - 1 - j
      BY <2>1, Shard
    <2>5. parity' \in Seq(AudioParity) /\ \A i \in 1 .. Len(parity') : GroupOk(parity'[i])
      <3>1. CASE (audioSeq + 1) % 4 # 0
        <4>1. parity' = parity
          BY <1>1, <3>1 DEF AudioWire!SendAudio
        <4> QED BY <4>1 DEF GroupInv
      <3>2. CASE (audioSeq + 1) % 4 = 0
        <4>1. PICK cover : cover = {shards'[k] : k \in DOMAIN shards}
          OBVIOUS
        <4>2. PICK b, a : b = base' /\ a = audioSeq
          OBVIOUS
        <4>3. PICK more : more = [x \in 1 .. 2 |-> [base |-> b, seq |-> (a + x) % AudioSpace,
                                                    index |-> x - 1, covers |-> cover]]
          OBVIOUS
        <4>4. parity' = parity \o more
          BY <1>1, <3>2, <4>1, <4>2, <4>3 DEF AudioWire!SendAudio
        <4>5. heard % 4 = 3 /\ heard >= 3
          <5>1. audioSeq % 4 = heard % 4
            BY <2>2, Wraps
          <5> QED BY <2>2, <2>3, <3>2, <5>1
        <4>6. PICK g : g = heard - 3
          OBVIOUS
        <4>7. g \in Nat /\ heard = g + 3 /\ g % 4 = 0
          BY <2>2, <4>5, <4>6
        <4>8. shards'[0] = g /\ shards'[1] = g + 1 /\ shards'[2] = g + 2 /\ shards'[3] = g + 3
          <5>1. \A j \in 0 .. 3 : shards'[(g + 3 - j) % 4] = g + 3 - j
            BY <2>1, <2>2, <2>4, <4>7
          <5>2. (g + 3) % 4 = 3 /\ (g + 2) % 4 = 2 /\ (g + 1) % 4 = 1
            BY <4>7
          <5>3. shards'[(g + 3 - 0) % 4] = g + 3 - 0 /\ shards'[(g + 3 - 1) % 4] = g + 3 - 1
            BY <5>1
          <5>4. shards'[(g + 3 - 2) % 4] = g + 3 - 2 /\ shards'[(g + 3 - 3) % 4] = g + 3 - 3
            BY <5>1
          <5>5. /\ g + 3 - 0 = g + 3 /\ g + 3 - 1 = g + 2 /\ g + 3 - 2 = g + 1 /\ g + 3 - 3 = g
            BY <4>7
          <5> QED BY <4>7, <5>2, <5>3, <5>4, <5>5
        <4>9. cover = {g, g + 1, g + 2, g + 3}
          <5>1. DOMAIN shards = 0 .. 3
            BY DEF GroupInv
          <5>2. \A k \in 0 .. 3 : k = 0 \/ k = 1 \/ k = 2 \/ k = 3
            OBVIOUS
          <5>3. 0 \in 0 .. 3 /\ 1 \in 0 .. 3 /\ 2 \in 0 .. 3 /\ 3 \in 0 .. 3
            OBVIOUS
          <5> QED BY <4>1, <4>8, <5>1, <5>2, <5>3
        <4>10. ASSUME NEW x \in 1 .. 2 PROVE more[x] \in AudioParity /\ GroupOk(more[x])
          <5>1. more[x] = [base |-> b, seq |-> (a + x) % AudioSpace, index |-> x - 1, covers |-> cover]
            BY <4>3
          <5>2. (a + x) % AudioSpace = (g + 4 + (x - 1)) % AudioSpace
            <6>1. ((heard % AudioSpace) + x) % AudioSpace = (heard + x) % AudioSpace
              <7>1. x \in Nat /\ heard \in Nat
                BY <2>2
              <7> QED BY <7>1, Wraps
            <6>2. heard + x = g + 4 + (x - 1)
              BY <4>7
            <6> QED BY <2>2, <4>2, <6>1, <6>2
          <5>3. (a + x) % AudioSpace \in Nat /\ x - 1 \in Nat /\ b \in Nat /\ cover \subseteq Nat
            BY <2>2, <2>3, <4>2, <4>7, <4>9
          <5>4. more[x] \in AudioParity
            BY <5>1, <5>3 DEF AudioParity
          <5>5. more[x].covers = cover /\ more[x].index = x - 1 /\ more[x].seq = (a + x) % AudioSpace
            BY <5>1
          <5>6. GroupOk(more[x])
            BY <4>7, <4>9, <5>2, <5>3, <5>5 DEF GroupOk
          <5> QED BY <5>4, <5>6
        <4>11. more \in Seq(AudioParity) /\ Len(more) = 2
          BY <4>3, <4>10
        <4>12. /\ parity' \in Seq(AudioParity) /\ Len(parity') = Len(parity) + 2
               /\ \A i \in 1 .. Len(parity) + 2 : parity'[i] = IF i <= Len(parity) THEN parity[i]
                                                              ELSE more[i - Len(parity)]
          <5>1. PICK old, new : old = parity /\ new = old \o more
            OBVIOUS
          <5>2. old \in Seq(AudioParity)
            BY <2>2, <5>1
          <5>3. /\ new \in Seq(AudioParity) /\ Len(new) = Len(old) + 2
                /\ \A i \in 1 .. Len(old) + 2 : new[i] = IF i <= Len(old) THEN old[i] ELSE more[i - Len(old)]
            <6>1. /\ old \o more \in Seq(AudioParity) /\ Len(old \o more) = Len(old) + Len(more)
                  /\ \A i \in 1 .. Len(old) + Len(more) :
                        (old \o more)[i] = IF i <= Len(old) THEN old[i] ELSE more[i - Len(old)]
              BY <4>11, <5>2, ConcatProperties
            <6> QED BY <4>11, <5>1, <6>1
          <5>4. parity' = new
            BY <4>4, <5>1
          <5> QED BY <5>1, <5>3, <5>4
        <4>13. ASSUME NEW i \in 1 .. Len(parity') PROVE GroupOk(parity'[i])
          <5>1. Len(parity) \in Nat
            BY <2>2
          <5>2. CASE i <= Len(parity)
            <6>1. i \in 1 .. Len(parity) /\ parity'[i] = parity[i]
              BY <4>12, <5>1, <5>2
            <6> QED BY <6>1 DEF GroupInv
          <5>3. CASE i > Len(parity)
            <6>1. i - Len(parity) \in 1 .. 2 /\ parity'[i] = more[i - Len(parity)]
              BY <4>12, <5>1, <5>3
            <6> QED BY <4>10, <6>1
          <5> QED BY <5>1, <5>2, <5>3
        <4> QED BY <4>12, <4>13
      <3> QED BY <3>1, <3>2
    <2>6. wire' = <<>> /\ frame' = AudioWire!NoFrame /\ wireFrames' = 0
      BY <2>1 DEF GroupInv
    <2> QED BY <2>3, <2>4, <2>5, <2>6 DEF GroupInv
  <1>2. CASE AudioWire!AudioThrows
    <2>1. /\ heard' = heard + 1 /\ audioSeq' = (audioSeq + 1) % AudioSpace
          /\ shards' = [shards EXCEPT ![audioSeq % 4] = heard] /\ UNCHANGED <<wire, frame, wireFrames, base, parity>>
      BY <1>2 DEF AudioWire!AudioThrows
    <2>2. /\ heard' \in Nat /\ audioSeq' = heard' % AudioSpace /\ shards' \in [0 .. 3 -> Nat]
          /\ \A j \in 0 .. 3 : j < heard' => shards'[(heard' - 1 - j) % 4] = heard' - 1 - j
      BY <2>1, Shard
    <2> QED BY <2>1, <2>2 DEF GroupInv
  <1>3. ASSUME NEW s, AudioWire!ClientPing(s) \/ AudioWire!ReceivePing(s) \/ AudioWire!RunPosted(s)
        PROVE  GroupInv'
    BY <1>0, <1>3 DEF AudioWire!ClientPing, AudioWire!ReceivePing, AudioWire!RunPosted,
       AudioWire!videoVars, AudioWire!audioVars
  <1>4. ASSUME NEW b, AudioWire!Call(b) \/ AudioWire!CallInput(b) PROVE GroupInv'
    BY <1>0, <1>4 DEF AudioWire!Call, AudioWire!CallInput, AudioWire!videoVars, AudioWire!audioVars
  <1>5. CASE AudioWire!StartBroadcast \/ AudioWire!CallBroken \/ AudioWire!SendFeedback
    BY <1>0, <1>5 DEF AudioWire!StartBroadcast, AudioWire!CallBroken, AudioWire!SendFeedback,
       AudioWire!streamVars, AudioWire!videoVars, AudioWire!audioVars
  <1>6. CASE AudioWire!SendBlock \/ AudioWire!FinishFrame \/ AudioWire!SendThrows
    BY <1>6 DEF AudioWire!SendBlock, AudioWire!FinishFrame, AudioWire!SendThrows, GroupInv
  <1>7. ASSUME NEW n, AudioWire!PopFrame(n) PROVE GroupInv'
    BY <1>7 DEF AudioWire!PopFrame, GroupInv
  <1>8. ASSUME NEW n, AudioWire!StartBatch(n) PROVE GroupInv'
    BY <1>0, <1>8 DEF AudioWire!StartBatch, AudioWire!streamVars, AudioWire!videoVars, AudioWire!audioVars
  <1>9. CASE AudioWire!SendSegments \/ AudioWire!Poll \/ AudioWire!SendMany \/ AudioWire!SendWsa
             \/ AudioWire!SendSingly
    BY <1>0, <1>9 DEF AudioWire!SendSegments, AudioWire!Poll, AudioWire!SendMany, AudioWire!SendWsa,
       AudioWire!SendSingly, AudioWire!streamVars, AudioWire!videoVars, AudioWire!audioVars
  <1>10. ASSUME NEW x, NEW s, AudioWire!EnableOptions(x, s) \/ AudioWire!AskFlow(x, s) PROVE GroupInv'
    BY <1>0, <1>10 DEF AudioWire!EnableOptions, AudioWire!AskFlow, AudioWire!streamVars,
       AudioWire!videoVars, AudioWire!audioVars
  <1>11. ASSUME NEW q, AudioWire!DropOptions(q) \/ AudioWire!DropFlow(q) \/ AudioWire!AddFlow(q)
         PROVE  GroupInv'
    BY <1>0, <1>11 DEF AudioWire!DropOptions, AudioWire!DropFlow, AudioWire!AddFlow,
       AudioWire!streamVars, AudioWire!videoVars, AudioWire!audioVars
  <1> QED BY <1>1, <1>2, <1>3, <1>4, <1>5, <1>6, <1>7, <1>8, <1>9, <1>10, <1>11 DEF AudioWire!Next

LEMMA GroupKept == ASSUME GroupInv PROVE AudioWire!FreshIv /\ AudioWire!ParityCoversItsGroup
  <1>1. AudioWire!FreshIv
    BY DEF AudioWire!FreshIv, GroupInv
  <1>2. ASSUME NEW i \in 1 .. Len(parity), NEW p, p = parity[i]
        PROVE  /\ AudioWire!Cardinality(p.covers) = 4
               /\ AudioWire!Max(p.covers) - AudioWire!Min(p.covers) = 3
               /\ p.seq = (AudioWire!Max(p.covers) + 1 + p.index) % AudioSpace
    <2>1. PICK g \in Nat : /\ p.covers = {g, g + 1, g + 2, g + 3} /\ p.index \in Nat
                           /\ p.seq = (g + 4 + p.index) % AudioSpace
      BY <1>2 DEF GroupInv, GroupOk
    <2>2. AudioWire!Cardinality(p.covers) = 4
      <3>1. p.covers = g .. g + 3
        BY <2>1
      <3>2. Cardinality(g .. g + 3) = 4
        BY FS_Interval
      <3>3. AudioWire!Cardinality(p.covers) = Cardinality(p.covers)
        BY DEF AudioWire!Cardinality, Cardinality
      <3> QED BY <3>1, <3>2, <3>3
    <2>3. AudioWire!Max(p.covers) = g + 3
      BY <2>1 DEF AudioWire!Max
    <2>4. AudioWire!Min(p.covers) = g
      BY <2>1 DEF AudioWire!Min
    <2>5. g + 3 + 1 + p.index = g + 4 + p.index
      BY <2>1
    <2> QED BY <2>1, <2>2, <2>3, <2>4, <2>5
  <1> QED BY <1>1, <1>2 DEF AudioWire!ParityCoversItsGroup, AudioWire!RTPA_DATA_SHARDS

-----------------------------------------------------------------------------
(* StreamWire, a batch.  While nothing failed, what left is the shards     *)
(* from the first on; sent singly, at most the ones whose calls failed are *)
(* missing, unless poll() failed.                                          *)
InOrder(s, d) == Len(s) = d /\ \A k \in 1 .. d : s[k] = k
Missing(s, n) == {k \in 1 .. n : \A i \in 1 .. Len(s) : s[i] # k}
Spared == system.name = "windows" \/ (system.segments /\ faults <= 1)
Few(S, n) == IsFiniteSet(S) /\ Cardinality(S) <= n
BatchStates == {"idle", "gso", "gsoPoll", "mmsg", "mmsgPoll", "wsa", "single", "done"}
SendTypes ==
    /\ system \in Hosts /\ faults \in Nat /\ sent \in Seq(Nat)
    /\ DOMAIN batch = {"at", "count", "done"}
    /\ batch.at \in BatchStates /\ batch.count \in Nat /\ batch.done \in Nat
SendInv ==
    /\ SendTypes
    /\ batch.at = "idle" => sent = <<>> /\ faults = 0
    /\ batch.at \in {"gso", "gsoPoll", "mmsg", "mmsgPoll", "wsa", "single"} => batch.done < batch.count
    /\ batch.at \in {"gso", "gsoPoll", "mmsg", "mmsgPoll", "wsa"} => InOrder(sent, batch.done)
    /\ batch.at \in {"gso", "gsoPoll", "mmsg", "mmsgPoll"} => system.name = "linux"
    /\ batch.at \in {"gso", "gsoPoll"} /\ ~system.segments /\ batch.done # 0 => Segments = 1
    /\ batch.at \in {"mmsg", "mmsgPoll"} /\ system.segments => faults > 0
    /\ batch.at = "wsa" => batch.done = 0
    /\ batch.at = "single" => /\ faults = 0 => InOrder(sent, batch.done)
                              /\ Spared => Few(Missing(sent, batch.done), faults)
    /\ batch.at = "done" => /\ faults = 0 => InOrder(sent, batch.count)
                            /\ Spared => Few(Missing(sent, batch.count), faults)

LEMMA SendStart == ASSUME Send!Init PROVE SendInv
  <1>1. /\ batch.at = "idle" /\ batch.count = 0 /\ batch.done = 0 /\ DOMAIN batch = {"at", "count", "done"}
        /\ sent = <<>> /\ faults = 0 /\ system \in Hosts
    BY DEF Send!Init, Send!NoBatch
  <1> QED BY <1>1 DEF SendInv, SendTypes, BatchStates

LEMMA NothingMissing ==
    ASSUME NEW n \in Nat, NEW f \in Nat, InOrder(sent, n)
    PROVE  Missing(sent, n) = {} /\ Few(Missing(sent, n), f)
  <1>1. Missing(sent, n) = {}
    BY DEF InOrder, Missing
  <1>2. IsFiniteSet({}) /\ Cardinality({}) = 0
    BY FS_EmptySet
  <1> QED BY <1>1, <1>2 DEF Few

(* The next shards leave behind those that did.                            *)
LEMMA SomeLeave ==
    ASSUME SendTypes, NEW n \in Nat, Send!Leaves(n)
    PROVE  /\ sent' \in Seq(Nat)
           /\ InOrder(sent, batch.done) => InOrder(sent', batch.done + n)
           /\ \A i \in 1 .. Len(sent) : \E j \in 1 .. Len(sent') : sent'[j] = sent[i]
           /\ n = 1 => \E j \in 1 .. Len(sent') : sent'[j] = batch.done + 1
  <1>1. PICK t : t = [k \in 1 .. n |-> batch.done + k]
    OBVIOUS
  <1>2. t \in Seq(Nat) /\ Len(t) = n /\ \A k \in 1 .. n : t[k] = batch.done + k
    BY <1>1 DEF SendTypes
  <1>3. sent' = sent \o t /\ sent \in Seq(Nat)
    BY <1>1 DEF Send!Leaves, SendTypes
  <1>4. /\ sent' \in Seq(Nat) /\ Len(sent') = Len(sent) + n
        /\ \A i \in 1 .. Len(sent) + n : sent'[i] = IF i <= Len(sent) THEN sent[i] ELSE t[i - Len(sent)]
    BY <1>2, <1>3
  <1>5. Len(sent) \in Nat
    BY <1>3
  <1>6. ASSUME InOrder(sent, batch.done) PROVE InOrder(sent', batch.done + n)
    <2>1. Len(sent) = batch.done /\ Len(sent') = batch.done + n
      BY <1>4, <1>6 DEF InOrder
    <2>2. ASSUME NEW k \in 1 .. batch.done + n PROVE sent'[k] = k
      <3>1. CASE k <= batch.done
        BY <1>4, <1>6, <2>1, <3>1 DEF InOrder, SendTypes
      <3>2. CASE k > batch.done
        <4>1. k - batch.done \in 1 .. n /\ sent'[k] = t[k - batch.done]
          BY <1>4, <2>1, <3>2 DEF SendTypes
        <4> QED BY <1>2, <4>1 DEF SendTypes
      <3> QED BY <3>1, <3>2 DEF SendTypes
    <2> QED BY <2>1, <2>2 DEF InOrder
  <1>7. ASSUME NEW i \in 1 .. Len(sent) PROVE i \in 1 .. Len(sent') /\ sent'[i] = sent[i]
    BY <1>4, <1>5
  <1>8. ASSUME n = 1 PROVE Len(sent') \in 1 .. Len(sent') /\ sent'[Len(sent')] = batch.done + 1
    BY <1>2, <1>4, <1>5, <1>8
  <1> QED BY <1>4, <1>6, <1>7, <1>8

(* Whatever the batch returns from, the next way starts from the first.    *)
LEMMA Singly ==
    ASSUME SendTypes, Send!Return(FALSE), UNCHANGED <<system, sent>>, faults' \in Nat,
           batch.done < batch.count, faults' = 0 => sent = <<>>
    PROVE  SendInv'
  <1>1. /\ batch'.at = "single" /\ batch'.done = 0 /\ batch'.count = batch.count
        /\ DOMAIN batch' = {"at", "count", "done"}
    BY DEF Send!Return, SendTypes
  <1>2. faults' = 0 => InOrder(sent', 0)
    BY DEF InOrder
  <1>3. Missing(sent', 0) = {}
    BY DEF Missing
  <1>4. Few(Missing(sent', 0), faults')
    <2>1. IsFiniteSet({}) /\ Cardinality({}) = 0
      BY FS_EmptySet
    <2> QED BY <1>3, <2>1 DEF Few
  <1>5. SendTypes' /\ 0 < batch.count
    BY <1>1 DEF SendTypes, BatchStates
  <1>6. Few(Missing(sent', batch'.done), faults')
    BY <1>1, <1>4
  <1>7. faults' = 0 => InOrder(sent', batch'.done)
    BY <1>1, <1>2
  <1> QED BY <1>1, <1>5, <1>6, <1>7 DEF SendInv

(* The whole batch left.                                                   *)
LEMMA AllLeft ==
    ASSUME SendTypes, Send!Return(TRUE), system' = system, faults' \in Nat,
           sent' \in Seq(Nat), InOrder(sent', batch.count)
    PROVE  SendInv'
  <1>1. /\ batch'.at = "done" /\ batch'.done = 0 /\ batch'.count = batch.count
        /\ DOMAIN batch' = {"at", "count", "done"}
    BY DEF Send!Return, SendTypes
  <1>2. SendTypes'
    BY <1>1 DEF SendTypes, BatchStates
  <1>3. Missing(sent', batch.count) = {}
    <2>1. \A k \in 1 .. batch.count : k \in 1 .. Len(sent') /\ sent'[k] = k
      BY DEF InOrder, SendTypes
    <2> QED BY <1>1, <2>1 DEF Missing
  <1>4. Few(Missing(sent', batch.count), faults')
    <2>1. IsFiniteSet({}) /\ Cardinality({}) = 0
      BY FS_EmptySet
    <2> QED BY <1>3, <2>1 DEF Few
  <1>5. Few(Missing(sent', batch'.count), faults')
    BY <1>1, <1>4
  <1>6. faults' = 0 => InOrder(sent', batch'.count)
    BY <1>1
  <1> QED BY <1>1, <1>2, <1>5, <1>6 DEF SendInv

LEMMA Segmented == ASSUME SendInv, Send!SendSegments PROVE SendInv'
  <1> USE DEF Send!settings
  <1>1. /\ SendTypes /\ batch.at = "gso" /\ system' = system /\ batch.done < batch.count
        /\ InOrder(sent, batch.done) /\ system.name = "linux"
        /\ ~system.segments /\ batch.done # 0 => Segments = 1
    BY DEF Send!SendSegments, SendInv
  <1>2. PICK segs : segs = Send!Min({batch.count - batch.done, Segments})
    OBVIOUS
  <1>3. /\ batch.count \in Nat /\ batch.done \in Nat /\ faults \in Nat /\ sent \in Seq(Nat)
        /\ DOMAIN batch = {"at", "count", "done"} /\ Segments \in Nat \ {0}
    BY <1>1, BatchAssumption DEF SendTypes
  <1>4. /\ segs \in Nat \ {0} /\ segs <= batch.count - batch.done /\ segs <= Segments
        /\ (segs = batch.count - batch.done \/ segs = Segments)
    <2>1. PICK a, b : a = batch.count - batch.done /\ b = Segments
      OBVIOUS
    <2>2. a \in Nat \ {0} /\ b \in Nat \ {0}
      BY <1>1, <1>3, <2>1
    <2>3. Send!Min({a, b}) = IF a <= b THEN a ELSE b
      BY <2>2 DEF Send!Min
    <2> QED BY <1>2, <2>1, <2>2, <2>3
  <1>5. ASSUME system.segments \/ segs = 1, Send!Leaves(segs), UNCHANGED faults,
               IF batch.done + segs = batch.count THEN Send!Return(TRUE)
               ELSE batch' = [batch EXCEPT !.done = @ + segs]
        PROVE  SendInv'
    <2>1. sent' \in Seq(Nat) /\ InOrder(sent', batch.done + segs)
      BY <1>1, <1>4, <1>5, SomeLeave
    <2>2. CASE batch.done + segs = batch.count
      BY <1>1, <1>3, <1>5, <2>1, <2>2, AllLeft
    <2>3. CASE batch.done + segs # batch.count
      <3>1. /\ batch'.at = "gso" /\ batch'.done = batch.done + segs /\ batch'.count = batch.count
            /\ DOMAIN batch' = {"at", "count", "done"}
        BY <1>1, <1>3, <1>5, <2>3
      <3>2. batch'.done \in Nat /\ batch'.done < batch'.count
        BY <1>3, <1>4, <2>3, <3>1
      <3>3. ~system.segments => Segments = 1
        <4>1. CASE ~system.segments /\ batch.done = 0
          BY <1>3, <1>4, <1>5, <2>3, <4>1
        <4> QED BY <1>1, <4>1
      <3>4. SendTypes'
        BY <1>1, <1>3, <1>5, <2>1, <3>1, <3>2 DEF SendTypes, BatchStates
      <3>5. InOrder(sent', batch'.done)
        BY <2>1, <3>1
      <3> QED BY <1>1, <3>1, <3>2, <3>3, <3>4, <3>5 DEF SendInv
    <2> QED BY <2>2, <2>3
  <1>6. ASSUME batch' = [batch EXCEPT !.at = "gsoPoll"], UNCHANGED <<sent, faults>> PROVE SendInv'
    <2>1. /\ batch'.at = "gsoPoll" /\ batch'.done = batch.done /\ batch'.count = batch.count
          /\ DOMAIN batch' = {"at", "count", "done"}
      BY <1>3, <1>6
    <2> QED BY <1>1, <1>6, <2>1 DEF SendInv, SendTypes, BatchStates
  <1>7. ASSUME (~system.segments /\ segs > 1 /\ UNCHANGED faults) \/ Send!Fault,
               Send!LeaveGso, UNCHANGED sent
        PROVE  SendInv'
    <2>1. faults' \in Nat /\ (faults' = 0 => ~system.segments /\ segs > 1)
      BY <1>3, <1>7 DEF Send!Fault
    <2>2. CASE batch.done # 0
      <3>1. faults' # 0
        BY <1>1, <1>4, <2>1, <2>2
      <3>2. Send!Return(FALSE)
        BY <1>7, <2>2 DEF Send!LeaveGso
      <3> QED BY <1>1, <1>7, <2>1, <3>1, <3>2, Singly
    <2>3. CASE batch.done = 0
      <3>1. batch' = [batch EXCEPT !.at = "mmsg"]
        BY <1>7, <2>3 DEF Send!LeaveGso
      <3>2. /\ batch'.at = "mmsg" /\ batch'.done = batch.done /\ batch'.count = batch.count
            /\ DOMAIN batch' = {"at", "count", "done"}
        BY <1>3, <3>1
      <3>3. system.segments => faults' > 0
        BY <2>1
      <3> QED BY <1>1, <1>7, <2>1, <3>2, <3>3 DEF SendInv, SendTypes, BatchStates
    <2> QED BY <2>2, <2>3
  <1> QED BY <1>2, <1>5, <1>6, <1>7 DEF Send!SendSegments

LEMMA Polled == ASSUME SendInv, Send!Poll PROVE SendInv'
  <1> USE DEF Send!settings
  <1>1. /\ SendTypes /\ batch.at \in {"gsoPoll", "mmsgPoll"} /\ UNCHANGED <<system, sent>>
        /\ batch.done < batch.count /\ InOrder(sent, batch.done) /\ system.name = "linux"
        /\ batch.at = "gsoPoll" /\ ~system.segments /\ batch.done # 0 => Segments = 1
        /\ batch.at = "mmsgPoll" /\ system.segments => faults > 0
    BY DEF Send!Poll, SendInv
  <1>2. /\ batch.count \in Nat /\ batch.done \in Nat /\ faults \in Nat /\ sent \in Seq(Nat)
        /\ DOMAIN batch = {"at", "count", "done"}
    BY <1>1 DEF SendTypes
  <1>3. ASSUME batch' = [batch EXCEPT !.at = IF @ = "gsoPoll" THEN "gso" ELSE "mmsg"], UNCHANGED faults
        PROVE  SendInv'
    <2>1. /\ batch'.at = IF batch.at = "gsoPoll" THEN "gso" ELSE "mmsg"
          /\ batch'.done = batch.done /\ batch'.count = batch.count
          /\ DOMAIN batch' = {"at", "count", "done"}
      BY <1>2, <1>3
    <2> QED BY <1>1, <1>3, <2>1 DEF SendInv, SendTypes, BatchStates
  <1>4. ASSUME Send!Fault, batch.at = "gsoPoll", Send!LeaveGso PROVE SendInv'
    <2>1. faults' \in Nat /\ faults' > 0
      BY <1>2, <1>4 DEF Send!Fault
    <2>2. CASE batch.done # 0
      <3>1. Send!Return(FALSE)
        BY <1>4, <2>2 DEF Send!LeaveGso
      <3> QED BY <1>1, <2>1, <3>1, Singly
    <2>3. CASE batch.done = 0
      <3>1. batch' = [batch EXCEPT !.at = "mmsg"]
        BY <1>4, <2>3 DEF Send!LeaveGso
      <3>2. /\ batch'.at = "mmsg" /\ batch'.done = batch.done /\ batch'.count = batch.count
            /\ DOMAIN batch' = {"at", "count", "done"}
        BY <1>2, <3>1
      <3> QED BY <1>1, <2>1, <3>2 DEF SendInv, SendTypes, BatchStates
    <2> QED BY <2>2, <2>3
  <1>5. ASSUME Send!Fault, batch.at = "mmsgPoll", Send!Return(TRUE) PROVE SendInv'
    <2>1. /\ batch'.at = "done" /\ batch'.done = 0 /\ batch'.count = batch.count
          /\ DOMAIN batch' = {"at", "count", "done"}
      BY <1>2, <1>5 DEF Send!Return
    <2>2. faults' \in Nat /\ faults' > 0 /\ (system.segments => faults' > 1)
      BY <1>1, <1>2, <1>5 DEF Send!Fault
    <2>3. ~Spared'
      BY <1>1, <2>2 DEF Spared
    <2> QED BY <1>1, <2>1, <2>2, <2>3 DEF SendInv, SendTypes, BatchStates
  <1> QED BY <1>1, <1>3, <1>4, <1>5 DEF Send!Poll

LEMMA SentMany == ASSUME SendInv, Send!SendMany PROVE SendInv'
  <1> USE DEF Send!settings
  <1>1. /\ SendTypes /\ batch.at = "mmsg" /\ system' = system /\ batch.done < batch.count
        /\ InOrder(sent, batch.done) /\ system.name = "linux"
        /\ system.segments => faults > 0
    BY DEF Send!SendMany, SendInv
  <1>2. /\ batch.count \in Nat /\ batch.done \in Nat /\ faults \in Nat /\ sent \in Seq(Nat)
        /\ DOMAIN batch = {"at", "count", "done"}
    BY <1>1 DEF SendTypes
  <1>3. ASSUME NEW k \in 1 .. batch.count - batch.done, Send!Leaves(k), UNCHANGED faults,
               IF k = batch.count - batch.done THEN Send!Return(TRUE)
               ELSE batch' = [batch EXCEPT !.done = @ + k]
        PROVE  SendInv'
    <2>1. sent' \in Seq(Nat) /\ InOrder(sent', batch.done + k)
      BY <1>1, <1>2, <1>3, SomeLeave
    <2>2. CASE k = batch.count - batch.done
      <3>1. batch.done + k = batch.count
        BY <1>2, <2>2
      <3> QED BY <1>1, <1>2, <1>3, <2>1, <2>2, <3>1, AllLeft
    <2>3. CASE k # batch.count - batch.done
      <3>1. /\ batch'.at = "mmsg" /\ batch'.done = batch.done + k /\ batch'.count = batch.count
            /\ DOMAIN batch' = {"at", "count", "done"}
        BY <1>1, <1>2, <1>3, <2>3
      <3>2. batch'.done \in Nat /\ batch'.done < batch'.count
        BY <1>2, <1>3, <2>3, <3>1
      <3>3. SendTypes'
        BY <1>1, <1>2, <1>3, <2>1, <3>1, <3>2 DEF SendTypes, BatchStates
      <3>4. InOrder(sent', batch'.done)
        BY <2>1, <3>1
      <3> QED BY <1>1, <1>3, <3>1, <3>2, <3>3, <3>4 DEF SendInv
    <2> QED BY <2>2, <2>3
  <1>4. ASSUME batch' = [batch EXCEPT !.at = "mmsgPoll"], UNCHANGED <<sent, faults>> PROVE SendInv'
    <2>1. /\ batch'.at = "mmsgPoll" /\ batch'.done = batch.done /\ batch'.count = batch.count
          /\ DOMAIN batch' = {"at", "count", "done"}
      BY <1>2, <1>4
    <2> QED BY <1>1, <1>4, <2>1 DEF SendInv, SendTypes, BatchStates
  <1>5. ASSUME Send!Fault, Send!Return(FALSE), UNCHANGED sent PROVE SendInv'
    <2>1. faults' \in Nat /\ faults' # 0
      BY <1>2, <1>5 DEF Send!Fault
    <2> QED BY <1>1, <1>5, <2>1, Singly
  <1> QED BY <1>3, <1>4, <1>5 DEF Send!SendMany

LEMMA SentWsa == ASSUME SendInv, Send!SendWsa PROVE SendInv'
  <1> USE DEF Send!settings
  <1>1. /\ SendTypes /\ batch.at = "wsa" /\ system' = system /\ batch.done < batch.count
        /\ InOrder(sent, batch.done) /\ batch.done = 0
    BY DEF Send!SendWsa, SendInv
  <1>2. batch.count \in Nat /\ faults \in Nat /\ sent \in Seq(Nat)
    BY <1>1 DEF SendTypes
  <1>3. ASSUME Send!Leaves(batch.count), Send!Return(TRUE), UNCHANGED faults PROVE SendInv'
    <2>1. sent' \in Seq(Nat) /\ InOrder(sent', batch.done + batch.count)
      BY <1>1, <1>2, <1>3, SomeLeave
    <2>2. batch.done + batch.count = batch.count
      BY <1>1, <1>2
    <2> QED BY <1>1, <1>2, <1>3, <2>1, <2>2, AllLeft
  <1>4. ASSUME UNCHANGED faults \/ Send!Fault, Send!Return(FALSE), UNCHANGED sent PROVE SendInv'
    <2>1. faults' \in Nat
      BY <1>2, <1>4 DEF Send!Fault
    <2>2. sent = <<>>
      BY <1>1, <1>2 DEF InOrder
    <2> QED BY <1>1, <1>4, <2>1, <2>2, Singly
  <1> QED BY <1>3, <1>4 DEF Send!SendWsa

LEMMA SentSingly == ASSUME SendInv, Send!SendSingly PROVE SendInv'
  <1> USE DEF Send!settings
  <1>1. /\ SendTypes /\ batch.at = "single" /\ system' = system /\ batch.done < batch.count
        /\ faults = 0 => InOrder(sent, batch.done)
        /\ Spared => Few(Missing(sent, batch.done), faults)
    BY DEF Send!SendSingly, SendInv
  <1>2. /\ batch.count \in Nat /\ batch.done \in Nat /\ faults \in Nat /\ sent \in Seq(Nat)
        /\ DOMAIN batch = {"at", "count", "done"}
    BY <1>1 DEF SendTypes
  <1>3. PICK d : d = batch.done + 1
    OBVIOUS
  <1>4. /\ batch'.done = d /\ batch'.count = batch.count /\ DOMAIN batch' = {"at", "count", "done"}
        /\ batch'.at = IF d = batch.count THEN "done" ELSE "single"
    <2>1. batch' = [batch EXCEPT !.done = batch.done + 1,
                                 !.at = IF batch.done + 1 = batch.count THEN "done" ELSE batch.at]
      BY DEF Send!SendSingly
    <2> QED BY <1>1, <1>2, <1>3, <2>1
  <1>5. d \in Nat /\ (d = batch.count \/ d < batch.count)
    BY <1>1, <1>2, <1>3
  <1>6. \/ Send!Leaves(1) /\ UNCHANGED faults
        \/ Send!Fault /\ UNCHANGED sent
    BY DEF Send!SendSingly
  <1>7. sent' \in Seq(Nat) /\ faults' \in Nat
    <2>1. CASE Send!Leaves(1) /\ UNCHANGED faults
      BY <1>1, <1>2, <2>1, SomeLeave
    <2> QED BY <1>2, <1>6, <2>1 DEF Send!Fault
  <1>8. faults' = 0 => InOrder(sent', d)
    <2>1. ASSUME faults' = 0 PROVE Send!Leaves(1) /\ faults = 0
      BY <1>2, <1>6, <2>1 DEF Send!Fault
    <2> QED BY <1>1, <1>3, <2>1, SomeLeave
  <1>9. Spared' => Few(Missing(sent', d), faults')
    <2> SUFFICES ASSUME Spared' PROVE Few(Missing(sent', d), faults')
      OBVIOUS
    <2>1. Spared /\ faults <= faults'
      BY <1>1, <1>2, <1>6 DEF Spared, Send!Fault
    <2>2. PICK old : old = Missing(sent, batch.done)
      OBVIOUS
    <2>3. IsFiniteSet(old) /\ Cardinality(old) <= faults
      BY <1>1, <2>1, <2>2 DEF Few
    <2>4. CASE Send!Leaves(1) /\ UNCHANGED faults
      <3>1. Missing(sent', d) \subseteq old
        <4>1. /\ \A i \in 1 .. Len(sent) : \E j \in 1 .. Len(sent') : sent'[j] = sent[i]
              /\ \E j \in 1 .. Len(sent') : sent'[j] = batch.done + 1
          BY <1>1, <2>4, SomeLeave
        <4>2. \A k \in 1 .. d : k \in 1 .. batch.done \/ k = d
          BY <1>2, <1>3
        <4> QED BY <1>3, <2>2, <4>1, <4>2 DEF Missing
      <3>2. IsFiniteSet(Missing(sent', d)) /\ Cardinality(Missing(sent', d)) <= Cardinality(old)
        BY <2>3, <3>1, FS_Subset
      <3>3. Cardinality(old) \in Nat /\ Cardinality(Missing(sent', d)) \in Nat
        BY <2>3, <3>2, FS_CardinalityType
      <3> QED BY <1>2, <2>3, <2>4, <3>2, <3>3 DEF Few
    <2>5. CASE Send!Fault /\ UNCHANGED sent
      <3>1. Missing(sent', d) \subseteq old \cup {d}
        <4>1. \A k \in 1 .. d : k \in 1 .. batch.done \/ k = d
          BY <1>2, <1>3
        <4> QED BY <2>2, <2>5, <4>1 DEF Missing
      <3>2. IsFiniteSet(old \cup {d}) /\ Cardinality(old \cup {d}) <= Cardinality(old) + 1
        <4>1. Cardinality(old) \in Nat
          BY <2>3, FS_CardinalityType
        <4>2. /\ IsFiniteSet(old \cup {d})
              /\ Cardinality(old \cup {d}) = IF d \in old THEN Cardinality(old) ELSE Cardinality(old) + 1
          BY <2>3, FS_AddElement
        <4> QED BY <4>1, <4>2
      <3>3. IsFiniteSet(Missing(sent', d)) /\ Cardinality(Missing(sent', d)) <= Cardinality(old \cup {d})
        BY <3>1, <3>2, FS_Subset
      <3>4. /\ Cardinality(old) \in Nat /\ Cardinality(Missing(sent', d)) \in Nat
            /\ Cardinality(old \cup {d}) \in Nat
        BY <2>3, <3>2, <3>3, FS_CardinalityType
      <3>5. faults' = faults + 1
        BY <2>5 DEF Send!Fault
      <3> QED BY <1>2, <2>3, <3>2, <3>3, <3>4, <3>5 DEF Few
    <2> QED BY <1>6, <2>4, <2>5
  <1>10. SendTypes'
    BY <1>1, <1>2, <1>4, <1>5, <1>7 DEF SendTypes, BatchStates
  <1>11. CASE d = batch.count
    <2>1. batch'.at = "done" /\ batch'.count = d
      BY <1>4, <1>11
    <2> QED BY <1>8, <1>9, <1>10, <2>1 DEF SendInv
  <1>12. CASE d < batch.count
    <2>1. batch'.at = "single" /\ batch'.done = d /\ d < batch'.count
      BY <1>2, <1>4, <1>5, <1>12
    <2> QED BY <1>8, <1>9, <1>10, <2>1 DEF SendInv
  <1> QED BY <1>5, <1>11, <1>12

LEMMA SendStep == ASSUME SendInv, Send!Next PROVE SendInv'
  <1> USE DEF Send!settings
  <1>0. ASSUME UNCHANGED <<system, batch, sent, faults>> PROVE SendInv'
    BY <1>0 DEF SendInv, SendTypes, Spared
  <1>1. ASSUME NEW n \in 1 .. BatchShards, Send!StartBatch(n) PROVE SendInv'
    <2>1. /\ sent = <<>> /\ faults = 0 /\ UNCHANGED <<sent, faults, system>> /\ system \in Hosts
          /\ batch' = [at |-> IF system.name = "linux" THEN "gso" ELSE "wsa", count |-> n, done |-> 0]
      BY <1>1 DEF Send!StartBatch, SendInv, SendTypes
    <2>2. /\ batch'.at = IF system.name = "linux" THEN "gso" ELSE "wsa"
          /\ batch'.count = n /\ batch'.done = 0 /\ DOMAIN batch' = {"at", "count", "done"}
      BY <2>1
    <2>3. n \in Nat /\ 0 < n /\ InOrder(<<>>, 0)
      BY DEF InOrder
    <2> QED BY <2>1, <2>2, <2>3 DEF SendInv, SendTypes, BatchStates
  <1>2. CASE Send!SendSegments
    BY <1>2, Segmented
  <1>3. CASE Send!Poll
    BY <1>3, Polled
  <1>4. CASE Send!SendMany
    BY <1>4, SentMany
  <1>5. CASE Send!SendWsa
    BY <1>5, SentWsa
  <1>6. CASE Send!SendSingly
    BY <1>6, SentSingly
  <1>7. ASSUME NEW s, Send!ClientPing(s) \/ Send!ReceivePing(s) \/ Send!RunPosted(s) \/ Send!PopFrame(s)
        PROVE  SendInv'
    BY <1>0, <1>7 DEF Send!ClientPing, Send!ReceivePing, Send!RunPosted, Send!PopFrame, Send!batchVars
  <1>8. ASSUME NEW b, Send!Call(b) \/ Send!CallInput(b) PROVE SendInv'
    BY <1>0, <1>8 DEF Send!Call, Send!CallInput, Send!batchVars
  <1>9. CASE Send!StartBroadcast \/ Send!SendBlock \/ Send!FinishFrame \/ Send!SendThrows \/ Send!SendAudio
             \/ Send!AudioThrows \/ Send!CallBroken \/ Send!SendFeedback
    BY <1>0, <1>9 DEF Send!StartBroadcast, Send!SendBlock, Send!FinishFrame, Send!SendThrows, Send!SendAudio,
       Send!AudioThrows, Send!CallBroken, Send!SendFeedback, Send!batchVars
  <1>10. ASSUME NEW x, NEW s, Send!EnableOptions(x, s) \/ Send!AskFlow(x, s) PROVE SendInv'
    BY <1>0, <1>10 DEF Send!EnableOptions, Send!AskFlow, Send!batchVars
  <1>11. ASSUME NEW q, Send!DropOptions(q) \/ Send!DropFlow(q) \/ Send!AddFlow(q) PROVE SendInv'
    BY <1>0, <1>11 DEF Send!DropOptions, Send!DropFlow, Send!AddFlow, Send!batchVars
  <1> QED BY <1>1, <1>2, <1>3, <1>4, <1>5, <1>6, <1>7, <1>8, <1>9, <1>10, <1>11 DEF Send!Next

LEMMA SendKept == ASSUME SendInv PROVE Send!BatchLeavesOnce
  <1> SUFFICES ASSUME batch.at = "done"
               PROVE  /\ faults = 0 => sent = [k \in 1 .. batch.count |-> k]
                      /\ Spared => Send!Cardinality(Missing(sent, batch.count)) <= faults
    BY DEF Send!BatchLeavesOnce, Spared, Missing
  <1>1. /\ sent \in Seq(Nat) /\ (faults = 0 => InOrder(sent, batch.count))
        /\ Spared => Few(Missing(sent, batch.count), faults)
    BY DEF SendInv, SendTypes
  <1>2. faults = 0 => sent = [k \in 1 .. batch.count |-> k]
    BY <1>1 DEF InOrder
  <1>3. \A S : Send!Cardinality(S) = Cardinality(S)
    BY DEF Send!Cardinality, Cardinality
  <1> QED BY <1>1, <1>2, <1>3 DEF Few

-----------------------------------------------------------------------------
(* StreamWire, quality of service.  A socket is connected only for a call  *)
(* that is under way, and its options are taken back by the last session.  *)
QosInv ==
    /\ tagged \in [Qos!Sockets -> BOOLEAN] /\ DOMAIN linked = Qos!Sockets
    /\ \A q \in qos : q.socket \in Qos!Sockets
    /\ \A a \in asking : a.socket \in Qos!Sockets
    /\ asking # {} => system.name # "linux"
    /\ \A q \in qos : system.name = "linux" /\ q.set => tagged[q.socket]
    /\ \A s \in Qos!Sockets : linked[s] # "none" => \E a \in asking : a.socket = s /\ a.hack

LEMMA QosStart == ASSUME Qos!Init PROVE QosInv
  BY DEF Qos!Init, QosInv

LEMMA QosStep == ASSUME QosInv, Qos!Next PROVE QosInv'
  <1> USE DEF Qos!settings
  <1>0. ASSUME UNCHANGED <<qos, asking, tagged, linked, system>> PROVE QosInv'
    BY <1>0 DEF QosInv
  <1>1. ASSUME NEW x, NEW s \in Qos!Sockets, Qos!EnableOptions(x, s) PROVE QosInv'
    <2>1. PICK yes \in BOOLEAN :
            /\ qos' = qos \cup {[session |-> x, socket |-> s, set |-> yes, peer |-> x]}
            /\ tagged' = [tagged EXCEPT ![s] = @ \/ yes]
      BY <1>1 DEF Qos!EnableOptions
    <2>2. UNCHANGED <<asking, linked, system>>
      BY <1>1 DEF Qos!EnableOptions
    <2>3. tagged' \in [Qos!Sockets -> BOOLEAN] /\ \A t \in Qos!Sockets : tagged[t] => tagged'[t]
      BY <2>1 DEF QosInv
    <2>4. yes => tagged'[s]
      BY <2>1 DEF QosInv
    <2> QED BY <2>1, <2>2, <2>3, <2>4 DEF QosInv
  <1>2. ASSUME NEW q \in qos, Qos!DropOptions(q) PROVE QosInv'
    <2>1. /\ qos' = qos \ {q} /\ UNCHANGED <<asking, linked, system>>
          /\ tagged' = [tagged EXCEPT ![q.socket] = @ /\ ~(qos' = {} /\ q.set)]
      BY <1>2 DEF Qos!DropOptions
    <2>2. tagged' \in [Qos!Sockets -> BOOLEAN]
      BY <2>1 DEF QosInv
    <2>3. qos' # {} => \A t \in Qos!Sockets : tagged[t] => tagged'[t]
      BY <2>1 DEF QosInv
    <2> QED BY <2>1, <2>2, <2>3 DEF QosInv
  <1>3. ASSUME NEW x, NEW s \in Qos!Sockets, Qos!AskFlow(x, s) PROVE QosInv'
    <2>1. PICK hacked \in BOOLEAN :
            /\ asking' = asking \cup {[session |-> x, socket |-> s, hack |-> hacked]}
            /\ linked' = IF hacked THEN [linked EXCEPT ![s] = x] ELSE linked
      BY <1>3 DEF Qos!AskFlow
    <2>2. PICK new : new = [session |-> x, socket |-> s, hack |-> hacked]
      OBVIOUS
    <2>3. new.socket = s /\ new.hack = hacked /\ asking' = asking \cup {new}
      BY <2>1, <2>2
    <2>4. system.name # "linux" /\ UNCHANGED <<qos, tagged, system>>
      BY <1>3 DEF Qos!AskFlow
    <2>5. /\ DOMAIN linked' = Qos!Sockets
          /\ \A t \in Qos!Sockets : linked'[t] = linked[t] \/ (hacked /\ t = s)
      BY <2>1 DEF QosInv
    <2> QED BY <2>3, <2>4, <2>5 DEF QosInv
  <1>4. ASSUME NEW a \in asking, Qos!AddFlow(a) PROVE QosInv'
    <2>1. /\ asking' = asking \ {a} /\ UNCHANGED <<tagged, system>>
          /\ linked' = IF a.hack THEN [linked EXCEPT ![a.socket] = "none"] ELSE linked
      BY <1>4 DEF Qos!AddFlow
    <2>2. \A q \in qos' : q \in qos \/ q.socket = a.socket
      BY <1>4 DEF Qos!AddFlow
    <2>3. system.name # "linux"
      BY DEF QosInv
    <2>4. /\ DOMAIN linked' = Qos!Sockets
          /\ \A t \in Qos!Sockets : linked'[t] # "none" => linked[t] # "none" /\ (a.hack => t # a.socket)
      BY <2>1 DEF QosInv
    <2> QED BY <2>1, <2>2, <2>3, <2>4 DEF QosInv
  <1>5. ASSUME NEW q, Qos!DropFlow(q) PROVE QosInv'
    BY <1>5 DEF Qos!DropFlow, QosInv
  <1>6. ASSUME NEW n, Qos!PopFrame(n) \/ Qos!StartBatch(n) PROVE QosInv'
    BY <1>0, <1>6 DEF Qos!PopFrame, Qos!StartBatch, Qos!qosVars
  <1>7. ASSUME NEW s, Qos!ClientPing(s) \/ Qos!ReceivePing(s) \/ Qos!RunPosted(s) PROVE QosInv'
    BY <1>0, <1>7 DEF Qos!ClientPing, Qos!ReceivePing, Qos!RunPosted, Qos!qosVars
  <1>8. ASSUME NEW b, Qos!Call(b) \/ Qos!CallInput(b) PROVE QosInv'
    BY <1>0, <1>8 DEF Qos!Call, Qos!CallInput, Qos!qosVars
  <1>9. CASE Qos!StartBroadcast \/ Qos!SendBlock \/ Qos!FinishFrame \/ Qos!SendThrows \/ Qos!SendAudio
             \/ Qos!AudioThrows \/ Qos!CallBroken \/ Qos!SendFeedback
    BY <1>0, <1>9 DEF Qos!StartBroadcast, Qos!SendBlock, Qos!FinishFrame, Qos!SendThrows, Qos!SendAudio,
       Qos!AudioThrows, Qos!CallBroken, Qos!SendFeedback, Qos!qosVars
  <1>10. CASE Qos!SendSegments \/ Qos!Poll \/ Qos!SendMany \/ Qos!SendWsa \/ Qos!SendSingly
    BY <1>0, <1>10 DEF Qos!SendSegments, Qos!Poll, Qos!SendMany, Qos!SendWsa, Qos!SendSingly, Qos!qosVars
  <1> QED BY <1>1, <1>2, <1>3, <1>4, <1>5, <1>6, <1>7, <1>8, <1>9, <1>10 DEF Qos!Next

LEMMA QosKept == ASSUME QosInv PROVE Qos!QosHolds
  BY DEF QosInv, Qos!QosHolds

-----------------------------------------------------------------------------
(* What is sent, whichever part of it the suite looks at.                  *)
SentInv ==
    /\ focus = "wire" => WireInv
    /\ focus = "audioWire" => GroupInv
    /\ focus = "send" => SendInv
    /\ focus = "qos" => QosInv

LEMMA SentStart == ASSUME Start PROVE SentInv
  <1>1. focus = "wire" => Wire!Init
    BY DEF Start
  <1>2. focus = "audioWire" => AudioWire!Init
    BY DEF Start
  <1>3. focus = "send" => Send!Init
    BY DEF Start
  <1>4. focus = "qos" => Qos!Init
    BY DEF Start
  <1> QED BY <1>1, <1>2, <1>3, <1>4, WireStart, GroupStart, SendStart, QosStart DEF SentInv

LEMMA SentStep == ASSUME SentInv, [Steps]_allVars PROVE SentInv'
  <1>1. /\ focus' = focus
        /\ \/ focus = "wire" /\ Wire!Next
           \/ focus = "audioWire" /\ AudioWire!Next
           \/ focus = "control" /\ Control!Next
           \/ focus = "send" /\ Send!Next
           \/ focus = "qos" /\ Qos!Next
           \/ UNCHANGED wireVars
    BY ComponentSteps
  <1>2. CASE UNCHANGED wireVars
    <2>1. UNCHANGED <<fec, minimum, counter, wireFrames, lowseq, wire, frame, heard, base, audioSeq,
                      shards, parity, system, batch, sent, faults, qos, asking, tagged, linked>>
      BY <1>2 DEF wireVars
    <2>2. WireInv => WireInv'
      BY <2>1 DEF WireInv, WireTypes, BlocksInv, BlockOk, Wire!FreshIv
    <2>3. GroupInv => GroupInv'
      BY <2>1 DEF GroupInv
    <2>4. SendInv => SendInv'
      BY <2>1 DEF SendInv, SendTypes, Spared
    <2>5. QosInv => QosInv'
      BY <2>1 DEF QosInv
    <2> QED BY <1>1, <2>2, <2>3, <2>4, <2>5 DEF SentInv
  <1>3. CASE focus = "wire" /\ Wire!Next
    BY <1>1, <1>3, WireStep DEF SentInv
  <1>4. CASE focus = "audioWire" /\ AudioWire!Next
    BY <1>1, <1>4, GroupStep DEF SentInv
  <1>5. CASE focus = "send" /\ Send!Next
    BY <1>1, <1>5, SendStep DEF SentInv
  <1>6. CASE focus = "qos" /\ Qos!Next
    BY <1>1, <1>6, QosStep DEF SentInv
  <1>7. CASE focus = "control" /\ Control!Next
    BY <1>1, <1>7 DEF SentInv
  <1> QED BY <1>1, <1>2, <1>3, <1>4, <1>5, <1>6, <1>7

(* A client can put together what it gets: every block of a frame says how *)
(* many data and parity shards it has and where it starts, no IV is used   *)
(* for two shards, the parity of the audio covers its own four packets     *)
(* across the wrap of their numbers, a batch that is sent in whatever way  *)
(* the host has leaves once and in order while no call fails, and a shared *)
(* socket keeps its options while a session streams over it.               *)
THEOREM WhatIsSentIsSound == SuiteSpec => []WireIsSound
  <1>1. Start => SentInv
    BY SentStart
  <1>2. SentInv /\ [Steps]_allVars => SentInv'
    BY SentStep
  <1>3. SentInv => WireIsSound
    <2>1. WireInv => Wire!FramesDecode /\ Wire!FreshIv
      BY WireDecodes DEF WireInv, BlocksInv
    <2>2. GroupInv => AudioWire!FreshIv /\ AudioWire!ParityCoversItsGroup
      BY GroupKept
    <2>3. SendInv => Send!BatchLeavesOnce
      BY SendKept
    <2>4. QosInv => Qos!QosHolds
      BY QosKept
    <2> QED BY <2>1, <2>2, <2>3, <2>4 DEF SentInv, WireIsSound
  <1> QED BY <1>1, <1>2, <1>3, PTL DEF SuiteSpec
=============================================================================
