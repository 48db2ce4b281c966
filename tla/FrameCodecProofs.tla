-------------------------- MODULE FrameCodecProofs --------------------------
(***************************************************************************)
(* Theorems about the frame codec, for every request, every frame of       *)
(* another node, and whatever the bytes hold that the code does not write. *)
(***************************************************************************)
EXTENDS FrameCodec, TLAPS

-----------------------------------------------------------------------------
(***************************************************************************)
(* What each conversion of a register does to one bit.                     *)
(***************************************************************************)

LEMMA ShlBit ==
  ASSUME NEW w \in Byte, NEW n \in Nat, NEW b \in Int
  PROVE  b \in Shl(w, n) <=> b \in 0..31 /\ b - n \in w
<1>1. \A i \in w : i \in Int
  BY DEF Byte
<1>2. ASSUME b \in 0..31, b - n \in w
      PROVE  b \in Shl(w, n)
  <2>1. (b - n) + n = b
    OBVIOUS
  <2>. QED
    BY <1>2, <2>1 DEF Shl
<1>3. ASSUME b \in Shl(w, n)
      PROVE  b \in 0..31 /\ b - n \in w
  <2>1. PICK i \in w : b = i + n
    BY <1>3 DEF Shl
  <2>2. b - n = i
    BY <1>1, <2>1
  <2>. QED
    BY <1>3, <2>2 DEF Shl
<1>. QED
  BY <1>2, <1>3

LEMMA ShrBit ==
  ASSUME NEW w \in Word, NEW n \in Nat, NEW b \in Nat
  PROVE  b \in Shr(w, n) <=> b + n \in w
<1>1. \A i \in w : i \in Nat
  BY DEF Word
<1>2. ASSUME b + n \in w
      PROVE  b \in Shr(w, n)
  <2>1. b + n \notin 0..(n - 1) /\ (b + n) - n = b
    OBVIOUS
  <2>. QED
    BY <1>2, <2>1 DEF Shr
<1>3. ASSUME b \in Shr(w, n)
      PROVE  b + n \in w
  <2>1. PICK i \in w \ (0..(n - 1)) : b = i - n
    BY <1>3 DEF Shr
  <2>2. b + n = i
    BY <1>1, <2>1
  <2>. QED
    BY <2>1, <2>2
<1>. QED
  BY <1>2, <1>3

LEMMA ShrType ==
  ASSUME NEW w \in Word, NEW n \in Nat
  PROVE  Shr(w, n) \in Word
<1>1. ASSUME NEW i \in w \ (0..(n - 1)) PROVE i - n \in 0..31
  BY DEF Word
<1>. QED
  BY <1>1 DEF Shr, Word

\* The bytes of the reversed registers.
LEMMA RevByte ==
  ASSUME NEW w \in Word, NEW k \in 0..3
  PROVE  ByteOf(Rev(w), k) = {j \in 0..7 : 24 - 8 * k + j \in w}
<1>. DEFINE f(i) == 24 - 8 * (i \div 8) + (i % 8)
<1>1. \A i \in w : i \in 0..31
  BY DEF Word
<1>2. ASSUME NEW i \in 0..31
      PROVE  f(i) \in 0..31 /\ f(f(i)) = i
  OBVIOUS
<1>3. ASSUME NEW j \in 0..7
      PROVE  j + 8 * k \in 0..31 /\ f(j + 8 * k) = 24 - 8 * k + j
  OBVIOUS
<1>4. ASSUME NEW b \in 0..31
      PROVE  b \in Rev(w) <=> f(b) \in w
  <2>1. ASSUME b \in Rev(w) PROVE f(b) \in w
    <3>1. PICK i \in w : b = f(i)
      BY <2>1 DEF Rev
    <3>. HIDE DEF f
    <3>. QED
      BY <1>1, <1>2, <3>1
  <2>2. ASSUME f(b) \in w PROVE b \in Rev(w)
    <3>1. f(f(b)) = b
      BY <1>2
    <3>2. \E i \in w : b = f(i)
      <4>. HIDE DEF f
      <4>. QED
        BY <2>2, <3>1
    <3>. QED
      BY <3>2 DEF Rev
  <2>. QED
    BY <2>1, <2>2
<1>. HIDE DEF f
<1>5. ASSUME NEW j
      PROVE  j \in ByteOf(Rev(w), k) <=> j \in 0..7 /\ 24 - 8 * k + j \in w
  <2>1. j \in ByteOf(Rev(w), k) <=> \E i \in Rev(w) \cap ((8 * k)..(8 * k + 7)) : j = i - 8 * k
    BY DEF ByteOf
  <2>2. ASSUME NEW i \in Rev(w) \cap ((8 * k)..(8 * k + 7)), j = i - 8 * k
        PROVE  j \in 0..7 /\ 24 - 8 * k + j \in w
    <3>1. j \in 0..7 /\ j + 8 * k = i
      BY <2>2
    <3>. QED
      BY <1>3, <1>4, <3>1
  <2>3. ASSUME j \in 0..7, 24 - 8 * k + j \in w
        PROVE  \E i \in Rev(w) \cap ((8 * k)..(8 * k + 7)) : j = i - 8 * k
    <3>1. j + 8 * k \in (8 * k)..(8 * k + 7) /\ j = (j + 8 * k) - 8 * k
      BY <2>3
    <3>2. j + 8 * k \in Rev(w)
      BY <1>3, <1>4, <2>3
    <3>. QED
      BY <3>1, <3>2
  <2>. QED
    BY <2>1, <2>2, <2>3
<1>. QED
  BY <1>5

LEMMA Rev16Byte ==
  ASSUME NEW w \in Word, NEW k \in 0..1
  PROVE  ByteOf(Rev16(w), k) = {j \in 0..7 : 8 - 8 * k + j \in w}
<1>. DEFINE f(i) == IF i % 16 < 8 THEN i + 8 ELSE i - 8
<1>1. \A i \in w : i \in 0..31
  BY DEF Word
<1>2. ASSUME NEW i \in 0..31
      PROVE  f(i) \in 0..31 /\ f(f(i)) = i
  OBVIOUS
<1>3. ASSUME NEW j \in 0..7
      PROVE  j + 8 * k \in 0..31 /\ f(j + 8 * k) = 8 - 8 * k + j
  OBVIOUS
<1>4. ASSUME NEW b \in 0..31
      PROVE  b \in Rev16(w) <=> f(b) \in w
  <2>1. ASSUME b \in Rev16(w) PROVE f(b) \in w
    <3>1. PICK i \in w : b = f(i)
      BY <2>1 DEF Rev16
    <3>. HIDE DEF f
    <3>. QED
      BY <1>1, <1>2, <3>1
  <2>2. ASSUME f(b) \in w PROVE b \in Rev16(w)
    <3>1. f(f(b)) = b
      BY <1>2
    <3>2. \E i \in w : b = f(i)
      <4>. HIDE DEF f
      <4>. QED
        BY <2>2, <3>1
    <3>. QED
      BY <3>2 DEF Rev16
  <2>. QED
    BY <2>1, <2>2
<1>. HIDE DEF f
<1>5. ASSUME NEW j
      PROVE  j \in ByteOf(Rev16(w), k) <=> j \in 0..7 /\ 8 - 8 * k + j \in w
  <2>1. j \in ByteOf(Rev16(w), k) <=> \E i \in Rev16(w) \cap ((8 * k)..(8 * k + 7)) : j = i - 8 * k
    BY DEF ByteOf
  <2>2. ASSUME NEW i \in Rev16(w) \cap ((8 * k)..(8 * k + 7)), j = i - 8 * k
        PROVE  j \in 0..7 /\ 8 - 8 * k + j \in w
    <3>1. j \in 0..7 /\ j + 8 * k = i
      BY <2>2
    <3>. QED
      BY <1>3, <1>4, <3>1
  <2>3. ASSUME j \in 0..7, 8 - 8 * k + j \in w
        PROVE  \E i \in Rev16(w) \cap ((8 * k)..(8 * k + 7)) : j = i - 8 * k
    <3>1. j + 8 * k \in (8 * k)..(8 * k + 7) /\ j = (j + 8 * k) - 8 * k
      BY <2>3
    <3>2. j + 8 * k \in Rev16(w)
      BY <1>3, <1>4, <2>3
    <3>. QED
      BY <3>1, <3>2
  <2>. QED
    BY <2>1, <2>2, <2>3
<1>. QED
  BY <1>5

-----------------------------------------------------------------------------
(***************************************************************************)
(* The identifier register.                                                *)
(***************************************************************************)

\* Where the bits of the type and of the identifier bytes are.
LEMMA IdBits ==
  ASSUME NEW m \in [0..13 -> Byte], m[0] \in FrameTypes
  PROVE  /\ IdRegister(m) \in Word /\ 0 \notin IdRegister(m)
         /\ IdRegister(m) \cap EXT_RTR = m[0]
         /\ IsExtended(IdRegister(m)) <=> IsExtended(m[0])
         /\ IsExtended(m[0]) =>
                \A j \in 0..7 : /\ 27 + j \in IdRegister(m) <=> j \in m[1] /\ j <= 4
                                /\ 19 + j \in IdRegister(m) <=> j \in m[2]
                                /\ 11 + j \in IdRegister(m) <=> j \in m[3]
                                /\ 3 + j \in IdRegister(m) <=> j \in m[4]
         /\ ~IsExtended(m[0]) =>
                /\ \A j \in 0..7 : /\ 29 + j \in IdRegister(m) <=> j \in m[1] /\ j <= 2
                                   /\ 21 + j \in IdRegister(m) <=> j \in m[2]
                /\ \A b \in 3..20 : b \notin IdRegister(m)
<1>1. /\ m[0] \in Byte /\ m[1] \in Byte /\ m[2] \in Byte /\ m[3] \in Byte /\ m[4] \in Byte
  OBVIOUS
<1>2. \A k \in 0..4 : \A i \in m[k] : i \in 0..7
  BY <1>1 DEF Byte
<1>3. \A i \in m[0] : i = 1 \/ i = 2
  BY DEF FrameTypes, STD_DATA, STD_RTR, EXT_DATA, EXT_RTR
<1>4. ASSUME NEW b \in Int
      PROVE  b \in IdRegister(m) <=>
               \/ b \in m[0]
               \/ /\ b \in 0..31
                  /\ IF IsExtended(m[0])
                     THEN b - 27 \in m[1] \/ b - 19 \in m[2] \/ b - 11 \in m[3] \/ b - 3 \in m[4]
                     ELSE b - 29 \in m[1] \/ b - 21 \in m[2]
  <2>1. /\ b \in Shl(m[1], 27) <=> b \in 0..31 /\ b - 27 \in m[1]
        /\ b \in Shl(m[2], 19) <=> b \in 0..31 /\ b - 19 \in m[2]
        /\ b \in Shl(m[3], 11) <=> b \in 0..31 /\ b - 11 \in m[3]
        /\ b \in Shl(m[4], 3) <=> b \in 0..31 /\ b - 3 \in m[4]
        /\ b \in Shl(m[1], 29) <=> b \in 0..31 /\ b - 29 \in m[1]
        /\ b \in Shl(m[2], 21) <=> b \in 0..31 /\ b - 21 \in m[2]
    BY <1>1, ShlBit
  <2>2. /\ 24 + ExidPos = 27 /\ 16 + ExidPos = 19 /\ 8 + ExidPos = 11 /\ ExidPos = 3
        /\ 8 + StidPos = 29 /\ StidPos = 21
    BY DEF ExidPos, StidPos
  <2>. QED
    BY <2>1, <2>2 DEF IdRegister
<1>5. \A b \in IdRegister(m) : b \in 0..31
  <2>1. \A n \in Nat : \A w : Shl(w, n) \subseteq 0..31
    BY DEF Shl
  <2>2. /\ 24 + ExidPos \in Nat /\ 16 + ExidPos \in Nat /\ 8 + ExidPos \in Nat /\ ExidPos \in Nat
        /\ 8 + StidPos \in Nat /\ StidPos \in Nat
    BY DEF ExidPos, StidPos
  <2>3. \A b \in m[0] : b \in 0..31
    BY <1>3
  <2>. QED
    BY <2>1, <2>2, <2>3 DEF IdRegister
<1>6. IdRegister(m) \in Word
  BY <1>5 DEF Word
<1>7. 0 \notin IdRegister(m)
  BY <1>2, <1>3, <1>4
<1>8. 1 \in IdRegister(m) <=> 1 \in m[0]
  BY <1>2, <1>4
<1>9. 2 \in IdRegister(m) <=> 2 \in m[0]
  BY <1>2, <1>4
<1>10. IdRegister(m) \cap EXT_RTR = m[0]
  BY <1>3, <1>8, <1>9 DEF EXT_RTR
<1>11. IsExtended(IdRegister(m)) <=> IsExtended(m[0])
  BY <1>9 DEF IsExtended, EXT_DATA, STD_DATA
<1>12. ASSUME IsExtended(m[0]), NEW j \in 0..7
       PROVE  /\ 27 + j \in IdRegister(m) <=> j \in m[1] /\ j <= 4
              /\ 19 + j \in IdRegister(m) <=> j \in m[2]
              /\ 11 + j \in IdRegister(m) <=> j \in m[3]
              /\ 3 + j \in IdRegister(m) <=> j \in m[4]
  <2>1. \A b \in 3..38 : b \notin m[0]
    BY <1>3
  <2>2. 27 + j \in IdRegister(m) <=> j \in m[1] /\ j <= 4
    <3>1. (27 + j) - 27 = j /\ 27 + j \in 3..38 /\ (27 + j \in 0..31 <=> j <= 4)
      OBVIOUS
    <3>2. (27 + j) - 19 \notin 0..7 /\ (27 + j) - 11 \notin 0..7 /\ (27 + j) - 3 \notin 0..7
      OBVIOUS
    <3>. QED
      BY <1>2, <1>4, <1>12, <2>1, <3>1, <3>2
  <2>3. 19 + j \in IdRegister(m) <=> j \in m[2]
    <3>1. (19 + j) - 19 = j /\ 19 + j \in 3..38 /\ 19 + j \in 0..31
      OBVIOUS
    <3>2. (19 + j) - 27 \notin 0..7 /\ (19 + j) - 11 \notin 0..7 /\ (19 + j) - 3 \notin 0..7
      OBVIOUS
    <3>. QED
      BY <1>2, <1>4, <1>12, <2>1, <3>1, <3>2
  <2>4. 11 + j \in IdRegister(m) <=> j \in m[3]
    <3>1. (11 + j) - 11 = j /\ 11 + j \in 3..38 /\ 11 + j \in 0..31
      OBVIOUS
    <3>2. (11 + j) - 27 \notin 0..7 /\ (11 + j) - 19 \notin 0..7 /\ (11 + j) - 3 \notin 0..7
      OBVIOUS
    <3>. QED
      BY <1>2, <1>4, <1>12, <2>1, <3>1, <3>2
  <2>5. 3 + j \in IdRegister(m) <=> j \in m[4]
    <3>1. (3 + j) - 3 = j /\ 3 + j \in 3..38 /\ 3 + j \in 0..31
      OBVIOUS
    <3>2. (3 + j) - 27 \notin 0..7 /\ (3 + j) - 19 \notin 0..7 /\ (3 + j) - 11 \notin 0..7
      OBVIOUS
    <3>. QED
      BY <1>2, <1>4, <1>12, <2>1, <3>1, <3>2
  <2>. QED
    BY <2>2, <2>3, <2>4, <2>5
<1>13. ASSUME ~IsExtended(m[0]), NEW j \in 0..7
       PROVE  /\ 29 + j \in IdRegister(m) <=> j \in m[1] /\ j <= 2
              /\ 21 + j \in IdRegister(m) <=> j \in m[2]
  <2>1. \A b \in 3..38 : b \notin m[0]
    BY <1>3
  <2>2. 29 + j \in IdRegister(m) <=> j \in m[1] /\ j <= 2
    <3>1. (29 + j) - 29 = j /\ 29 + j \in 3..38 /\ (29 + j \in 0..31 <=> j <= 2)
      OBVIOUS
    <3>2. (29 + j) - 21 \notin 0..7
      OBVIOUS
    <3>. QED
      BY <1>2, <1>4, <1>13, <2>1, <3>1, <3>2
  <2>3. 21 + j \in IdRegister(m) <=> j \in m[2]
    <3>1. (21 + j) - 21 = j /\ 21 + j \in 3..38 /\ 21 + j \in 0..31
      OBVIOUS
    <3>2. (21 + j) - 29 \notin 0..7
      OBVIOUS
    <3>. QED
      BY <1>2, <1>4, <1>13, <2>1, <3>1, <3>2
  <2>. QED
    BY <2>2, <2>3
<1>14. ASSUME ~IsExtended(m[0]), NEW b \in 3..20
       PROVE  b \notin IdRegister(m)
  <2>1. b - 29 \notin 0..7 /\ b - 21 \notin 0..7 /\ b # 1 /\ b # 2 /\ b \in Int
    OBVIOUS
  <2>. QED
    BY <1>2, <1>3, <1>4, <1>14, <2>1
<1>. QED
  BY <1>6, <1>7, <1>10, <1>11, <1>12, <1>13, <1>14

\* The acceptance tests of Can_HandleRequest and the table of messages agree.
LEMMA TableTest ==
  ASSUME NEW r \in Request
  PROVE  Accepts(r.bytes, r.length) <=> InTable(r.bytes[0], r.length + 1)
<1>. DEFINE m == r.bytes
            n == r.length
            listed == InTable(m[0], n + 1)
<1>1. m \in [0..13 -> Byte] /\ n \in Nat
  BY DEF Request
<1>2. ASSUME m[0] \in FrameTypes
      PROVE  IdRegister(m) \cap STD_RTR # {} <=> 1 \in m[0]
  <2>1. IdRegister(m) \cap EXT_RTR = m[0]
    BY <1>1, <1>2, IdBits
  <2>. QED
    BY <2>1 DEF EXT_RTR, STD_RTR
<1>3. listed => m[0] \in FrameTypes
  BY DEF InTable, FrameTypes, STD_DATA, STD_RTR, EXT_DATA, EXT_RTR
<1>4. ASSUME m[0] \in FrameTypes
      PROVE  Accepts(m, n) <=> /\ DataLength(m, n) \in 0..8
                               /\ 1 \in m[0] => DataLength(m, n) = 0
  BY <1>2, <1>4 DEF Accepts
<1>5. CASE m[0] = {}
  <2>1. ~IsExtended(m[0])
    BY <1>5 DEF IsExtended, STD_DATA
  <2>2. DataLength(m, n) = n - 3
    BY <1>1, <2>1 DEF DataLength, IdBytes
  <2>3. listed <=> n + 1 \in 4..12
    BY <1>5 DEF InTable
  <2>. QED
    BY <1>1, <1>4, <1>5, <2>2, <2>3 DEF FrameTypes, STD_DATA
<1>6. CASE m[0] = {1}
  <2>1. ~IsExtended(m[0])
    BY <1>6 DEF IsExtended, STD_DATA, EXT_DATA
  <2>2. DataLength(m, n) = n - 3
    BY <1>1, <2>1 DEF DataLength, IdBytes
  <2>3. listed <=> n + 1 = 4
    <3>1. {1} # {} /\ {1} # {2} /\ {1} # {1, 2}
      OBVIOUS
    <3>. QED
      BY <1>6, <3>1 DEF InTable
  <2>. QED
    BY <1>1, <1>4, <1>6, <2>2, <2>3 DEF FrameTypes, STD_RTR
<1>7. CASE m[0] = {2}
  <2>1. IsExtended(m[0])
    BY <1>7 DEF IsExtended, STD_DATA, EXT_DATA
  <2>2. DataLength(m, n) = n - 5
    BY <1>1, <2>1 DEF DataLength, IdBytes
  <2>3. listed <=> n + 1 \in 6..14
    <3>1. {2} # {} /\ {2} # {1} /\ {2} # {1, 2}
      OBVIOUS
    <3>. QED
      BY <1>7, <3>1 DEF InTable
  <2>4. 1 \notin m[0]
    BY <1>7
  <2>. QED
    BY <1>1, <1>4, <1>7, <2>2, <2>3, <2>4 DEF FrameTypes, EXT_DATA
<1>8. CASE m[0] = {1, 2}
  <2>1. IsExtended(m[0])
    BY <1>8 DEF IsExtended, STD_DATA, EXT_DATA
  <2>2. DataLength(m, n) = n - 5
    BY <1>1, <2>1 DEF DataLength, IdBytes
  <2>3. listed <=> n + 1 = 6
    <3>1. {1, 2} # {} /\ {1, 2} # {1} /\ {1, 2} # {2}
      OBVIOUS
    <3>. QED
      BY <1>8, <3>1 DEF InTable
  <2>. QED
    BY <1>1, <1>4, <1>8, <2>2, <2>3 DEF FrameTypes, EXT_RTR
<1>9. CASE m[0] \notin FrameTypes
  BY <1>3, <1>9 DEF Accepts
<1>. QED
  BY <1>5, <1>6, <1>7, <1>8, <1>9 DEF FrameTypes, STD_DATA, STD_RTR, EXT_DATA, EXT_RTR

\* The identifier bytes as Can_FrameReceived stores them: the bits of RIR.
LEMMA StoredId ==
  ASSUME NEW reg \in Word, NEW g
  PROVE  LET id == IdStored([x \in 0..22 |-> g], reg)
         IN  IF IsExtended(reg)
             THEN \A k \in 0..3 : id[4 + k] = {j \in 0..7 : 27 - 8 * k + j \in reg}
             ELSE \A k \in 0..1 : id[6 + k] = {j \in 0..7 : 29 - 8 * k + j \in reg}
<1>. DEFINE buf == [x \in 0..22 |-> g]
            id  == IdStored(buf, reg)
<1>1. CASE IsExtended(reg)
  <2>. DEFINE w == Shr(reg, 3)
  <2>1. w \in Word /\ \A b \in Nat : b \in w <=> b + 3 \in reg
    BY ShrBit, ShrType
  <2>2. id = Store(buf, 4, 4, Rev(w))
    BY <1>1 DEF IdStored, ExidPos
  <2>3. \A k \in 0..3 : id[4 + k] = ByteOf(Rev(w), k)
    <3>. HIDE DEF w
    <3>1. \A k \in 0..3 : 4 + k \in 4..(4 + 4 - 1) /\ 4 + k \in 0..22 /\ (4 + k) - 4 = k
      OBVIOUS
    <3>. QED
      BY <2>2, <3>1 DEF Store
  <2>4. \A k \in 0..3 : ByteOf(Rev(w), k) = {j \in 0..7 : 24 - 8 * k + j \in w}
    <3>. HIDE DEF w
    <3>. QED
      BY <2>1, RevByte
  <2>. HIDE DEF w, id
  <2>5. ASSUME NEW k \in 0..3, NEW j \in 0..7
        PROVE  24 - 8 * k + j \in w <=> 27 - 8 * k + j \in reg
    <3>1. 24 - 8 * k + j \in Nat /\ (24 - 8 * k + j) + 3 = 27 - 8 * k + j
      OBVIOUS
    <3>. QED
      BY <2>1, <3>1
  <2>6. \A k \in 0..3 : id[4 + k] = {j \in 0..7 : 27 - 8 * k + j \in reg}
    BY <2>3, <2>4, <2>5
  <2>. QED
    BY <1>1, <2>6 DEF id
<1>2. CASE ~IsExtended(reg)
  <2>. DEFINE w == Shr(reg, 21)
  <2>1. w \in Word /\ \A b \in Nat : b \in w <=> b + 21 \in reg
    BY ShrBit, ShrType
  <2>2. id = Store(buf, 6, 2, Rev16(w))
    BY <1>2 DEF IdStored, StidPos
  <2>3. \A k \in 0..1 : id[6 + k] = ByteOf(Rev16(w), k)
    <3>. HIDE DEF w
    <3>1. \A k \in 0..1 : 6 + k \in 6..(6 + 2 - 1) /\ 6 + k \in 0..22 /\ (6 + k) - 6 = k
      OBVIOUS
    <3>. QED
      BY <2>2, <3>1 DEF Store
  <2>4. \A k \in 0..1 : ByteOf(Rev16(w), k) = {j \in 0..7 : 8 - 8 * k + j \in w}
    <3>. HIDE DEF w
    <3>. QED
      BY <2>1, Rev16Byte
  <2>. HIDE DEF w, id
  <2>5. ASSUME NEW k \in 0..1, NEW j \in 0..7
        PROVE  8 - 8 * k + j \in w <=> 29 - 8 * k + j \in reg
    <3>1. 8 - 8 * k + j \in Nat /\ (8 - 8 * k + j) + 21 = 29 - 8 * k + j
      OBVIOUS
    <3>. QED
      BY <2>1, <3>1
  <2>6. \A k \in 0..1 : id[6 + k] = {j \in 0..7 : 29 - 8 * k + j \in reg}
    BY <2>3, <2>4, <2>5
  <2>. QED
    BY <1>2, <2>6 DEF id
<1>. QED
  BY <1>1, <1>2

\* Where the bits of a register are in the message about it.
IdBytesOf(msg, reg) ==
    IF IsExtended(reg)
    THEN /\ msg[2] = {j \in 0..7 : 27 + j \in reg} /\ msg[3] = {j \in 0..7 : 19 + j \in reg}
         /\ msg[4] = {j \in 0..7 : 11 + j \in reg} /\ msg[5] = {j \in 0..7 : 3 + j \in reg}
    ELSE msg[2] = {j \in 0..7 : 29 + j \in reg} /\ msg[3] = {j \in 0..7 : 21 + j \in reg}

\* The message about a frame: type, identifier, data and what lies behind.
LEMMA MessageBytes ==
  ASSUME NEW f \in Registers, NEW g \in Byte
  PROVE  LET msg == ReceivedMessage(f, g)
         IN  /\ msg \in Seq(Byte) /\ Len(msg) = MessageLength(f)
             /\ msg[1] = f.id \cap EXT_RTR /\ IdBytesOf(msg, f.id)
             /\ \A k \in 0..7 : k < f.dlc => msg[2 + IdBytes(f.id) + k] = f.data[k]
<1>. DEFINE n    == IdBytes(f.id)
            len  == MessageLength(f)
            id   == IdStored([k \in 0..22 |-> g], f.id)
            B(k) == IF k = 7 - n THEN f.id \cap EXT_RTR
                    ELSE IF k \in 8..15 THEN f.data[k - 8] ELSE id[k]
            msg  == ReceivedMessage(f, g)
<1>1. /\ f.id \in Word /\ f.dlc \in 0..15 /\ f.data \in [0..7 -> Byte]
      /\ IF IsExtended(f.id) THEN n = 4 ELSE n = 2
  BY DEF Registers, IdBytes
<1>2. n \in {2, 4} /\ len = f.dlc + 1 + n /\ len \in Nat
  BY <1>1 DEF MessageLength
<1>3. IF IsExtended(f.id)
      THEN /\ id[4] = {j \in 0..7 : 27 + j \in f.id} /\ id[5] = {j \in 0..7 : 19 + j \in f.id}
           /\ id[6] = {j \in 0..7 : 11 + j \in f.id} /\ id[7] = {j \in 0..7 : 3 + j \in f.id}
      ELSE id[6] = {j \in 0..7 : 29 + j \in f.id} /\ id[7] = {j \in 0..7 : 21 + j \in f.id}
  <2>. DEFINE w == f.id
  <2>1. IF IsExtended(w)
        THEN \A k \in 0..3 : id[4 + k] = {j \in 0..7 : 27 - 8 * k + j \in w}
        ELSE \A k \in 0..1 : id[6 + k] = {j \in 0..7 : 29 - 8 * k + j \in w}
    <3>1. w \in Word
      BY <1>1
    <3>. HIDE DEF w
    <3>2. LET st == IdStored([x \in 0..22 |-> g], w)
          IN  IF IsExtended(w)
              THEN \A k \in 0..3 : st[4 + k] = {j \in 0..7 : 27 - 8 * k + j \in w}
              ELSE \A k \in 0..1 : st[6 + k] = {j \in 0..7 : 29 - 8 * k + j \in w}
      BY <3>1, StoredId
    <3>3. id = IdStored([x \in 0..22 |-> g], w)
      BY DEF w
    <3>. HIDE DEF id
    <3>. QED
      BY <3>2, <3>3
  <2>. HIDE DEF id
  <2>2. CASE IsExtended(f.id)
    <3>1. /\ id[4 + 0] = {j \in 0..7 : 27 - 8 * 0 + j \in f.id}
          /\ id[4 + 1] = {j \in 0..7 : 27 - 8 * 1 + j \in f.id}
          /\ id[4 + 2] = {j \in 0..7 : 27 - 8 * 2 + j \in f.id}
          /\ id[4 + 3] = {j \in 0..7 : 27 - 8 * 3 + j \in f.id}
      BY <2>1, <2>2
    <3>2. \A j \in 0..7 : /\ 27 - 8 * 0 + j = 27 + j /\ 27 - 8 * 1 + j = 19 + j
                          /\ 27 - 8 * 2 + j = 11 + j /\ 27 - 8 * 3 + j = 3 + j
      OBVIOUS
    <3>3. 4 + 0 = 4 /\ 4 + 1 = 5 /\ 4 + 2 = 6 /\ 4 + 3 = 7
      OBVIOUS
    <3>. QED
      BY <2>2, <3>1, <3>2, <3>3
  <2>3. CASE ~IsExtended(f.id)
    <3>1. /\ id[6 + 0] = {j \in 0..7 : 29 - 8 * 0 + j \in f.id}
          /\ id[6 + 1] = {j \in 0..7 : 29 - 8 * 1 + j \in f.id}
      BY <2>1, <2>3
    <3>2. \A j \in 0..7 : 29 - 8 * 0 + j = 29 + j /\ 29 - 8 * 1 + j = 21 + j
      OBVIOUS
    <3>3. 6 + 0 = 6 /\ 6 + 1 = 7
      OBVIOUS
    <3>. QED
      BY <2>3, <3>1, <3>2, <3>3
  <2>. QED
    BY <2>2, <2>3
<1>4. \A k \in 16..22 : id[k] = g
  <2>1. \A k \in 16..22 : /\ k \in 0..22 /\ k \notin 4..(4 + 4 - 1) /\ k \notin 6..(6 + 2 - 1)
    OBVIOUS
  <2>2. CASE IsExtended(f.id)
    <3>1. id = Store([k \in 0..22 |-> g], 4, 4, Rev(Shr(f.id, ExidPos)))
      BY <2>2 DEF IdStored
    <3>. QED
      BY <2>1, <3>1 DEF Store
  <2>3. CASE ~IsExtended(f.id)
    <3>1. id = Store([k \in 0..22 |-> g], 6, 2, Rev16(Shr(f.id, StidPos)))
      BY <2>3 DEF IdStored
    <3>. QED
      BY <2>1, <3>1 DEF Store
  <2>. QED
    BY <2>2, <2>3
<1>5. msg = [i \in 1..len |-> B(7 - n + i - 1)]
  <2>1. \A i \in 1..len : 7 - n + i - 1 \in 0..22
    BY <1>1, <1>2
  <2>2. msg = [i \in 1..len |-> [k \in 0..22 |-> B(k)][7 - n + i - 1]]
    BY DEF ReceivedMessage
  <2>. HIDE DEF B, len, n, msg
  <2>. QED
    BY <2>1, <2>2
<1>. HIDE DEF id, msg, len, n
<1>6. B(7 - n) = f.id \cap EXT_RTR /\ f.id \cap EXT_RTR \in Byte
  BY DEF EXT_RTR, Byte
<1>7. \A k \in 0..22 : k > 7 - n => B(k) = IF k \in 8..15 THEN f.data[k - 8] ELSE id[k]
  BY <1>2
<1>8. ASSUME NEW k \in 0..22, k >= 7 - n
      PROVE  B(k) \in Byte
  <2>1. CASE k = 7 - n
    BY <1>6, <2>1
  <2>2. CASE k > 7 - n /\ k < 8
    <3>1. B(k) = id[k]
      BY <1>7, <2>2
    <3>2. IsExtended(f.id) => k = 4 \/ k = 5 \/ k = 6 \/ k = 7
      BY <1>1, <2>2
    <3>3. ~IsExtended(f.id) => k = 6 \/ k = 7
      BY <1>1, <2>2
    <3>. HIDE DEF B
    <3>. QED
      BY <1>3, <3>1, <3>2, <3>3 DEF Byte
  <2>3. CASE k \in 8..15
    <3>1. k - 8 \in 0..7 /\ B(k) = f.data[k - 8]
      BY <1>2, <1>7, <2>3
    <3>. HIDE DEF B
    <3>. QED
      BY <1>1, <3>1
  <2>4. CASE k > 15
    <3>1. k \in 16..22 /\ B(k) = id[k]
      BY <1>2, <1>7, <2>4
    <3>. HIDE DEF B
    <3>. QED
      BY <1>4, <3>1
  <2>. QED
    BY <1>2, <1>8, <2>1, <2>2, <2>3, <2>4
<1>9. \A i \in 1..len : 7 - n + i - 1 \in 0..22 /\ 7 - n + i - 1 >= 7 - n
  BY <1>1, <1>2
<1>10. msg \in Seq(Byte) /\ Len(msg) = len
  <2>. DEFINE F(i) == B(7 - n + i - 1)
  <2>1. \A i \in 1..len : F(i) \in Byte
    BY <1>8, <1>9
  <2>2. msg = [i \in 1..len |-> F(i)]
    BY <1>5
  <2>. HIDE DEF F, B
  <2>3. [i \in 1..len |-> F(i)] \in Seq(Byte)
    BY <1>2, <2>1
  <2>. QED
    BY <1>2, <2>2, <2>3
<1>11. \A i \in 1..len : msg[i] = B(7 - n + i - 1)
  <2>. HIDE DEF B
  <2>. QED
    BY <1>5
<1>12. msg[1] = f.id \cap EXT_RTR
  <2>1. 1 \in 1..len /\ 7 - n + 1 - 1 = 7 - n
    BY <1>1, <1>2
  <2>. HIDE DEF B
  <2>. QED
    BY <1>6, <1>11, <2>1
<1>13. IdBytesOf(msg, f.id)
  <2>1. CASE IsExtended(f.id)
    <3>1. /\ 2 \in 1..len /\ 3 \in 1..len /\ 4 \in 1..len /\ 5 \in 1..len
          /\ 7 - n + 2 - 1 = 4 /\ 7 - n + 3 - 1 = 5 /\ 7 - n + 4 - 1 = 6 /\ 7 - n + 5 - 1 = 7
      BY <1>1, <1>2, <2>1
    <3>2. B(4) = id[4] /\ B(5) = id[5] /\ B(6) = id[6] /\ B(7) = id[7]
      BY <1>1, <2>1
    <3>. HIDE DEF B
    <3>. QED
      BY <1>3, <1>11, <2>1, <3>1, <3>2 DEF IdBytesOf
  <2>2. CASE ~IsExtended(f.id)
    <3>1. 2 \in 1..len /\ 3 \in 1..len /\ 7 - n + 2 - 1 = 6 /\ 7 - n + 3 - 1 = 7
      BY <1>1, <1>2, <2>2
    <3>2. B(6) = id[6] /\ B(7) = id[7]
      BY <1>1, <2>2
    <3>. HIDE DEF B
    <3>. QED
      BY <1>3, <1>11, <2>2, <3>1, <3>2 DEF IdBytesOf
  <2>. QED
    BY <2>1, <2>2
<1>14. ASSUME NEW k \in 0..7, k < f.dlc
       PROVE  msg[2 + n + k] = f.data[k]
  <2>1. 2 + n + k \in 1..len /\ 7 - n + (2 + n + k) - 1 = 8 + k /\ 8 + k \in 0..22
    BY <1>1, <1>2, <1>14
  <2>2. 8 + k > 7 - n /\ 8 + k \in 8..15 /\ (8 + k) - 8 = k
    BY <1>2
  <2>3. B(8 + k) = f.data[k]
    BY <1>7, <2>1, <2>2
  <2>. HIDE DEF B
  <2>. QED
    BY <1>11, <2>1, <2>3
<1>. QED
  BY <1>10, <1>12, <1>13, <1>14 DEF msg, len, n

-----------------------------------------------------------------------------
(***************************************************************************)
(* The way of a frame.                                                     *)
(***************************************************************************)

\* What the mailbox, the acknowledgement and the FIFO hold of the request at
\* each stage.
CodecInv ==
    /\ stage = "refused" => ~Accepts(request.bytes, request.length)
    /\ stage \in {"queued", "onBus", "sent", "received"} =>
           LET m    == request.bytes
               flen == DataLength(m, request.length)
           IN  /\ Accepts(m, request.length)
               /\ tx.id = IdRegister(m) /\ tx.dlc = flen
               /\ \A k \in 0..7 : k < flen => tx.data[k] = m[1 + IdBytes(m[0]) + k]
    /\ stage \in {"onBus", "sent", "received"} =>
           /\ rx.id = tx.id \ {0} /\ rx.dlc = tx.dlc
           /\ \A k \in 0..7 : k < tx.dlc => rx.data[k] = tx.data[k]
    /\ stage \in {"sent", "received"} => ack = <<AckFlag \cup (tx.id \cap EXT_RTR)>>
    /\ 0 \notin rx.id
    /\ TypeOK /\ RoundTrip /\ FrameReported

\* What was accepted is well formed.
LEMMA Accepted ==
  ASSUME CodecInv, stage \in {"queued", "onBus", "sent", "received"}
  PROVE  LET m    == request.bytes
             flen == DataLength(m, request.length)
         IN  /\ request \in Request /\ m \in [0..13 -> Byte] /\ request.length \in Nat
             /\ m[0] \in FrameTypes /\ flen \in 0..8
             /\ request.length = flen + 1 + IdBytes(m[0]) /\ IdBytes(m[0]) \in {2, 4}
             /\ tx.id \in Word /\ tx.id \ {0} = tx.id /\ tx.id \cap EXT_RTR = m[0]
             /\ IsExtended(tx.id) <=> IsExtended(m[0])
<1>. DEFINE m    == request.bytes
            flen == DataLength(m, request.length)
<1>1. request \in Request /\ m \in [0..13 -> Byte] /\ request.length \in Nat
  <2>1. request \in Request
    BY DEF CodecInv, TypeOK
  <2>. QED
    BY <2>1 DEF Request
<1>2. m[0] \in FrameTypes /\ flen \in 0..8 /\ tx.id = IdRegister(m)
  BY DEF CodecInv, Accepts
<1>3. IdBytes(m[0]) \in {2, 4}
  BY DEF IdBytes
<1>4. request.length = flen + 1 + IdBytes(m[0])
  BY <1>1, <1>3 DEF DataLength
<1>5. /\ IdRegister(m) \in Word /\ 0 \notin IdRegister(m)
      /\ IdRegister(m) \cap EXT_RTR = m[0]
      /\ IsExtended(IdRegister(m)) <=> IsExtended(m[0])
  BY <1>1, <1>2, IdBits
<1>. QED
  BY <1>1, <1>2, <1>3, <1>4, <1>5

LEMMA HandleRequestStep ==
  ASSUME CodecInv, HandleRequest
  PROVE  CodecInv'
<1>. DEFINE m    == request'.bytes
            flen == DataLength(m, request'.length)
<1>1. /\ stage = "start" /\ request' \in Request /\ m \in [0..13 -> Byte]
      /\ request'.length \in Nat /\ TypeOK /\ 0 \notin rx.id
      /\ UNCHANGED <<rx, ack, message>>
  BY FrameCodecAssumption DEF CodecInv, HandleRequest, Request
<1>2. CASE Accepts(m, request'.length)
  <2>1. PICK g \in Garbage :
          /\ stage' = "queued"
          /\ tx' = [id |-> IdRegister(m), dlc |-> flen,
                    data |-> [k \in 0..7 |-> IF k < flen
                                THEN m[1 + IdBytes(m[0]) + k] ELSE g]]
    BY <1>2 DEF HandleRequest
  <2>2. flen \in 0..8 /\ m[0] \in FrameTypes /\ IdBytes(m[0]) \in {2, 4} /\ g \in Byte
    BY <1>2, FrameCodecAssumption DEF Accepts, IdBytes
  <2>3. IdRegister(m) \in Word
    BY <1>1, <2>2, IdBits
  <2>4. \A k \in 0..7 : k < flen => 1 + IdBytes(m[0]) + k \in 0..13
    BY <2>2
  <2>. HIDE DEF flen
  <2>5. tx' \in Registers
    BY <1>1, <2>1, <2>2, <2>3, <2>4 DEF Registers
  <2>6. \A k \in 0..7 : k < flen => tx'.data[k] = m[1 + IdBytes(m[0]) + k]
    BY <2>1
  <2>7. TypeOK' /\ RoundTrip' /\ FrameReported'
    BY <1>1, <2>1, <2>5 DEF TypeOK, Stages, RoundTrip, FrameReported
  <2>8. tx'.id = IdRegister(m) /\ tx'.dlc = flen
    BY <2>1
  <2>. QED
    BY <1>1, <1>2, <2>1, <2>6, <2>7, <2>8 DEF CodecInv, flen
<1>3. CASE ~Accepts(m, request'.length)
  <2>1. stage' = "refused" /\ UNCHANGED tx
    BY <1>3 DEF HandleRequest
  <2>2. TypeOK' /\ RoundTrip' /\ FrameReported'
    BY <1>1, <2>1 DEF TypeOK, Stages, RoundTrip, FrameReported
  <2>. QED
    BY <1>1, <1>3, <2>1, <2>2 DEF CodecInv
<1>. QED
  BY <1>2, <1>3

LEMMA BusStep ==
  ASSUME CodecInv, Bus
  PROVE  CodecInv'
<1>1. PICK g \in Garbage :
        /\ stage = "queued" /\ stage' = "onBus"
        /\ rx' = [id |-> tx.id \ {0}, dlc |-> tx.dlc,
                  data |-> [k \in 0..7 |-> IF k < tx.dlc THEN tx.data[k] ELSE g]]
        /\ UNCHANGED <<request, tx, ack, message>>
  BY DEF Bus
<1>2. tx \in Registers /\ g \in Byte /\ TypeOK
  BY FrameCodecAssumption DEF CodecInv, TypeOK
<1>3. rx' \in Registers
  <2>1. tx.id \ {0} \in Word
    BY <1>2 DEF Registers, Word
  <2>2. [k \in 0..7 |-> IF k < tx.dlc THEN tx.data[k] ELSE g] \in [0..7 -> Byte]
    BY <1>2 DEF Registers
  <2>. QED
    BY <1>1, <1>2, <2>1, <2>2 DEF Registers
<1>4. /\ 0 \notin rx'.id /\ rx'.id = tx.id \ {0} /\ rx'.dlc = tx.dlc
      /\ \A k \in 0..7 : k < tx.dlc => rx'.data[k] = tx.data[k]
  BY <1>1
<1>5. TypeOK' /\ RoundTrip' /\ FrameReported'
  BY <1>1, <1>2, <1>3 DEF TypeOK, Stages, RoundTrip, FrameReported
<1>. QED
  BY <1>1, <1>4, <1>5 DEF CodecInv

LEMMA ArrivalStep ==
  ASSUME CodecInv, Arrival
  PROVE  CodecInv'
<1>1. /\ stage' = "arrived" /\ rx' \in Frames
      /\ UNCHANGED <<request, tx, ack, message>>
  BY DEF Arrival
<1>2. rx' \in Registers /\ 0 \notin rx'.id
  BY <1>1, FrameCodecAssumption
<1>3. TypeOK' /\ RoundTrip' /\ FrameReported'
  BY <1>1, <1>2 DEF CodecInv, TypeOK, Stages, RoundTrip, FrameReported
<1>. QED
  BY <1>1, <1>2, <1>3 DEF CodecInv

LEMMA FrameSentStep ==
  ASSUME CodecInv, FrameSent
  PROVE  CodecInv'
<1>1. /\ stage = "onBus" /\ stage' = "sent"
      /\ ack' = <<AckFlag \cup (tx.id \cap EXT_RTR)>>
      /\ UNCHANGED <<request, tx, rx, message>>
  BY DEF FrameSent
<1>2. TypeOK' /\ RoundTrip' /\ FrameReported'
  <2>1. AckFlag \cup (tx.id \cap EXT_RTR) \in Byte
    BY DEF AckFlag, EXT_RTR, Byte
  <2>2. ack' \in Seq(Byte)
    BY <1>1, <2>1
  <2>. QED
    BY <1>1, <2>2 DEF CodecInv, TypeOK, Stages, RoundTrip, FrameReported
<1>. QED
  BY <1>1, <1>2 DEF CodecInv

\* The message gives back the registers of any frame.
LEMMA Reported ==
  ASSUME NEW f \in Registers, 0 \notin f.id, NEW g \in Byte
  PROVE  LET m == AsRequest(ReceivedMessage(f, g))
         IN  /\ Len(ReceivedMessage(f, g)) = 1 + IdBytes(f.id) + f.dlc
             /\ m[0] \in FrameTypes
             /\ IdRegister(m) = IF IsExtended(f.id) THEN f.id ELSE f.id \ (3..20)
             /\ \A k \in 0..7 :
                    k < DataBytes(f) => m[1 + IdBytes(f.id) + k] = f.data[k]
<1>. DEFINE msg == ReceivedMessage(f, g)
            m   == AsRequest(msg)
            n   == IdBytes(f.id)
<1>1. /\ f.id \in Word /\ f.dlc \in 0..15 /\ n \in {2, 4}
      /\ IF IsExtended(f.id) THEN n = 4 ELSE n = 2
  BY DEF Registers, IdBytes
<1>2. /\ msg \in Seq(Byte) /\ Len(msg) = f.dlc + 1 + n
      /\ msg[1] = f.id \cap EXT_RTR /\ IdBytesOf(msg, f.id)
      /\ \A k \in 0..7 : k < f.dlc => msg[2 + n + k] = f.data[k]
  <2>. HIDE DEF n
  <2>1. LET st == ReceivedMessage(f, g)
        IN  /\ st \in Seq(Byte) /\ Len(st) = MessageLength(f)
            /\ st[1] = f.id \cap EXT_RTR /\ IdBytesOf(st, f.id)
            /\ \A k \in 0..7 : k < f.dlc => st[2 + IdBytes(f.id) + k] = f.data[k]
    BY MessageBytes
  <2>. QED
    BY <2>1 DEF n, MessageLength
<1>. HIDE DEF msg, n
<1>3. /\ f.dlc \in Int /\ n \in Int /\ Len(msg) \in Int
      /\ Len(msg) = 1 + n + f.dlc
  <2>1. f.dlc \in Int /\ n \in Int
    BY <1>1
  <2>2. Len(msg) = f.dlc + 1 + n
    BY <1>2
  <2>. QED
    BY <2>1, <2>2
<1>4. \A k \in 0..13 : m[k] = IF k < Len(msg) THEN msg[k + 1] ELSE {}
  BY DEF AsRequest
<1>5. m \in [0..13 -> Byte]
  <2>1. ASSUME NEW k \in 0..13 PROVE (IF k < Len(msg) THEN msg[k + 1] ELSE {}) \in Byte
    <3>1. {} \in Byte
      BY DEF Byte
    <3>2. k < Len(msg) => k + 1 \in 1..Len(msg)
      BY <1>1, <1>2
    <3>. QED
      BY <1>2, <3>1, <3>2
  <2>. QED
    BY <2>1 DEF AsRequest
<1>6. m[0] = f.id \cap EXT_RTR /\ m[1] = msg[2] /\ m[2] = msg[3]
  <2>1. 0 < Len(msg) /\ 1 < Len(msg) /\ 2 < Len(msg)
    <3>1. 0 <= f.dlc /\ 2 <= n
      BY <1>1
    <3>. QED
      BY <1>3, <3>1
  <2>2. 0 + 1 = 1 /\ 1 + 1 = 2 /\ 2 + 1 = 3
    OBVIOUS
  <2>3. m[0] = msg[0 + 1] /\ m[1] = msg[1 + 1] /\ m[2] = msg[2 + 1]
    BY <1>4, <2>1
  <2>. QED
    BY <1>2, <2>2, <2>3
<1>7. IsExtended(f.id) => m[3] = msg[4] /\ m[4] = msg[5]
  <2>1. IsExtended(f.id) => 3 < Len(msg) /\ 4 < Len(msg)
    BY <1>1, <1>3
  <2>2. 3 + 1 = 4 /\ 4 + 1 = 5
    OBVIOUS
  <2>3. IsExtended(f.id) => m[3] = msg[3 + 1] /\ m[4] = msg[4 + 1]
    BY <1>4, <2>1
  <2>. QED
    BY <2>2, <2>3
<1>. HIDE DEF m
<1>8. m[0] \in FrameTypes
  <2>1. m[0] = {} \/ m[0] = {1} \/ m[0] = {2} \/ m[0] = {1, 2}
    BY <1>6 DEF EXT_RTR
  <2>. QED
    BY <2>1 DEF FrameTypes, STD_DATA, STD_RTR, EXT_DATA, EXT_RTR
<1>9. IsExtended(m[0]) <=> IsExtended(f.id)
  BY <1>6 DEF IsExtended, EXT_DATA, STD_DATA, EXT_RTR
<1>10. IdRegister(m) = IF IsExtended(f.id) THEN f.id ELSE f.id \ (3..20)
  <2>. DEFINE reg == IdRegister(m)
  <2>1. /\ reg \in Word /\ 0 \notin reg /\ reg \cap EXT_RTR = m[0]
        /\ IsExtended(m[0]) =>
               \A j \in 0..7 : /\ 27 + j \in reg <=> j \in m[1] /\ j <= 4
                               /\ 19 + j \in reg <=> j \in m[2]
                               /\ 11 + j \in reg <=> j \in m[3]
                               /\ 3 + j \in reg <=> j \in m[4]
        /\ ~IsExtended(m[0]) =>
               /\ \A j \in 0..7 : /\ 29 + j \in reg <=> j \in m[1] /\ j <= 2
                                  /\ 21 + j \in reg <=> j \in m[2]
               /\ \A b \in 3..20 : b \notin reg
    BY <1>5, <1>8, IdBits
  <2>. HIDE DEF reg
  <2>2. /\ 1 \in reg <=> 1 \in f.id
        /\ 2 \in reg <=> 2 \in f.id
    BY <1>6, <2>1 DEF EXT_RTR
  <2>3. CASE IsExtended(f.id)
    <3>1. \A j \in 0..7 : /\ j <= 4 => (27 + j \in reg <=> 27 + j \in f.id)
                          /\ 19 + j \in reg <=> 19 + j \in f.id
                          /\ 11 + j \in reg <=> 11 + j \in f.id
                          /\ 3 + j \in reg <=> 3 + j \in f.id
      BY <1>2, <1>6, <1>7, <1>9, <2>1, <2>3 DEF IdBytesOf
    <3>2. ASSUME NEW b \in 3..31
          PROVE  b \in reg <=> b \in f.id
      <4>1. CASE b <= 10
        <5>1. b - 3 \in 0..7 /\ 3 + (b - 3) = b
          BY <4>1
        <5>. QED
          BY <3>1, <5>1
      <4>2. CASE b \in 11..18
        <5>1. b - 11 \in 0..7 /\ 11 + (b - 11) = b
          BY <4>2
        <5>. QED
          BY <3>1, <5>1
      <4>3. CASE b \in 19..26
        <5>1. b - 19 \in 0..7 /\ 19 + (b - 19) = b
          BY <4>3
        <5>. QED
          BY <3>1, <5>1
      <4>4. CASE b >= 27
        <5>1. b - 27 \in 0..7 /\ b - 27 <= 4 /\ 27 + (b - 27) = b
          BY <4>4
        <5>. QED
          BY <3>1, <5>1
      <4>. QED
        BY <4>1, <4>2, <4>3, <4>4
    <3>3. \A b \in 0..31 : b \in reg <=> b \in f.id
      <4>1. \A b \in 0..31 : b = 0 \/ b = 1 \/ b = 2 \/ b \in 3..31
        OBVIOUS
      <4>. QED
        BY <2>1, <2>2, <3>2, <4>1
    <3>4. reg \subseteq 0..31 /\ f.id \subseteq 0..31
      BY <1>1, <2>1 DEF Word
    <3>5. reg = f.id
      BY <3>3, <3>4
    <3>. QED
      BY <2>3, <3>5 DEF reg
  <2>4. CASE ~IsExtended(f.id)
    <3>1. \A j \in 0..7 : /\ j <= 2 => (29 + j \in reg <=> 29 + j \in f.id)
                          /\ 21 + j \in reg <=> 21 + j \in f.id
      BY <1>2, <1>6, <1>9, <2>1, <2>4 DEF IdBytesOf
    <3>2. ASSUME NEW b \in 21..31
          PROVE  b \in reg <=> b \in f.id
      <4>1. CASE b <= 28
        <5>1. b - 21 \in 0..7 /\ 21 + (b - 21) = b
          BY <4>1
        <5>. QED
          BY <3>1, <5>1
      <4>2. CASE b >= 29
        <5>1. b - 29 \in 0..7 /\ b - 29 <= 2 /\ 29 + (b - 29) = b
          BY <4>2
        <5>. QED
          BY <3>1, <5>1
      <4>. QED
        BY <4>1, <4>2
    <3>3. \A b \in 0..31 : b \in reg <=> b \in f.id \ (3..20)
      <4>1. \A b \in 0..31 : b = 0 \/ b = 1 \/ b = 2 \/ b \in 3..20 \/ b \in 21..31
        OBVIOUS
      <4>2. 0 \notin 3..20 /\ 1 \notin 3..20 /\ 2 \notin 3..20 /\ \A b \in 21..31 : b \notin 3..20
        OBVIOUS
      <4>3. \A b \in 3..20 : b \notin reg
        BY <1>9, <2>1, <2>4
      <4>. QED
        BY <2>1, <2>2, <3>2, <4>1, <4>2, <4>3
    <3>4. reg \subseteq 0..31 /\ f.id \subseteq 0..31
      BY <1>1, <2>1 DEF Word
    <3>5. reg = f.id \ (3..20)
      BY <3>3, <3>4
    <3>. QED
      BY <2>4, <3>5 DEF reg
  <2>. QED
    BY <2>3, <2>4
<1>11. ASSUME NEW k \in 0..7, k < DataBytes(f)
       PROVE  m[1 + n + k] = f.data[k]
  <2>1. k < f.dlc
    BY <1>1, <1>11 DEF DataBytes
  <2>2. /\ 1 + n + k \in 0..13 /\ 1 + n + k < Len(msg)
        /\ (1 + n + k) + 1 = 2 + n + k
    BY <1>1, <1>3, <2>1
  <2>3. m[1 + n + k] = msg[(1 + n + k) + 1]
    BY <1>4, <2>2
  <2>. QED
    BY <1>2, <2>1, <2>2, <2>3
<1>. QED
  BY <1>8, <1>10, <1>11, <1>3 DEF m, msg, n

\* The message about a frame of this firmware is the request for it.
LEMMA ComesBack ==
  ASSUME CodecInv, stage = "sent", NEW g \in Byte
  PROVE  LET m   == request.bytes
             top == IF IsExtended(m[0]) THEN 0..4 ELSE 0..2
         IN  ReceivedMessage(rx, g) = [i \in 1..request.length |->
                                         IF i = 2 THEN m[1] \cap top ELSE m[i - 1]]
<1>. DEFINE m    == request.bytes
            flen == DataLength(m, request.length)
            idn  == IdBytes(m[0])
            top  == IF IsExtended(m[0]) THEN 0..4 ELSE 0..2
            msg  == ReceivedMessage(rx, g)
<1>1. /\ m \in [0..13 -> Byte] /\ request.length \in Nat
      /\ m[0] \in FrameTypes /\ flen \in 0..8
      /\ request.length = flen + 1 + idn /\ idn \in {2, 4}
      /\ tx.id \ {0} = tx.id /\ tx.id \cap EXT_RTR = m[0]
      /\ IsExtended(tx.id) <=> IsExtended(m[0])
  BY Accepted
<1>2. /\ rx \in Registers /\ rx.id = IdRegister(m) /\ rx.dlc = flen
      /\ \A k \in 0..7 : k < flen => rx.data[k] = m[1 + idn + k]
      /\ rx.id \cap EXT_RTR = m[0] /\ IdBytes(rx.id) = idn
      /\ IsExtended(rx.id) <=> IsExtended(m[0])
  <2>1. /\ tx.id = IdRegister(m) /\ tx.dlc = flen
        /\ \A k \in 0..7 : k < flen => tx.data[k] = m[1 + idn + k]
        /\ rx.id = tx.id \ {0} /\ rx.dlc = tx.dlc
        /\ \A k \in 0..7 : k < tx.dlc => rx.data[k] = tx.data[k]
        /\ rx \in Registers
    BY DEF CodecInv, TypeOK
  <2>2. rx.id = tx.id
    BY <1>1, <2>1
  <2>3. IdBytes(tx.id) = idn
    BY <1>1 DEF IdBytes
  <2>. HIDE DEF m, flen, idn
  <2>. QED
    BY <1>1, <2>1, <2>2, <2>3
<1>. HIDE DEF flen, idn
<1>3. /\ msg \in Seq(Byte) /\ Len(msg) = request.length
      /\ msg[1] = m[0] /\ IdBytesOf(msg, rx.id)
      /\ \A k \in 0..7 : k < flen => msg[2 + idn + k] = m[1 + idn + k]
  <2>1. LET st == ReceivedMessage(rx, g)
        IN  /\ st \in Seq(Byte) /\ Len(st) = MessageLength(rx)
            /\ st[1] = rx.id \cap EXT_RTR /\ IdBytesOf(st, rx.id)
            /\ \A k \in 0..7 : k < rx.dlc => st[2 + IdBytes(rx.id) + k] = rx.data[k]
    BY <1>2, MessageBytes
  <2>. HIDE DEF m
  <2>. QED
    BY <1>1, <1>2, <2>1 DEF MessageLength
<1>. HIDE DEF msg
<1>4. /\ m[1] \subseteq 0..7 /\ m[2] \subseteq 0..7 /\ m[3] \subseteq 0..7 /\ m[4] \subseteq 0..7
  BY <1>1 DEF Byte
<1>5. IF IsExtended(m[0])
      THEN msg[2] = m[1] \cap (0..4) /\ msg[3] = m[2] /\ msg[4] = m[3] /\ msg[5] = m[4]
      ELSE msg[2] = m[1] \cap (0..2) /\ msg[3] = m[2]
  <2>1. \A j \in 0..7 : (j \in 0..4 <=> j <= 4) /\ (j \in 0..2 <=> j <= 2)
    OBVIOUS
  <2>2. CASE IsExtended(m[0])
    <3>1. \A j \in 0..7 : /\ 27 + j \in rx.id <=> j \in m[1] /\ j <= 4
                          /\ 19 + j \in rx.id <=> j \in m[2]
                          /\ 11 + j \in rx.id <=> j \in m[3]
                          /\ 3 + j \in rx.id <=> j \in m[4]
      BY <1>1, <1>2, <2>2, IdBits
    <3>2. /\ msg[2] = {j \in 0..7 : 27 + j \in rx.id} /\ msg[3] = {j \in 0..7 : 19 + j \in rx.id}
          /\ msg[4] = {j \in 0..7 : 11 + j \in rx.id} /\ msg[5] = {j \in 0..7 : 3 + j \in rx.id}
      BY <1>2, <1>3, <2>2 DEF IdBytesOf
    <3>. HIDE DEF m
    <3>3. msg[2] = m[1] \cap (0..4)
      BY <1>4, <2>1, <3>1, <3>2
    <3>4. msg[3] = m[2] /\ msg[4] = m[3] /\ msg[5] = m[4]
      BY <1>4, <3>1, <3>2
    <3>. QED
      BY <2>2, <3>3, <3>4
  <2>3. CASE ~IsExtended(m[0])
    <3>1. \A j \in 0..7 : /\ 29 + j \in rx.id <=> j \in m[1] /\ j <= 2
                          /\ 21 + j \in rx.id <=> j \in m[2]
      BY <1>1, <1>2, <2>3, IdBits
    <3>2. msg[2] = {j \in 0..7 : 29 + j \in rx.id} /\ msg[3] = {j \in 0..7 : 21 + j \in rx.id}
      BY <1>2, <1>3, <2>3 DEF IdBytesOf
    <3>. HIDE DEF m
    <3>3. msg[2] = m[1] \cap (0..2)
      BY <1>4, <2>1, <3>1, <3>2
    <3>4. msg[3] = m[2]
      BY <1>4, <3>1, <3>2
    <3>. QED
      BY <2>3, <3>3, <3>4
  <2>. QED
    BY <2>2, <2>3
<1>6. IF IsExtended(m[0]) THEN idn = 4 ELSE idn = 2
  BY DEF idn, IdBytes
<1>7. ASSUME NEW i \in 1..request.length
      PROVE  msg[i] = IF i = 2 THEN m[1] \cap top ELSE m[i - 1]
  <2>1. CASE i = 1
    <3>1. 1 - 1 = 0
      OBVIOUS
    <3>. QED
      BY <1>3, <2>1, <3>1
  <2>2. CASE i = 2
    BY <1>5, <2>2
  <2>3. CASE i > 2 /\ i <= 1 + idn
    <3>1. IsExtended(m[0]) => i = 3 \/ i = 4 \/ i = 5
      BY <1>6, <2>3
    <3>2. ~IsExtended(m[0]) => i = 3
      BY <1>6, <2>3
    <3>3. 3 - 1 = 2 /\ 4 - 1 = 3 /\ 5 - 1 = 4 /\ i # 2
      BY <2>3
    <3>. HIDE DEF m
    <3>4. msg[i] = m[i - 1]
      BY <1>5, <3>1, <3>2, <3>3
    <3>. QED
      BY <3>3, <3>4
  <2>4. CASE i > 1 + idn
    <3>. DEFINE k == i - 2 - idn
    <3>1. /\ k \in 0..7 /\ k < flen /\ 2 + idn + k = i /\ 1 + idn + k = i - 1
          /\ i # 2
      BY <1>1, <2>4
    <3>. HIDE DEF k
    <3>. QED
      BY <1>3, <3>1
  <2>. QED
    BY <1>1, <2>1, <2>2, <2>3, <2>4
<1>. HIDE DEF m, top
<1>8. msg = [i \in 1..request.length |-> msg[i]]
  BY <1>3
<1>9. msg = [i \in 1..request.length |-> IF i = 2 THEN m[1] \cap top ELSE m[i - 1]]
  BY <1>7, <1>8
<1>. QED
  BY <1>9 DEF msg, m, top

LEMMA FrameReceivedStep ==
  ASSUME CodecInv, FrameReceived
  PROVE  CodecInv'
<1>1. PICK g \in Garbage : message' = ReceivedMessage(rx, g)
  BY DEF FrameReceived
<1>2. /\ UNCHANGED <<request, tx, rx, ack>> /\ TypeOK
      /\ rx \in Registers /\ 0 \notin rx.id /\ g \in Byte
  BY FrameCodecAssumption DEF FrameReceived, CodecInv, TypeOK
<1>3. \/ stage = "sent" /\ stage' = "received"
      \/ stage = "arrived" /\ stage' = "reported"
  BY DEF FrameReceived
<1>4. message' \in Seq(Byte)
  <2>1. ReceivedMessage(rx, g) \in Seq(Byte)
    BY <1>2, MessageBytes
  <2>. QED
    BY <1>1, <2>1
<1>5. TypeOK'
  BY <1>2, <1>3, <1>4 DEF TypeOK, Stages
<1>6. FrameReported'
  <2>1. LET m == AsRequest(ReceivedMessage(rx, g))
        IN  /\ Len(ReceivedMessage(rx, g)) = 1 + IdBytes(rx.id) + rx.dlc
            /\ m[0] \in FrameTypes
            /\ IdRegister(m) = IF IsExtended(rx.id) THEN rx.id ELSE rx.id \ (3..20)
            /\ \A k \in 0..7 :
                   k < DataBytes(rx) => m[1 + IdBytes(rx.id) + k] = rx.data[k]
    BY <1>2, Reported
  <2>2. rx' = rx
    BY <1>2
  <2>. QED
    BY <1>1, <2>1, <2>2 DEF FrameReported
<1>7. RoundTrip'
  <2>1. CASE stage = "sent"
    <3>. DEFINE m   == request.bytes
                top == IF IsExtended(m[0]) THEN 0..4 ELSE 0..2
    <3>1. ReceivedMessage(rx, g) = [i \in 1..request.length |->
                                      IF i = 2 THEN m[1] \cap top ELSE m[i - 1]]
      BY <1>2, <2>1, ComesBack
    <3>2. request' = request
      BY <1>2
    <3>. QED
      BY <1>1, <3>1, <3>2 DEF RoundTrip
  <2>2. CASE stage' = "reported"
    BY <2>2 DEF RoundTrip
  <2>. QED
    BY <1>3, <2>1, <2>2
<1>. QED
  BY <1>2, <1>3, <1>5, <1>6, <1>7 DEF CodecInv

LEMMA CodecInvariant == Spec => []CodecInv
<1>1. Init => CodecInv
  <2>. SUFFICES ASSUME Init PROVE CodecInv
    OBVIOUS
  <2>1. Blank \in Registers
    BY DEF Blank, Registers, Word, Byte
  <2>2. <<>> \in Seq(Byte)
    OBVIOUS
  <2>3. NoRequest \in Request
    BY DEF NoRequest, Request, Byte
  <2>4. 0 \notin Blank.id
    BY DEF Blank
  <2>5. TypeOK
    BY <2>1, <2>2, <2>3 DEF Init, TypeOK, Stages
  <2>. QED
    BY <2>4, <2>5 DEF Init, CodecInv, RoundTrip, FrameReported
<1>2. CodecInv /\ [Next]_vars => CodecInv'
  <2>. SUFFICES ASSUME CodecInv, [Next]_vars
                PROVE  CodecInv'
    OBVIOUS
  <2>1. CASE UNCHANGED vars
    BY <2>1 DEF vars, CodecInv, TypeOK, RoundTrip, FrameReported, InTable
  <2>. QED
    BY <2>1, HandleRequestStep, BusStep, ArrivalStep, FrameSentStep, FrameReceivedStep DEF Next
<1>. QED
  BY <1>1, <1>2, PTL DEF Spec

\* Every conversion fits its register and its byte.
THEOREM CodecTypes == Spec => []TypeOK
<1>1. CodecInv => TypeOK
  BY DEF CodecInv
<1>. QED
  BY <1>1, CodecInvariant, PTL

\* Exactly the requests of the message table are accepted (README.md:48-53),
\* although the length is tested after the identifier was assembled from bytes
\* that may lie behind the request (can_if.c:309).
THEOREM TableAccepted == Spec => []AcceptsTable
<1>1. CodecInv => AcceptsTable
  <2>. SUFFICES ASSUME CodecInv PROVE AcceptsTable
    OBVIOUS
  <2>1. Accepts(request.bytes, request.length) <=>
            InTable(request.bytes[0], request.length + 1)
    <3>1. request \in Request
      BY DEF CodecInv, TypeOK
    <3>. QED
      BY <3>1, TableTest
  <2>. QED
    BY <2>1 DEF CodecInv, AcceptsTable
<1>. QED
  BY <1>1, CodecInvariant, PTL

\* Between two devices of this firmware a frame comes back as it was requested:
\* can_if.c:283-316 and can_if.c:342-372 are inverse.
THEOREM FrameComesBack == Spec => []RoundTrip
<1>1. CodecInv => RoundTrip
  BY DEF CodecInv
<1>. QED
  BY <1>1, CodecInvariant, PTL

\* Of any frame on the bus, whatever its length code, the message gives back the
\* identifier register and the data, and is as long as the length code says
\* (can_if.c:342-375).
THEOREM EveryFrameReported == Spec => []FrameReported
<1>1. CodecInv => FrameReported
  BY DEF CodecInv
<1>. QED
  BY <1>1, CodecInvariant, PTL

\* The acknowledgement names the type of its frame and is no other message
\* (can_if.c:404).
THEOREM AckNames == Spec => []AckNamesFrame
<1>1. CodecInv => AckNamesFrame
  <2>. SUFFICES ASSUME CodecInv, stage \in {"sent", "received"} PROVE AckNamesFrame
    BY DEF AckNamesFrame
  <2>1. tx.id \cap EXT_RTR = request.bytes[0] /\ request.bytes[0] \in FrameTypes
    BY Accepted
  <2>2. Len(ack) = 1 /\ ack[1] = request.bytes[0] \cup {7}
    BY <2>1 DEF CodecInv, AckFlag
  <2>3. 7 \in ack[1]
    BY <2>2
  <2>4. ack[1] \notin FrameTypes \cup {{6}}
    BY <2>3 DEF FrameTypes, STD_DATA, STD_RTR, EXT_DATA, EXT_RTR
  <2>. QED
    BY <2>2, <2>4 DEF AckNamesFrame
<1>. QED
  BY <1>1, CodecInvariant, PTL
=============================================================================
