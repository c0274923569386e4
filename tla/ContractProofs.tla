--------------------------- MODULE ContractProofs ---------------------------
(***************************************************************************)
(* Theorems about the contracts.  Calldata: for fields of any width,       *)
(* trades of any number of calls and calls of any number of words below    *)
(* the range of the size field.  ApeBank: for any users, tokens, amounts,  *)
(* capacity and depth of operations within one another.                    *)
(***************************************************************************)
EXTENDS Calldata, ApeBank, SequenceTheorems, FiniteSetTheorems, WellFoundedInduction, TLAPS

LEMMA FieldConstants ==
    /\ BlockUnit \in Nat \ {0} /\ BlockRange \in Nat \ {0}
    /\ CoinbaseUnit \in Nat \ {0} /\ CoinbaseRange \in Nat \ {0}
    /\ TargetRange \in Nat \ {0} /\ SizeUnit \in Nat \ {0} /\ SizeRange \in Nat \ {0}
    /\ OutUnit \in Nat \ {0} /\ OutRange \in Nat \ {0}
    /\ TypeUnit \in Nat \ {0} /\ TypeRange \in Nat \ {0}
    /\ MethodUnit \in Nat \ {0} /\ MethodRange \in Nat \ {0}
<1> DEFINE fields == {TargetRange, SizeUnit, SizeRange, OutUnit, OutRange, TypeUnit, TypeRange,
                      MethodUnit, MethodRange}
<1>1. \A n \in {BlockUnit, BlockRange, CoinbaseUnit, CoinbaseRange} : n \in Nat \ {0}
      BY HeaderAssumption
<1>2. \A n \in fields : n \in Nat \ {0}
      BY CallHeaderAssumption
<1> QED BY <1>1, <1>2

\* The quotient and the remainder of a division are the only ones.
LEMMA DivisionIsUnique ==
    ASSUME NEW u \in Nat \ {0}, NEW q \in Nat, NEW r \in 0 .. u - 1
    PROVE  (q * u + r) \div u = q /\ (q * u + r) % u = r
<1> DEFINE x == q * u + r
           d == x \div u
           m == x % u
<1>1. x \in Nat
      OBVIOUS
<1>2. d \in Nat /\ m \in 0 .. u - 1 /\ x = u * d + m
      BY <1>1
<1>3. u * d = d * u
      BY <1>2
<1> HIDE DEF d, m
<1>4. ASSUME NEW a \in Nat, NEW b \in Nat, a < b
      PROVE  a * u + u <= b * u
  <2>1. b - a - 1 \in Nat /\ b = a + 1 + (b - a - 1)
        BY <1>4
  <2>2. \A z \in Nat : (a + 1 + z) * u = a * u + u + z * u /\ z * u >= 0
        BY <1>4
  <2> QED BY <2>1, <2>2, <1>4
<1>5. ~(d < q)
      BY <1>2, <1>3, <1>4
<1>6. ~(q < d)
      BY <1>2, <1>3, <1>4
<1>7. d = q
      BY <1>2, <1>5, <1>6
<1> QED BY <1>2, <1>3, <1>7 DEF d, m

\* A word with a value in the field of this unit and range.
Packed(above, value, below, unit, range) == above * (unit * range) + value * unit + below

\* A field holds what was put into it, whatever is above and below it.
LEMMA FieldHolds ==
    ASSUME NEW unit \in Nat \ {0}, NEW range \in Nat \ {0}, NEW above \in Nat,
           NEW value \in 0 .. range - 1, NEW below \in 0 .. unit - 1
    PROVE  Field(Packed(above, value, below, unit, range), unit, range) = value
<1>1. above * (unit * range) = (above * range) * unit
      OBVIOUS
<1>2. above * range \in Nat /\ above * range + value \in Nat
      OBVIOUS
<1>3. (above * range + value) * unit = (above * range) * unit + value * unit
      BY <1>2
<1>4. above * (unit * range) + value * unit + below = (above * range + value) * unit + below
      BY <1>1, <1>2, <1>3
<1>5. ((above * range + value) * unit + below) \div unit = above * range + value
      BY <1>2, DivisionIsUnique
<1>6. (above * range + value) % range = value
      BY DivisionIsUnique
<1> QED BY <1>4, <1>5, <1>6 DEF Field, Packed

\* What is put into the first word is what the contract reads from it: the flags, the
\* block and the payment of a trade do not run into one another.
THEOREM HeaderArrives ==
    ASSUME NEW h \in Headers
    PROVE  /\ (Field(EncodeHeader(h), 2, 2) = 1) = h.payWithWeth
           /\ (Field(EncodeHeader(h), 4, 2) = 1) = h.burnGasToken
           /\ Field(EncodeHeader(h), BlockUnit, BlockRange) = h.block
           /\ Field(EncodeHeader(h), CoinbaseUnit, CoinbaseRange) = h.coinbase
<1> DEFINE p == Bit(h.payWithWeth)
           b == Bit(h.burnGasToken)
<1>1. p \in 0 .. 1 /\ b \in 0 .. 1
      BY DEF Bit
<1>2. (p = 1) = h.payWithWeth /\ (b = 1) = h.burnGasToken
      BY DEF Bit, Headers
<1>3. h.block \in 0 .. BlockRange - 1 /\ h.coinbase \in 0 .. CoinbaseRange - 1
      BY DEF Headers
<1>4. /\ BlockUnit \in Nat \ {0} /\ BlockRange \in Nat \ {0}
      /\ CoinbaseUnit \in Nat \ {0} /\ CoinbaseRange \in Nat \ {0}
      /\ BlockUnit >= 8 /\ CoinbaseUnit = BlockUnit * BlockRange
      BY FieldConstants, HeaderAssumption
<1>5. PICK e \in Nat : BlockUnit = 8 * e
      BY HeaderAssumption
<1>6. EncodeHeader(h) = 2 * p + 4 * b + h.block * BlockUnit + h.coinbase * CoinbaseUnit
      BY DEF EncodeHeader
<1> HIDE DEF p, b
<1>7. Field(EncodeHeader(h), CoinbaseUnit, CoinbaseRange) = h.coinbase
  <2>1. h.block * BlockUnit + 2 * p + 4 * b \in 0 .. CoinbaseUnit - 1
    <3>1. h.block <= BlockRange - 1
          BY <1>3, <1>4
    <3>2. h.block * BlockUnit <= (BlockRange - 1) * BlockUnit
          BY <3>1, <1>3, <1>4
    <3>3. (BlockRange - 1) * BlockUnit = CoinbaseUnit - BlockUnit
          BY <1>4
    <3>4. h.block * BlockUnit \in Nat
          BY <1>3, <1>4
    <3> QED BY <3>2, <3>3, <3>4, <1>1, <1>4
  <2>2. EncodeHeader(h) = Packed(0, h.coinbase, h.block * BlockUnit + 2 * p + 4 * b,
                                 CoinbaseUnit, CoinbaseRange)
    <3>1. h.coinbase * CoinbaseUnit \in Nat /\ h.block * BlockUnit \in Nat
          /\ 0 * (CoinbaseUnit * CoinbaseRange) = 0
          BY <1>3, <1>4
    <3> QED BY <3>1, <1>6, <1>1 DEF Packed
  <2>3. 0 \in Nat
        OBVIOUS
  <2>4. Field(Packed(0, h.coinbase, h.block * BlockUnit + 2 * p + 4 * b,
                     CoinbaseUnit, CoinbaseRange), CoinbaseUnit, CoinbaseRange) = h.coinbase
        BY <2>1, <2>3, <1>3, <1>4, FieldHolds
  <2> QED BY <2>2, <2>4
<1>8. Field(EncodeHeader(h), BlockUnit, BlockRange) = h.block
  <2>1. 2 * p + 4 * b \in 0 .. BlockUnit - 1
        BY <1>1, <1>4
  <2>2. EncodeHeader(h) = Packed(h.coinbase, h.block, 2 * p + 4 * b, BlockUnit, BlockRange)
    <3>1. h.coinbase * CoinbaseUnit \in Nat /\ h.block * BlockUnit \in Nat
          BY <1>3, <1>4
    <3> QED BY <3>1, <1>6, <1>1, <1>4 DEF Packed
  <2>3. h.coinbase \in Nat
        BY <1>3, <1>4
  <2>4. Field(Packed(h.coinbase, h.block, 2 * p + 4 * b, BlockUnit, BlockRange),
              BlockUnit, BlockRange) = h.block
        BY <2>1, <2>3, <1>3, <1>4, FieldHolds
  <2> QED BY <2>2, <2>4
<1>9. /\ h.block * BlockUnit = 8 * (h.block * e) /\ h.block * e \in Nat
      /\ h.coinbase * CoinbaseUnit = 8 * (h.coinbase * (e * BlockRange))
      /\ h.coinbase * (e * BlockRange) \in Nat
  <2>1. CoinbaseUnit = 8 * (e * BlockRange) /\ e * BlockRange \in Nat
        BY <1>4, <1>5
  <2>2. \A f \in Nat, g \in Nat : f * (8 * g) = 8 * (f * g) /\ f * g \in Nat
        OBVIOUS
  <2>3. h.block \in Nat /\ h.coinbase \in Nat
        BY <1>3, <1>4
  <2> QED BY <2>1, <2>2, <2>3, <1>5
<1>10. Field(EncodeHeader(h), 4, 2) = b
  <2> DEFINE above == h.block * e + h.coinbase * (e * BlockRange)
  <2>1. EncodeHeader(h) = Packed(above, b, 2 * p, 4, 2)
        BY <1>1, <1>6, <1>9 DEF Packed
  <2>2. above \in Nat /\ 2 * p \in 0 .. 4 - 1
        BY <1>1, <1>9
  <2> HIDE DEF above
  <2>3. 4 \in Nat \ {0} /\ 2 \in Nat \ {0} /\ b \in 0 .. 2 - 1
        BY <1>1
  <2>4. Field(Packed(above, b, 2 * p, 4, 2), 4, 2) = b
        BY <2>2, <2>3, FieldHolds
  <2> QED BY <2>1, <2>4
<1>11. Field(EncodeHeader(h), 2, 2) = p
  <2> DEFINE above == b + 2 * (h.block * e) + 2 * (h.coinbase * (e * BlockRange))
  <2>1. EncodeHeader(h) = Packed(above, p, 0, 2, 2)
        BY <1>1, <1>6, <1>9 DEF Packed
  <2>2. above \in Nat
        BY <1>1, <1>9
  <2> HIDE DEF above
  <2>3. 2 \in Nat \ {0} /\ p \in 0 .. 2 - 1 /\ 0 \in 0 .. 2 - 1
        BY <1>1
  <2>4. Field(Packed(above, p, 0, 2, 2), 2, 2) = p
        BY <2>2, <2>3, FieldHolds
  <2> QED BY <2>1, <2>4
<1> QED BY <1>2, <1>7, <1>8, <1>10, <1>11

-----------------------------------------------------------------------------
\* What is put into the header of a call is what the contract reads from it: the
\* method, the target, the type and the number of words, and no output is kept.
THEOREM CallHeaderArrives ==
    ASSUME NEW h \in CallHeader, NEW type \in 0 .. TypeRange - 1,
           NEW size \in 0 .. SizeRange - 1
    PROVE  LET word == EncodeCallHeader(h, type, size)
           IN  /\ Field(word, MethodUnit, MethodRange) = h.method
               /\ word % TargetRange = h.target
               /\ Field(word, TypeUnit, TypeRange) = type
               /\ Field(word, SizeUnit, SizeRange) = size
               /\ Field(word, OutUnit, OutRange) = 0
<1> DEFINE word == EncodeCallHeader(h, type, size)
<1>1. OutUnit = SizeUnit * SizeRange
      BY CallHeaderAssumption
<1>2. PICK g \in Nat : TypeUnit = OutUnit * OutRange * g
      BY CallHeaderAssumption
<1>3. PICK k \in Nat : MethodUnit = TypeUnit * TypeRange * k
      BY CallHeaderAssumption
<1>4. h.method \in 0 .. MethodRange - 1 /\ h.target \in 0 .. TargetRange - 1
      BY DEF CallHeader
<1>5. word = h.method * MethodUnit + type * TypeUnit + size * SizeUnit + h.target
      BY DEF EncodeCallHeader
<1> HIDE DEF word
<1>u. /\ TargetRange \in Nat \ {0} /\ SizeUnit \in Nat \ {0} /\ SizeRange \in Nat \ {0}
      /\ OutUnit \in Nat \ {0} /\ OutRange \in Nat \ {0}
      /\ TypeUnit \in Nat \ {0} /\ TypeRange \in Nat \ {0}
      /\ MethodUnit \in Nat \ {0} /\ MethodRange \in Nat \ {0}
      BY FieldConstants
\* Each field, with all that is below it, stays below the unit of the next one.
<1>6. ASSUME NEW unit \in Nat \ {0}, NEW range \in Nat \ {0}, NEW value \in 0 .. range - 1,
             NEW below \in 0 .. unit - 1
      PROVE  value * unit + below \in 0 .. unit * range - 1
  <2>1. value * unit \in Nat
        OBVIOUS
  <2>2. (range - 1) * unit = unit * range - unit
        OBVIOUS
  <2>3. value * unit <= (range - 1) * unit
        OBVIOUS
  <2> QED BY <2>1, <2>2, <2>3
<1> DEFINE low == size * SizeUnit + h.target
           mid == type * TypeUnit + low
<1>t. PICK f \in Nat : SizeUnit = TargetRange * f
      BY CallHeaderAssumption
<1>7. h.target \in 0 .. SizeUnit - 1
  <2>1. f >= 1
        BY <1>t, <1>u
  <2>2. TargetRange <= SizeUnit
        BY <2>1, <1>t, <1>u
  <2> QED BY <2>2, <1>4, <1>u
<1>8. low \in 0 .. OutUnit - 1
      BY <1>6, <1>7, <1>1, <1>u
<1>9. OutUnit * OutRange \in Nat /\ OutUnit <= OutUnit * OutRange
      BY <1>u
<1>10. OutUnit * OutRange <= TypeUnit
  <2>1. g >= 1
        BY <1>2, <1>u, <1>9
  <2> QED BY <2>1, <1>2, <1>9
<1>11. low \in 0 .. TypeUnit - 1
       BY <1>8, <1>9, <1>10, <1>u
<1>12. TypeUnit * TypeRange \in Nat /\ TypeUnit * TypeRange <= MethodUnit
  <2>1. TypeUnit * TypeRange \in Nat
        BY <1>u
  <2>2. k >= 1
        BY <1>3, <1>u, <2>1
  <2> QED BY <2>1, <2>2, <1>3
<1>13. mid \in 0 .. TypeUnit * TypeRange - 1
       BY <1>6, <1>11, <1>u
<1>14. mid \in 0 .. MethodUnit - 1
       BY <1>12, <1>13, <1>u
<1>15. word = h.method * MethodUnit + mid
  <2>1. h.method * MethodUnit \in Nat /\ type * TypeUnit \in Nat /\ size * SizeUnit \in Nat
        BY <1>4, <1>u
  <2> QED BY <2>1, <1>4, <1>5, <1>u
<1> HIDE DEF low, mid
<1>20. Field(word, MethodUnit, MethodRange) = h.method
  <2>1. word = Packed(0, h.method, mid, MethodUnit, MethodRange)
    <3>1. 0 * (MethodUnit * MethodRange) = 0 /\ h.method * MethodUnit \in Nat
          BY <1>4, <1>u
    <3> QED BY <3>1, <1>14, <1>15 DEF Packed
  <2>2. 0 \in Nat
        OBVIOUS
  <2>3. Field(Packed(0, h.method, mid, MethodUnit, MethodRange), MethodUnit, MethodRange)
          = h.method
        BY <2>2, <1>4, <1>14, <1>u, FieldHolds
  <2> QED BY <2>1, <2>3
<1>16. h.method * k \in Nat /\ h.method * MethodUnit = (h.method * k) * (TypeUnit * TypeRange)
  <2>1. \A x \in Nat, y \in Nat : x * (y * k) = (x * k) * y /\ x * k \in Nat
        OBVIOUS
  <2> QED BY <2>1, <1>3, <1>4, <1>12
<1>21. Field(word, TypeUnit, TypeRange) = type
  <2>1. word = Packed(h.method * k, type, low, TypeUnit, TypeRange)
    <3>1. (h.method * k) * (TypeUnit * TypeRange) \in Nat /\ type * TypeUnit \in Nat
          BY <1>12, <1>16, <1>u
    <3> QED BY <3>1, <1>11, <1>15, <1>16 DEF Packed, mid
  <2>2. Field(Packed(h.method * k, type, low, TypeUnit, TypeRange), TypeUnit, TypeRange) = type
        BY <1>11, <1>16, <1>u, FieldHolds
  <2> QED BY <2>1, <2>2
\* What is above the size field is a multiple of the unit of the next one.
<1> DEFINE a == ((h.method * k) * TypeRange + type) * g
<1>17. a \in Nat /\ word = a * (OutUnit * OutRange) + low
  <2>1. ASSUME NEW m \in Nat, NEW A \in Nat, NEW R \in Nat, NEW t \in Nat
        PROVE  /\ (m * R + t) * g \in Nat
               /\ m * ((A * g) * R) + t * (A * g) = ((m * R + t) * g) * A
    <3>1. m * R \in Nat /\ A * g \in Nat /\ m * R + t \in Nat
          OBVIOUS
    <3>2. m * ((A * g) * R) = (m * R) * (A * g)
          OBVIOUS
    <3>3. (m * R) * (A * g) + t * (A * g) = (m * R + t) * (A * g)
          BY <3>1
    <3>4. \A x \in Nat : x * (A * g) = (x * g) * A /\ x * g \in Nat
          OBVIOUS
    <3> QED BY <3>1, <3>2, <3>3, <3>4
  <2>2. type \in Nat /\ TypeRange \in Nat
        BY <1>u
  <2>3. a \in Nat /\ (h.method * k) * (TypeUnit * TypeRange) + type * TypeUnit
                       = a * (OutUnit * OutRange)
        BY <2>1, <2>2, <1>2, <1>9, <1>16
  <2>4. (h.method * k) * (TypeUnit * TypeRange) \in Nat /\ type * TypeUnit \in Nat
        BY <1>12, <1>16, <1>u
  <2> HIDE DEF a
  <2> QED BY <2>3, <2>4, <1>11, <1>15, <1>16 DEF mid
<1> HIDE DEF a
<1>22. Field(word, SizeUnit, SizeRange) = size
  <2>1. a * (OutUnit * OutRange) = (a * OutRange) * (SizeUnit * SizeRange) /\ a * OutRange \in Nat
    <3>1. \A x \in Nat, y \in Nat, z \in Nat : x * (y * z) = (x * z) * y /\ x * z \in Nat
          OBVIOUS
    <3> QED BY <3>1, <1>1, <1>17, <1>u
  <2>2. word = Packed(a * OutRange, size, h.target, SizeUnit, SizeRange)
    <3>1. (a * OutRange) * (SizeUnit * SizeRange) \in Nat /\ size * SizeUnit \in Nat
          BY <2>1, <1>u
    <3> QED BY <2>1, <3>1, <1>7, <1>17 DEF Packed, low
  <2>3. Field(Packed(a * OutRange, size, h.target, SizeUnit, SizeRange), SizeUnit, SizeRange)
          = size
        BY <2>1, <1>7, <1>u, FieldHolds
  <2> QED BY <2>2, <2>3
<1>23. Field(word, OutUnit, OutRange) = 0
  <2>1. 0 \in 0 .. OutRange - 1
        BY <1>u
  <2>2. word = Packed(a, 0, low, OutUnit, OutRange)
    <3>1. a * (OutUnit * OutRange) \in Nat /\ 0 * OutUnit = 0
          BY <1>9, <1>17, <1>u
    <3> QED BY <3>1, <1>8, <1>17 DEF Packed
  <2>3. Field(Packed(a, 0, low, OutUnit, OutRange), OutUnit, OutRange) = 0
        BY <2>1, <1>8, <1>17, <1>u, FieldHolds
  <2> QED BY <2>2, <2>3
<1>24. word % TargetRange = h.target
  <2>1. ASSUME NEW x \in Nat
        PROVE  x * SizeUnit = (x * f) * TargetRange /\ x * f \in Nat
    <3>1. \A y \in Nat, z \in Nat : x * (y * z) = (x * z) * y /\ x * z \in Nat
          OBVIOUS
    <3> QED BY <3>1, <1>t, <1>u
  <2>2. PICK b \in Nat : a * (OutUnit * OutRange) = b * SizeUnit
    <3>1. \A x \in Nat, y \in Nat, z \in Nat, w \in Nat :
             x * ((y * z) * w) = ((x * z) * w) * y /\ (x * z) * w \in Nat
          OBVIOUS
    <3>2. a * ((SizeUnit * SizeRange) * OutRange) = ((a * SizeRange) * OutRange) * SizeUnit
          /\ (a * SizeRange) * OutRange \in Nat
          BY <3>1, <1>17, <1>u
    <3> QED BY <3>2, <1>1
  <2>3. (b + size) * f \in Nat /\ word = ((b + size) * f) * TargetRange + h.target
    <3>1. b + size \in Nat
          BY <1>u
    <3>2. b * SizeUnit \in Nat /\ size * SizeUnit \in Nat
          /\ (b + size) * SizeUnit = b * SizeUnit + size * SizeUnit
          BY <1>u
    <3>3. (b + size) * SizeUnit = ((b + size) * f) * TargetRange /\ (b + size) * f \in Nat
          BY <2>1, <3>1
    <3>4. word = (b + size) * SizeUnit + h.target
          BY <2>2, <3>2, <1>7, <1>17 DEF low
    <3> QED BY <3>3, <3>4
  <2>4. \A q \in Nat : (q * TargetRange + h.target) % TargetRange = h.target
        BY <1>4, <1>u, DivisionIsUnique
  <2> QED BY <2>3, <2>4
<1> QED BY <1>20, <1>21, <1>22, <1>23, <1>24 DEF word
-----------------------------------------------------------------------------
\* What the markets build: arguments without a value, or a value without arguments.
LEMMA CallShape ==
    ASSUME NEW c \in Calls
    PROVE  /\ c = [header |-> c.header, type |-> c.type, value |-> c.value,
                   payload |-> c.payload]
           /\ c.header \in CallHeader
           /\ c.value \in Nat
           /\ c.payload \in Seq(Words) /\ c.payload \in Seq(Nat)
           /\ Len(c.payload) \in 0 .. SizeRange - 1
           /\ \/ c.type = Call /\ c.value = 0
              \/ c.type \in {ValueCall, AssertOwnerBalance} /\ c.payload = <<>>
<1>1. CASE \E n \in 1 .. MaxWords : c \in CallsWithWords(n)
  <2>1. PICK n \in 1 .. MaxWords : c \in CallsWithWords(n)
        BY <1>1
  <2>2. n \in Nat /\ n < SizeRange /\ SizeRange \in Nat
        BY WordsAssumption, FieldConstants
  <2>3. c.payload \in [1 .. n -> Words] /\ c.payload \in [1 .. n -> Nat]
        BY <2>1, WordsAssumption DEF CallsWithWords
  <2>4. c.payload \in Seq(Words) /\ c.payload \in Seq(Nat) /\ Len(c.payload) = n
        BY <2>2, <2>3
  <2>5. /\ c = [header |-> c.header, type |-> c.type, value |-> c.value,
                payload |-> c.payload]
        /\ c.header \in CallHeader
        BY <2>1 DEF CallsWithWords
  <2>6. c.value = 0 /\ c.type = Call
        BY <2>1 DEF CallsWithWords
  <2> QED BY <2>2, <2>4, <2>5, <2>6
<1>2. CASE c \in CallsWithValue
  <2>1. SizeRange \in Nat /\ SizeRange > 0
        BY FieldConstants
  <2>2. c.payload = <<>>
        BY <1>2 DEF CallsWithValue
  <2>3. c.payload \in Seq(Words) /\ c.payload \in Seq(Nat) /\ Len(c.payload) = 0
        BY <2>2
  <2>4. /\ c = [header |-> c.header, type |-> c.type, value |-> c.value,
                payload |-> c.payload]
        /\ c.header \in CallHeader
        BY <1>2 DEF CallsWithValue
  <2>5. c.value \in Nat /\ c.type \in {ValueCall, AssertOwnerBalance}
        BY <1>2, WordsAssumption DEF CallsWithValue
  <2>6. Len(c.payload) \in 0 .. SizeRange - 1
        BY <2>1, <2>3
  <2> QED BY <2>2, <2>3, <2>4, <2>5, <2>6
<1>3. (\E n \in 1 .. MaxWords : c \in CallsWithWords(n)) \/ c \in CallsWithValue
      BY DEF Calls
<1> QED BY <1>1, <1>2, <1>3

\* A call takes as many words as the contract will take for it, its header first.
LEMMA EncodedCall ==
    ASSUME NEW c \in Calls
    PROVE  /\ EncodeCall(c) \in Seq(Nat)
           /\ Len(EncodeCall(c)) = Size(c)
           /\ Size(c) \in Nat /\ Size(c) > 0
           /\ EncodeCall(c)[1] = EncodeCallHeader(c.header, c.type, Len(c.payload))
           /\ c.type = Call => \A j \in 1 .. Len(c.payload) : EncodeCall(c)[j + 1] = c.payload[j]
           /\ c.type # Call => EncodeCall(c)[2] = c.value
<1> DEFINE h == EncodeCallHeader(c.header, c.type, Len(c.payload))
           rest == IF c.type = Call THEN c.payload ELSE <<c.value>>
<1>1. h \in Nat
  <2>1. c.header.method \in Nat /\ c.header.target \in Nat
    <3>1. MethodRange \in Nat /\ TargetRange \in Nat
          BY FieldConstants
    <3> QED BY <3>1, CallShape DEF CallHeader
  <2>2. MethodUnit \in Nat /\ TypeUnit \in Nat /\ SizeUnit \in Nat
        BY FieldConstants
  <2>3. c.type \in Nat /\ Len(c.payload) \in Nat
        BY CallShape DEF Call, ValueCall, AssertOwnerBalance
  <2>4. /\ c.header.method * MethodUnit \in Nat
        /\ c.type * TypeUnit \in Nat
        /\ Len(c.payload) * SizeUnit \in Nat
        BY <2>1, <2>2, <2>3
  <2>5. h = c.header.method * MethodUnit + c.type * TypeUnit + Len(c.payload) * SizeUnit
              + c.header.target
        BY DEF EncodeCallHeader
  <2>6. \A x \in Nat, y \in Nat, z \in Nat, w \in Nat : x + y + z + w \in Nat
        OBVIOUS
  <2> HIDE DEF h
  <2> QED BY <2>1, <2>4, <2>5, <2>6
<1>2. rest \in Seq(Nat)
      BY CallShape
<1>3. Len(rest) = Size(c) - 1 /\ Size(c) \in Nat /\ Size(c) > 0
      BY CallShape DEF Size
<1>4. EncodeCall(c) = <<h>> \o rest
      BY DEF EncodeCall
<1> HIDE DEF h
<1>5. <<h>> \in Seq(Nat) /\ Len(<<h>>) = 1 /\ <<h>>[1] = h
      BY <1>1
<1>6. /\ <<h>> \o rest \in Seq(Nat)
      /\ Len(<<h>> \o rest) = Size(c)
      /\ (<<h>> \o rest)[1] = h
      /\ \A j \in 1 .. Len(rest) : (<<h>> \o rest)[j + 1] = rest[j]
  <2> HIDE DEF rest
  <2> QED BY <1>2, <1>3, <1>5
<1>7. c.type # Call => rest = <<c.value>> /\ Len(rest) = 1 /\ rest[1] = c.value
      BY CallShape
<1>8. c.type = Call => rest = c.payload
      OBVIOUS
<1> QED BY <1>1, <1>3, <1>4, <1>6, <1>7, <1>8 DEF h

-----------------------------------------------------------------------------
LEMMA AppendedWords ==
    ASSUME NEW s \in Seq(Nat), NEW t \in Seq(Nat), Len(t) > 0
    PROVE  /\ s \o t \in Seq(Nat) /\ s \o t # <<>>
           /\ Len(s \o t) = Len(s) + Len(t)
           /\ \A k \in 1 .. Len(s) : (s \o t)[k] = s[k]
           /\ \A k \in 1 .. Len(t) : (s \o t)[Len(s) + k] = t[k]
OBVIOUS

LEMMA AppendedStart ==
    ASSUME NEW s \in Seq(Nat), NEW x \in Nat
    PROVE  /\ Append(s, x) \in Seq(Nat)
           /\ Len(Append(s, x)) = Len(s) + 1
           /\ \A k \in 1 .. Len(s) : Append(s, x)[k] = s[k]
           /\ Append(s, x)[Len(s) + 1] = x
OBVIOUS

\* Layout, as a predicate of a sequence of words and of the places of the calls in it.
StartIn(p, s, k) == IF k <= Len(s) THEN s[k] ELSE Len(p) + 1

LiesAt(p, s, cs, k) ==
    /\ s[k] \in 2 .. Len(p)
    /\ StartIn(p, s, k + 1) = s[k] + Size(cs[k])
    /\ StartIn(p, s, k + 1) <= Len(p) + 1
    /\ \A j \in 1 .. Size(cs[k]) : p[s[k] + j - 1] = EncodeCall(cs[k])[j]

LaidOut(p, s, cs) == StartIn(p, s, 1) = 2 /\ \A k \in 1 .. Len(s) : LiesAt(p, s, cs, k)

LEMMA LayoutGrows ==
    ASSUME NEW p \in Seq(Nat), NEW s \in Seq(Nat), NEW cs \in Seq(Calls),
           Len(p) > 0, Len(s) < Len(cs), LaidOut(p, s, cs)
    PROVE  LaidOut(p \o EncodeCall(cs[Len(s) + 1]), Append(s, Len(p) + 1), cs)
<1> DEFINE m == Len(s)
           n == Len(p)
           c == cs[m + 1]
           e == EncodeCall(c)
           z == Size(c)
           q == p \o e
           t == Append(s, n + 1)
<1>1. m \in Nat /\ n \in Nat /\ n > 0 /\ n + 1 \in Nat
      OBVIOUS
<1>2. c \in Calls
      BY <1>1
<1>3. e \in Seq(Nat) /\ Len(e) = z /\ z \in Nat /\ z > 0
      BY <1>2, EncodedCall
<1> HIDE DEF c, z, e
<1>4. /\ Len(q) = n + z
      /\ \A k \in 1 .. n : q[k] = p[k]
      /\ \A k \in 1 .. z : q[n + k] = e[k]
      BY <1>3, AppendedWords
<1>5. /\ Len(t) = m + 1
      /\ \A k \in 1 .. m : t[k] = s[k]
      /\ t[m + 1] = n + 1
      BY <1>1, AppendedStart
<1>6. StartIn(p, s, m + 1) = n + 1
      BY <1>1 DEF StartIn
<1>7. \A k \in 1 .. m : StartIn(p, s, k) = s[k]
      BY <1>1 DEF StartIn
<1>8. \A k \in 1 .. m : LiesAt(p, s, cs, k)
      BY DEF LaidOut
<1> HIDE DEF m, n, q, t
<1>9. \A k \in 1 .. m + 1 : StartIn(q, t, k) = t[k]
      BY <1>1, <1>5 DEF StartIn
<1>10. \A k \in 1 .. m + 1 : StartIn(q, t, k) = StartIn(p, s, k)
  <2> TAKE k \in 1 .. m + 1
  <2>1. CASE k \in 1 .. m
        BY <2>1, <1>5, <1>7, <1>9
  <2>2. CASE k = m + 1
        BY <2>2, <1>5, <1>6, <1>9
  <2> QED BY <2>1, <2>2, <1>1
<1>11. StartIn(q, t, m + 2) = n + z + 1
       BY <1>1, <1>3, <1>4, <1>5 DEF StartIn
<1>12. ASSUME NEW k \in 1 .. m
       PROVE  LiesAt(q, t, cs, k)
  <2>1. cs[k] \in Calls
        BY <1>1 DEF m
  <2>2. Size(cs[k]) \in Nat
        BY <2>1, EncodedCall
  <2>3. /\ s[k] \in 2 .. n
        /\ StartIn(p, s, k + 1) = s[k] + Size(cs[k])
        /\ StartIn(p, s, k + 1) <= n + 1
        /\ \A j \in 1 .. Size(cs[k]) : p[s[k] + j - 1] = EncodeCall(cs[k])[j]
        BY <1>8 DEF LiesAt, n
  <2>4. t[k] = s[k] /\ StartIn(q, t, k + 1) = StartIn(p, s, k + 1)
        BY <1>1, <1>5, <1>10
  <2> DEFINE x == s[k]
             y == Size(cs[k])
  <2>8. x \in 2 .. n /\ y \in Nat /\ x + y <= n + 1
        BY <2>2, <2>3
  <2> HIDE DEF x, y
  <2>9. \A j \in 1 .. y : x + j - 1 \in 1 .. n
        BY <1>1, <2>8
  <2>10. x \in 2 .. n + z /\ x + y <= n + z + 1
        BY <1>1, <1>3, <2>8
  <2>5. \A j \in 1 .. Size(cs[k]) : s[k] + j - 1 \in 1 .. n
        BY <2>9 DEF x, y
  <2>6. \A j \in 1 .. Size(cs[k]) : q[t[k] + j - 1] = EncodeCall(cs[k])[j]
        BY <1>4, <2>3, <2>4, <2>5
  <2>7. t[k] \in 2 .. n + z /\ StartIn(q, t, k + 1) <= n + z + 1
        BY <2>3, <2>4, <2>10 DEF x, y
  <2> QED BY <1>4, <2>3, <2>4, <2>6, <2>7 DEF LiesAt
<1>13. LiesAt(q, t, cs, m + 1)
  <2>1. \A j \in 1 .. z : q[n + 1 + j - 1] = e[j]
        BY <1>1, <1>3, <1>4
  <2>2. \A j \in 1 .. Size(cs[m + 1]) : q[t[m + 1] + j - 1] = EncodeCall(cs[m + 1])[j]
        BY <2>1, <1>5 DEF e, c, z
  <2>3. Size(cs[m + 1]) = z
        BY DEF z, c
  <2>4. m + 1 + 1 = m + 2
        BY <1>1
  <2>5. t[m + 1] \in 2 .. n + z /\ StartIn(q, t, m + 1 + 1) = t[m + 1] + z
        /\ StartIn(q, t, m + 1 + 1) <= n + z + 1
        BY <1>1, <1>3, <1>5, <1>11, <2>4
  <2> QED BY <1>4, <2>2, <2>3, <2>5 DEF LiesAt
<1>14. StartIn(q, t, 1) = 2
       BY <1>1, <1>10 DEF LaidOut
<1>15. \A k \in 1 .. Len(t) : LiesAt(q, t, cs, k)
  <2>1. Len(t) = m + 1
        BY <1>5
  <2>2. \A k \in 1 .. m + 1 : k \in 1 .. m \/ k = m + 1
        BY <1>1
  <2> QED BY <2>1, <2>2, <1>12, <1>13
<1>16. LaidOut(q, t, cs)
       BY <1>14, <1>15 DEF LaidOut
<1> QED BY <1>16 DEF q, t, e, c, m, n

LEMMA LayoutIsLaidOut ==
    ASSUME NEW p \in Seq(Nat), NEW s \in Seq(Nat), NEW cs \in Seq(Calls),
           Len(p) > 0, Len(s) <= Len(cs), LaidOut(p, s, cs), NEW k \in 1 .. Len(s)
    PROVE  /\ StartIn(p, s, k) = s[k] /\ s[k] \in 2 .. Len(p)
           /\ cs[k] \in Calls
           /\ p[s[k]] = EncodeCallHeader(cs[k].header, cs[k].type, Len(cs[k].payload))
           /\ StartIn(p, s, k + 1) = s[k] + Size(cs[k])
           /\ cs[k].type = Call =>
                 \A j \in 1 .. Len(cs[k].payload) :
                    s[k] + j \in 1 .. Len(p) /\ p[s[k] + j] = cs[k].payload[j]
           /\ cs[k].type # Call => s[k] + 1 \in 1 .. Len(p) /\ p[s[k] + 1] = cs[k].value
<1> DEFINE c == cs[k]
<1>1. c \in Calls
      OBVIOUS
<1>2. /\ EncodeCall(c)[1] = EncodeCallHeader(c.header, c.type, Len(c.payload))
      /\ c.type = Call => \A j \in 1 .. Len(c.payload) : EncodeCall(c)[j + 1] = c.payload[j]
      /\ c.type # Call => EncodeCall(c)[2] = c.value
      /\ Size(c) \in Nat /\ Size(c) > 0
      BY <1>1, EncodedCall
<1>3. LiesAt(p, s, cs, k)
      BY DEF LaidOut
<1>7. Len(p) \in Nat
      OBVIOUS
<1>4. /\ s[k] \in 2 .. Len(p) /\ s[k] \in Nat
      /\ StartIn(p, s, k + 1) = s[k] + Size(c)
      /\ StartIn(p, s, k + 1) <= Len(p) + 1
      /\ \A j \in 1 .. Size(c) : p[s[k] + j - 1] = EncodeCall(c)[j]
  <2>1. s[k] \in Nat
        OBVIOUS
  <2> QED BY <1>3, <2>1 DEF LiesAt
<1>5. Len(c.payload) \in Nat
      BY <1>1, CallShape
<1>6. StartIn(p, s, k) = s[k]
      BY DEF StartIn
<1> DEFINE z == Size(c)
           x == s[k]
           n == Len(p)
<1>12. z \in Nat /\ z > 0 /\ x \in Nat /\ x >= 2 /\ x + z <= n + 1 /\ n \in Nat
      BY <1>2, <1>4, <1>7
<1> HIDE DEF c, x, z, n
<1>13. \A j \in 0 .. z - 1 : j + 1 \in 1 .. z /\ x + (j + 1) - 1 = x + j /\ x + j \in 1 .. n
      BY <1>12
<1>8. \A j \in 0 .. Size(c) - 1 : s[k] + j \in 1 .. Len(p) /\ p[s[k] + j] = EncodeCall(c)[j + 1]
  <2> TAKE j \in 0 .. Size(c) - 1
  <2>1. j + 1 \in 1 .. Size(c) /\ s[k] + (j + 1) - 1 = s[k] + j
        BY <1>13 DEF x, z
  <2>2. p[s[k] + j] = EncodeCall(c)[j + 1]
        BY <2>1, <1>4
  <2>3. s[k] + j \in 1 .. Len(p)
        BY <1>13 DEF x, z, n
  <2> QED BY <2>2, <2>3
<1>9. p[s[k]] = EncodeCall(c)[1]
  <2>1. 0 \in 0 .. z - 1 /\ x + 0 = x /\ 0 + 1 = 1
        BY <1>12
  <2>2. 0 \in 0 .. Size(c) - 1 /\ s[k] + 0 = s[k]
        BY <2>1 DEF x, z
  <2> QED BY <2>1, <2>2, <1>8
<1>10. ASSUME c.type = Call, NEW j \in 1 .. Len(c.payload)
       PROVE  s[k] + j \in 1 .. Len(p) /\ p[s[k] + j] = c.payload[j]
  <2>1. j \in 0 .. Size(c) - 1
        BY <1>5, <1>10 DEF Size
  <2> QED BY <2>1, <1>2, <1>8, <1>10
<1>11. c.type # Call => s[k] + 1 \in 1 .. Len(p) /\ p[s[k] + 1] = c.value
  <2> HAVE c.type # Call
  <2>1. 1 \in 0 .. Size(c) - 1 /\ 1 + 1 = 2
        BY DEF Size
  <2> QED BY <2>1, <1>2, <1>8
<1> QED BY <1>1, <1>2, <1>4, <1>6, <1>9, <1>10, <1>11 DEF c

CalldataInv == TypeOK /\ Layout /\ Position

LEMMA CalldataInit == Init => CalldataInv
<1> SUFFICES ASSUME Init PROVE CalldataInv
    OBVIOUS
<1>1. calls \in Seq(Calls) /\ Len(calls) \in Nat
      BY WordsAssumption DEF Init
<1>2. NoSettings \in Headers
  <2>1. 0 \in 0 .. BlockRange - 1 /\ 0 \in 0 .. CoinbaseRange - 1
        BY FieldConstants
  <2> QED BY <2>1 DEF NoSettings, Headers
<1> QED BY <1>1, <1>2 DEF Init, CalldataInv, TypeOK, Layout, Position

LEMMA LayoutMeans ==
    /\ Layout <=> /\ Len(starts) = encoded
                  /\ params = <<>> => encoded = 0
                  /\ params # <<>> => params[1] = EncodeHeader(header) /\ LaidOut(params, starts, calls)
    /\ \A k : Start(k) = StartIn(params, starts, k)
BY DEF Layout, LaidOut, LiesAt, Start, StartIn

LEMMA EncodedHeaderIsWord ==
    ASSUME NEW h \in Headers
    PROVE  EncodeHeader(h) \in Nat
<1>1. BlockRange \in Nat /\ CoinbaseRange \in Nat /\ BlockUnit \in Nat /\ CoinbaseUnit \in Nat
      BY FieldConstants
<1>2. h.block \in Nat /\ h.coinbase \in Nat
      BY <1>1 DEF Headers
<1>3. \A x \in Nat, y \in Nat : x * y \in Nat
      OBVIOUS
<1> QED BY <1>1, <1>2, <1>3 DEF EncodeHeader, Bit

\* Wherever the contract reads a header, it is at the next call of the trade, and what
\* it takes from the words is that call.
LEMMA AtACall ==
    ASSUME CalldataInv, pc = "decode", index <= Len(params)
    PROVE  LET k == Len(made) + 1
               c == calls[Len(made) + 1]
           IN  /\ k \in 1 .. Len(calls)
               /\ c \in Calls
               /\ HeaderAt(index) = c.header
               /\ TypeAt(index) = c.type
               /\ SizeAt(index) = Len(c.payload)
               /\ c.type = Call => /\ Arguments(index + 1, SizeAt(index)) = c.payload
                                  /\ index + 1 + SizeAt(index) = Start(k + 1)
               /\ c.type # Call => Load(index + 1) = c.value /\ index + 2 = Start(k + 1)
<1> DEFINE k == Len(made) + 1
           c == calls[k]
<1>1. /\ params \in Seq(Nat) /\ starts \in Seq(Nat) /\ calls \in Seq(Calls)
      /\ made \in Seq(Calls) /\ Len(made) \in Nat /\ params # <<>>
      /\ Len(starts) = Len(calls) /\ Len(made) <= Len(starts) /\ index = Start(k)
      /\ LaidOut(params, starts, calls)
      BY LayoutMeans DEF CalldataInv, TypeOK, Layout, Position
<1>2. Len(params) > 0 /\ Len(starts) \in Nat /\ Len(params) \in Nat
      BY <1>1
<1>3. index = StartIn(params, starts, k)
      BY <1>1, LayoutMeans
<1>4. k <= Len(starts)
  <2>1. CASE k > Len(starts)
        BY <2>1, <1>1, <1>2, <1>3 DEF StartIn
  <2> QED BY <2>1, <1>1, <1>2
<1>5. k \in 1 .. Len(starts)
      BY <1>1, <1>2, <1>4
<1> HIDE DEF k
<1>6. /\ index = starts[k] /\ starts[k] \in 2 .. Len(params)
      /\ c \in Calls
      /\ params[index] = EncodeCallHeader(c.header, c.type, Len(c.payload))
      /\ StartIn(params, starts, k + 1) = index + Size(c)
      /\ c.type = Call => \A j \in 1 .. Len(c.payload) :
            index + j \in 1 .. Len(params) /\ params[index + j] = c.payload[j]
      /\ c.type # Call => index + 1 \in 1 .. Len(params) /\ params[index + 1] = c.value
  <2>1. Len(starts) <= Len(calls)
        BY <1>1, <1>2
  <2>2. StartIn(params, starts, k) = starts[k]
        BY <1>1, <1>2, <1>5, <2>1, LayoutIsLaidOut
  <2>3. index = starts[k]
        BY <1>3, <2>2
  <2> DEFINE x == starts[k]
  <2>4. /\ x \in 2 .. Len(params)
        /\ c \in Calls
        /\ params[x] = EncodeCallHeader(c.header, c.type, Len(c.payload))
        /\ StartIn(params, starts, k + 1) = x + Size(c)
        /\ c.type = Call => \A j \in 1 .. Len(c.payload) :
              x + j \in 1 .. Len(params) /\ params[x + j] = c.payload[j]
        /\ c.type # Call => x + 1 \in 1 .. Len(params) /\ params[x + 1] = c.value
    <3>1. k \in 1 .. Len(starts) /\ Len(params) > 0 /\ params \in Seq(Nat)
          /\ starts \in Seq(Nat) /\ calls \in Seq(Calls) /\ LaidOut(params, starts, calls)
          BY <1>1, <1>2, <1>5
    <3> HIDE DEF x, c
    <3>2. x = starts[k] /\ c = calls[k]
          BY DEF x, c
    <3>3. x \in 2 .. Len(params) /\ c \in Calls
          BY <2>1, <3>1, <3>2, LayoutIsLaidOut
    <3>4. params[x] = EncodeCallHeader(c.header, c.type, Len(c.payload))
          BY <2>1, <3>1, <3>2, LayoutIsLaidOut
    <3>5. StartIn(params, starts, k + 1) = x + Size(c)
          BY <2>1, <3>1, <3>2, LayoutIsLaidOut
    <3>6. c.type = Call => \A j \in 1 .. Len(c.payload) :
              x + j \in 1 .. Len(params) /\ params[x + j] = c.payload[j]
          BY <2>1, <3>1, <3>2, LayoutIsLaidOut
    <3>7. c.type # Call => x + 1 \in 1 .. Len(params) /\ params[x + 1] = c.value
          BY <2>1, <3>1, <3>2, LayoutIsLaidOut
    <3> QED BY <3>3, <3>4, <3>5, <3>6, <3>7
  <2> HIDE DEF x, c
  <2>5. index = x
        BY <2>3 DEF x
  <2> QED BY <2>4, <2>5 DEF x
<1>7. /\ c.header \in CallHeader /\ Len(c.payload) \in 0 .. SizeRange - 1
      /\ c.payload \in Seq(Nat)
      /\ \/ c.type = Call /\ c.value = 0
         \/ c.type \in {ValueCall, AssertOwnerBalance} /\ c.payload = <<>>
      BY <1>6, CallShape
<1>8. DOMAIN params = 1 .. Len(params)
      BY <1>1
<1> HIDE DEF c
<1>9. index \in Nat /\ index \in 1 .. Len(params)
      BY <1>2, <1>6
<1>10. c.type \in 0 .. TypeRange - 1
  <2>1. TypeRange \in Nat /\ TypeRange > 3
        BY FieldConstants, CallHeaderAssumption
  <2> QED BY <2>1, <1>7 DEF Call, ValueCall, AssertOwnerBalance
<1>11. Load(index) = EncodeCallHeader(c.header, c.type, Len(c.payload))
       BY <1>6, <1>8, <1>9 DEF Load
<1>12. /\ Field(Load(index), MethodUnit, MethodRange) = c.header.method
       /\ Load(index) % TargetRange = c.header.target
       /\ Field(Load(index), TypeUnit, TypeRange) = c.type
       /\ Field(Load(index), SizeUnit, SizeRange) = Len(c.payload)
       BY <1>7, <1>10, <1>11, CallHeaderArrives
<1>13. HeaderAt(index) = c.header
       BY <1>7, <1>12 DEF HeaderAt, CallHeader
<1>14. TypeAt(index) = c.type /\ SizeAt(index) = Len(c.payload)
       BY <1>12 DEF TypeAt, SizeAt
<1>15. Start(k + 1) = index + Size(c)
       BY <1>6, LayoutMeans
<1>16. ASSUME c.type = Call
       PROVE  /\ Arguments(index + 1, SizeAt(index)) = c.payload
              /\ index + 1 + SizeAt(index) = Start(k + 1)
  <2>1. Len(c.payload) \in Nat /\ DOMAIN c.payload = 1 .. Len(c.payload)
        /\ c.payload = [j \in 1 .. Len(c.payload) |-> c.payload[j]]
        BY <1>7
  <2>2. ASSUME NEW j \in 1 .. Len(c.payload)
        PROVE  Load(index + 1 + j - 1) = c.payload[j]
    <3>1. index + 1 + j - 1 = index + j
          BY <1>9, <2>1
    <3>2. index + j \in 1 .. Len(params) /\ params[index + j] = c.payload[j]
          BY <1>6, <1>16
    <3> QED BY <3>1, <3>2, <1>8 DEF Load
  <2>3. Arguments(index + 1, SizeAt(index)) = [j \in 1 .. Len(c.payload) |-> c.payload[j]]
        BY <1>14, <2>2 DEF Arguments
  <2>4. Size(c) = 1 + Len(c.payload)
        BY <1>16 DEF Size
  <2>6. \A x \in Nat, y \in Nat : x + 1 + y = x + (1 + y)
        OBVIOUS
  <2>7. index + 1 + Len(c.payload) = index + Size(c)
        BY <1>9, <2>1, <2>4, <2>6
  <2>5. index + 1 + SizeAt(index) = Start(k + 1)
        BY <1>14, <1>15, <2>7
  <2> QED BY <2>1, <2>3, <2>5
<1>17. ASSUME c.type # Call
       PROVE  Load(index + 1) = c.value /\ index + 2 = Start(k + 1)
  <2>1. Load(index + 1) = c.value
        BY <1>6, <1>8, <1>17 DEF Load
  <2>2. Size(c) = 2
        BY <1>17 DEF Size
  <2> QED BY <1>15, <2>1, <2>2
<1>18. Len(made) + 1 \in 1 .. Len(calls)
       BY <1>1, <1>5 DEF k
<1> QED BY <1>6, <1>13, <1>14, <1>16, <1>17, <1>18 DEF c, k

LEMMA WordOfSequence ==
    ASSUME NEW s \in Seq(Nat)
    PROVE  \A k \in 1 .. Len(s) : s[k] \in Nat
OBVIOUS

\* Making that call, and going on at the next one, keeps the invariant.
LEMMA OneMoreMade ==
    ASSUME CalldataInv, pc = "decode",
           Len(made) + 1 \in 1 .. Len(calls),
           made' = Append(made, calls[Len(made) + 1]),
           index' = Start(Len(made) + 2),
           UNCHANGED <<header, calls, balance, pc, encoded, params, starts, settings>>
    PROVE  CalldataInv'
<1>1. /\ made \in Seq(Calls) /\ calls \in Seq(Calls) /\ Len(made) \in Nat
      /\ params \in Seq(Nat) /\ starts \in Seq(Nat)
      /\ encoded = Len(calls) /\ params # <<>> /\ settings = header
      /\ \A k \in 1 .. Len(made) : made[k] = calls[k]
      BY DEF CalldataInv, TypeOK, Position
<1>2. calls[Len(made) + 1] \in Calls
      BY <1>1
<1>3. /\ made' \in Seq(Calls) /\ Len(made') = Len(made) + 1
      /\ \A k \in 1 .. Len(made) : made'[k] = made[k]
      /\ made'[Len(made) + 1] = calls[Len(made) + 1]
      BY <1>1, <1>2
<1>4. \A k \in 1 .. Len(made') : made'[k] = calls[k]
  <2>1. ASSUME NEW k \in 1 .. Len(made) PROVE made'[k] = calls[k]
        BY <1>1, <1>3
  <2>2. \A n \in Nat : \A k \in 1 .. n + 1 : k \in 1 .. n \/ k = n + 1
        OBVIOUS
  <2>3. \A k \in 1 .. Len(made) + 1 : k \in 1 .. Len(made) \/ k = Len(made) + 1
        BY <1>1, <2>2
  <2> QED BY <1>3, <2>1, <2>3
<1>5. Start(Len(made) + 2) \in Nat
  <2>1. Len(params) + 1 \in Nat /\ Len(starts) \in Nat /\ Len(made) + 2 \in Nat
        BY <1>1
  <2>2. Len(made) + 2 <= Len(starts) => starts[Len(made) + 2] \in Nat
    <3>1. Len(made) + 2 <= Len(starts) => Len(made) + 2 \in 1 .. Len(starts)
          BY <1>1, <2>1
    <3>2. \A k \in 1 .. Len(starts) : starts[k] \in Nat
          BY <1>1, WordOfSequence
    <3> QED BY <3>1, <3>2
  <2> QED BY <2>1, <2>2 DEF Start
<1>6. TypeOK'
      BY <1>3, <1>5 DEF CalldataInv, TypeOK
<1>7. Layout'
      BY DEF CalldataInv, Layout, Start
<1>8. index' = Start(Len(made) + 1)'
  <2>1. Len(made') + 1 = Len(made) + 2
        BY <1>1, <1>3
  <2> QED BY <2>1 DEF Start
<1>9. Len(made') <= encoded'
      BY <1>1, <1>3
<1>10. Position'
       BY <1>1, <1>3, <1>4, <1>8, <1>9 DEF Position
<1> QED BY <1>6, <1>7, <1>10 DEF CalldataInv

LEMMA CalldataStep == CalldataInv /\ [Next]_vars => CalldataInv'
<1> SUFFICES ASSUME CalldataInv, [Next]_vars PROVE CalldataInv'
    OBVIOUS
<1> USE DEF CalldataInv
<1>1. CASE Begin
  <2>1. EncodeHeader(header) \in Nat
        BY EncodedHeaderIsWord DEF TypeOK
  <2>2. params' = <<EncodeHeader(header)>> /\ params' \in Seq(Nat) /\ Len(params') = 1
        /\ params'[1] = EncodeHeader(header)
        BY <1>1, <2>1 DEF Begin
  <2>3. encoded = 0 /\ starts = <<>> /\ Len(starts) = 0
        BY <1>1 DEF Begin, Layout, TypeOK
  <2>4. TypeOK'
        BY <1>1, <2>2 DEF Begin, TypeOK
  <2>5. Layout'
        BY <1>1, <2>2, <2>3 DEF Begin, Layout, Start
  <2>6. Position'
        BY <1>1 DEF Begin, Position
  <2> QED BY <2>4, <2>5, <2>6
<1>2. CASE AppendCall
  <2> DEFINE c == calls[encoded + 1]
             e == EncodeCall(c)
             w == Len(params) + 1
  <2>a. /\ params # <<>> /\ params \in Seq(Nat) /\ starts \in Seq(Nat)
        /\ Len(starts) = encoded /\ encoded \in 0 .. Len(calls)
        /\ encoded < Len(calls) /\ calls \in Seq(Calls)
        BY <1>2 DEF AppendCall, TypeOK, Layout
  <2>1. /\ params # <<>> /\ params \in Seq(Nat) /\ Len(params) > 0 /\ w \in Nat
        /\ starts \in Seq(Nat) /\ Len(starts) = encoded /\ encoded \in Nat
        /\ encoded < Len(calls) /\ Len(calls) \in Nat /\ calls \in Seq(Calls)
        BY <2>a
  <2>2. c \in Calls
        BY <2>1
  <2>3. e \in Seq(Nat) /\ Len(e) > 0
        BY <2>2, EncodedCall
  <2>4. /\ params' = params \o e /\ starts' = Append(starts, w) /\ encoded' = encoded + 1
        /\ pc = "encode"
        /\ UNCHANGED <<header, calls, balance, pc, index, settings, made>>
        BY <1>2 DEF AppendCall
  <2>5. LaidOut(params \o e, Append(starts, w), calls)
        BY <2>1, LayoutGrows, LayoutMeans
  <2> HIDE DEF e, c, w
  <2>6. /\ params \o e \in Seq(Nat) /\ params \o e # <<>>
        /\ (params \o e)[1] = params[1]
        BY <2>1, <2>3, AppendedWords
  <2>7. Append(starts, w) \in Seq(Nat) /\ Len(Append(starts, w)) = encoded + 1
        BY <2>1, AppendedStart
  <2>8. encoded + 1 \in 0 .. Len(calls)
        BY <2>1
  <2>9. TypeOK'
        BY <2>4, <2>6, <2>7, <2>8 DEF TypeOK
  <2>10. params[1] = EncodeHeader(header)
         BY <2>1 DEF Layout
  <2>11. Layout'
    <3>1. Len(starts') = encoded' /\ params' # <<>> /\ params'[1] = EncodeHeader(header')
          /\ LaidOut(params', starts', calls')
          BY <2>4, <2>5, <2>6, <2>7, <2>10
    <3>2. \A k : Start(k)' = StartIn(params', starts', k)
          BY DEF Start, StartIn
    <3>3. ASSUME NEW k \in 1 .. Len(starts')
          PROVE  /\ starts'[k] \in 2 .. Len(params')
                 /\ Start(k + 1)' = starts'[k] + Size(calls'[k])
                 /\ Start(k + 1)' <= Len(params') + 1
                 /\ \A j \in 1 .. Size(calls'[k]) :
                       params'[starts'[k] + j - 1] = EncodeCall(calls'[k])[j]
      <4>1. LiesAt(params', starts', calls', k)
            BY <3>1 DEF LaidOut
      <4> QED BY <3>2, <4>1 DEF LiesAt
    <3>4. Start(1)' = 2
          BY <3>1, <3>2 DEF LaidOut
    <3> QED BY <3>1, <3>3, <3>4 DEF Layout
  <2>12. Position'
         BY <2>4 DEF Position
  <2> QED BY <2>9, <2>11, <2>12
<1>3. CASE Receive
  <2>1. params # <<>> /\ encoded = Len(calls) /\ made = <<>> /\ Len(made) = 0
        BY <1>3 DEF Receive, Position
  <2>2. settings' = header
    <3>1. params \in Seq(Nat) /\ Load(1) = EncodeHeader(header) /\ header \in Headers
          BY <2>1 DEF Load, Layout, TypeOK
    <3>2. /\ (Field(Load(1), 2, 2) = 1) = header.payWithWeth
          /\ (Field(Load(1), 4, 2) = 1) = header.burnGasToken
          /\ Field(Load(1), BlockUnit, BlockRange) = header.block
          /\ Field(Load(1), CoinbaseUnit, CoinbaseRange) = header.coinbase
          BY <3>1, HeaderArrives
    <3>3. settings' = [payWithWeth |-> header.payWithWeth, burnGasToken |-> header.burnGasToken,
                       block |-> header.block, coinbase |-> header.coinbase]
          BY <1>3, <3>2 DEF Receive
    <3> QED BY <3>1, <3>3 DEF Headers
  <2>3. index' = 2 /\ pc' = "decode" /\ Start(1) = 2
        /\ UNCHANGED <<header, calls, balance, encoded, params, starts, made>>
        BY <1>3, <2>1 DEF Receive, Layout
  <2>4. TypeOK'
        BY <2>2, <2>3 DEF TypeOK
  <2>5. Layout'
        BY <2>3 DEF Layout, Start
  <2>6. Position'
        BY <2>1, <2>2, <2>3 DEF Position, Start, Layout, TypeOK
  <2> QED BY <2>4, <2>5, <2>6
<1>4. CASE PlainCall
  <2> DEFINE c == calls[Len(made) + 1]
  <2>1. /\ pc = "decode" /\ index <= Len(params) /\ TypeAt(index) = Call
        /\ made' = Append(made, [header |-> HeaderAt(index), type |-> TypeAt(index),
                                 value |-> 0, payload |-> Arguments(index + 1, SizeAt(index))])
        /\ index' = index + 1 + SizeAt(index)
        /\ UNCHANGED <<header, calls, balance, pc, encoded, params, starts, settings>>
        BY <1>4 DEF PlainCall, MakeCall, AfterCall
  <2>2. /\ Len(made) + 1 \in 1 .. Len(calls) /\ c \in Calls
        /\ HeaderAt(index) = c.header /\ TypeAt(index) = c.type /\ c.type = Call
        /\ Arguments(index + 1, SizeAt(index)) = c.payload
        /\ index + 1 + SizeAt(index) = Start(Len(made) + 1 + 1)
        BY <2>1, AtACall
  <2>3. made' = Append(made, c)
    <3>1. c.value = 0 /\ c = [header |-> c.header, type |-> c.type, value |-> c.value,
                             payload |-> c.payload]
          BY <2>2, CallShape DEF Call, ValueCall, AssertOwnerBalance
    <3> QED BY <2>1, <2>2, <3>1
  <2>4. index' = Start(Len(made) + 2)
    <3>1. Len(made) + 1 + 1 = Len(made) + 2
          BY DEF TypeOK
    <3> QED BY <2>1, <2>2, <3>1
  <2> QED BY <2>1, <2>2, <2>3, <2>4, OneMoreMade
<1>5. CASE CallWithValue
  <2> DEFINE c == calls[Len(made) + 1]
  <2>1. /\ pc = "decode" /\ index <= Len(params) /\ TypeAt(index) = ValueCall
        /\ made' = Append(made, [header |-> HeaderAt(index), type |-> TypeAt(index),
                                 value |-> Load(index + 1),
                                 payload |-> Arguments(index + 2, SizeAt(index))])
        /\ index' = index + 2 + SizeAt(index)
        /\ UNCHANGED <<header, calls, balance, pc, encoded, params, starts, settings>>
        BY <1>5 DEF CallWithValue, MakeCall, AfterCall
  <2>2. /\ Len(made) + 1 \in 1 .. Len(calls) /\ c \in Calls
        /\ HeaderAt(index) = c.header /\ TypeAt(index) = c.type /\ c.type = ValueCall
        /\ SizeAt(index) = Len(c.payload)
        /\ Load(index + 1) = c.value /\ index + 2 = Start(Len(made) + 1 + 1)
        BY <2>1, AtACall DEF Call, ValueCall
  <2>3. /\ c = [header |-> c.header, type |-> c.type, value |-> c.value, payload |-> c.payload]
        /\ c.payload = <<>>
        BY <2>2, CallShape DEF Call, ValueCall
  <2>4. SizeAt(index) = 0 /\ Arguments(index + 2, SizeAt(index)) = <<>>
        BY <2>2, <2>3 DEF Arguments
  <2>5. made' = Append(made, c)
        BY <2>1, <2>2, <2>3, <2>4
  <2>6. index' = Start(Len(made) + 2)
    <3>1. Len(made) + 1 + 1 = Len(made) + 2 /\ index + 2 + 0 = index + 2
          BY DEF TypeOK
    <3> QED BY <2>1, <2>2, <2>4, <3>1
  <2> QED BY <2>1, <2>2, <2>5, <2>6, OneMoreMade
<1>6. CASE CheckBalance
  <2> DEFINE c == calls[Len(made) + 1]
  <2>1. /\ pc = "decode" /\ index <= Len(params)
        /\ TypeAt(index) \in {AssertBalance, AssertOwnerBalance}
        /\ UNCHANGED <<header, calls, balance, encoded, params, starts, settings>>
        BY <1>6 DEF CheckBalance
  <2>2. CASE ~Enough(Load(index + 1))
    <3>1. pc' = "reverted" /\ UNCHANGED <<made, index>>
          BY <1>6, <2>2 DEF CheckBalance
    <3> QED BY <2>1, <3>1 DEF TypeOK, Layout, Position, Start
  <2>3. CASE Enough(Load(index + 1))
    <3>1. /\ made' = Append(made, [header |-> HeaderAt(index), type |-> TypeAt(index),
                                   value |-> Load(index + 1), payload |-> <<>>])
          /\ index' = index + 2 /\ UNCHANGED pc
          BY <1>6, <2>3 DEF CheckBalance
    <3>2. /\ Len(made) + 1 \in 1 .. Len(calls) /\ c \in Calls
          /\ HeaderAt(index) = c.header /\ TypeAt(index) = c.type /\ c.type # Call
          /\ Load(index + 1) = c.value /\ index + 2 = Start(Len(made) + 1 + 1)
          BY <2>1, AtACall DEF Call, AssertBalance, AssertOwnerBalance
    <3>3. /\ c = [header |-> c.header, type |-> c.type, value |-> c.value,
                  payload |-> c.payload]
          /\ c.payload = <<>>
          BY <3>2, CallShape
    <3>4. made' = Append(made, c)
          BY <3>1, <3>2, <3>3
    <3>5. index' = Start(Len(made) + 2)
      <4>1. Len(made) + 1 + 1 = Len(made) + 2
            BY DEF TypeOK
      <4> QED BY <3>1, <3>2, <4>1
    <3> QED BY <2>1, <3>1, <3>2, <3>4, <3>5, OneMoreMade
  <2> QED BY <2>2, <2>3
<1>7. CASE EndOfCalls
  <2>1. /\ pc = "decode" /\ index > Len(params) /\ pc' = "done"
        /\ UNCHANGED <<header, calls, balance, encoded, params, starts, index, settings, made>>
        BY <1>7 DEF EndOfCalls
  <2>2. Len(made) = encoded
    <3>1. /\ Len(made) \in Nat /\ Len(made) <= encoded /\ index = Start(Len(made) + 1)
          /\ params # <<>> /\ Len(starts) = encoded /\ encoded \in Nat /\ params \in Seq(Nat)
          BY <2>1 DEF TypeOK, Layout, Position
    <3>2. CASE Len(made) + 1 \in 1 .. encoded
      <4>1. starts[Len(made) + 1] \in 2 .. Len(params) /\ index = starts[Len(made) + 1]
            BY <3>1, <3>2 DEF Layout, Start
      <4> QED BY <2>1, <3>1, <4>1
    <3> QED BY <3>1, <3>2
  <2> QED BY <2>1, <2>2 DEF TypeOK, Layout, Position, Start
<1>8. CASE UNCHANGED vars
      BY <1>8 DEF vars, TypeOK, Layout, Position, Start
<1> QED BY <1>1, <1>2, <1>3, <1>4, <1>5, <1>6, <1>7, <1>8 DEF Next

\* The words are words, the index is one and the settings have the ranges of their
\* fields, in the encoder and in the contract.
THEOREM CalldataTypeCorrect == Spec => []TypeOK
<1>1. CalldataInv => TypeOK
      BY DEF CalldataInv
<1> QED BY <1>1, CalldataInit, CalldataStep, PTL DEF Spec

\* The part of MakesTheTrade about a trade that is reverted.
StopsAtAssertion ==
    pc = "reverted" =>
        /\ Len(made) < Len(calls)
        /\ calls[Len(made) + 1].type \in {AssertBalance, AssertOwnerBalance}

\* Only an assertion reverts, and it is the call that is next.
LEMMA StopsStep ==
    ASSUME CalldataInv, StopsAtAssertion, [Next]_vars
    PROVE  StopsAtAssertion'
<1>1. UNCHANGED calls
      BY DEF Next, Begin, AppendCall, Receive, PlainCall, CallWithValue, MakeCall,
             CheckBalance, EndOfCalls, vars
<1>2. ASSUME pc' = "reverted", pc # "reverted" PROVE StopsAtAssertion'
  <2>1. CheckBalance
        BY <1>2 DEF Next, Begin, AppendCall, Receive, PlainCall, CallWithValue, MakeCall,
                    EndOfCalls, vars
  <2>2. /\ pc = "decode" /\ index <= Len(params)
        /\ TypeAt(index) \in {AssertBalance, AssertOwnerBalance} /\ UNCHANGED made
        BY <1>2, <2>1 DEF CheckBalance
  <2>3. /\ Len(made) + 1 \in 1 .. Len(calls)
        /\ TypeAt(index) = calls[Len(made) + 1].type
        BY <2>2, AtACall
  <2>4. Len(made) < Len(calls)
        BY <2>3 DEF CalldataInv, TypeOK
  <2> QED BY <1>1, <2>2, <2>3, <2>4 DEF StopsAtAssertion
<1>3. ASSUME pc = "reverted" PROVE StopsAtAssertion'
  <2>1. UNCHANGED made
        BY <1>3 DEF Next, Begin, AppendCall, Receive, PlainCall, CallWithValue,
                    CheckBalance, EndOfCalls, vars
  <2> QED BY <1>1, <1>3, <2>1 DEF StopsAtAssertion
<1> QED BY <1>2, <1>3 DEF StopsAtAssertion

\* The contract makes the calls of the trade and no other, and is stopped by none of its
\* words but an assertion, whatever the words are, however many there are and however
\* wide the fields are.
THEOREM CallsArrive == Spec => []MakesTheTrade
<1>1. Init => StopsAtAssertion
      BY DEF Init, StopsAtAssertion
<1>2. CalldataInv /\ StopsAtAssertion /\ [Next]_vars => StopsAtAssertion'
      BY StopsStep
<1>3. CalldataInv /\ StopsAtAssertion => MakesTheTrade
  <2> SUFFICES ASSUME CalldataInv, StopsAtAssertion PROVE MakesTheTrade
      OBVIOUS
  <2>1. /\ made \in Seq(Calls) /\ calls \in Seq(Calls)
        /\ \A k \in 1 .. Len(made) : made[k] = calls[k]
        /\ encoded <= Len(calls)
        /\ pc = "encode" => made = <<>>
        /\ pc # "encode" => Len(made) <= encoded /\ encoded = Len(calls)
        /\ pc = "done" => Len(made) = encoded
        BY DEF CalldataInv, TypeOK, Position
  <2>2. Len(made) <= Len(calls)
        BY <2>1
  <2>3. IsPrefix(made, calls)
        BY <2>1, <2>2 DEF IsPrefix
  <2>4. pc = "done" => made = calls
        BY <2>1
  <2> QED BY <2>3, <2>4 DEF MakesTheTrade, StopsAtAssertion
<1> QED BY <1>1, <1>2, <1>3, CalldataInit, CalldataStep, PTL DEF Spec

\* The settings that the contract works with are those of the trade.
THEOREM HeaderIsKept == Spec => []SettingsArrive
<1>1. CalldataInv => SettingsArrive
      BY DEF CalldataInv, Position, SettingsArrive
<1> QED BY <1>1, CalldataInit, CalldataStep, PTL DEF Spec

\* The comparison of the balance assertions (Multicall.sol:261, 269) is the wrong way
\* round: whatever the trade, an assertion that passes has found a balance of at most
\* the expected amount.
THEOREM PassedAssertionsAreCeilings == Spec => []AssertionsAreCeilings
<1>1. Init => AssertionsAreCeilings
      BY DEF Init, AssertionsAreCeilings
<1>2. CalldataInv /\ AssertionsAreCeilings /\ [Next]_vars => AssertionsAreCeilings'
  <2> SUFFICES ASSUME CalldataInv, AssertionsAreCeilings, [Next]_vars
               PROVE  AssertionsAreCeilings'
      OBVIOUS
  <2>1. made \in Seq(Calls) /\ params \in Seq(Nat) /\ index \in Nat /\ balance \in Nat
        BY WordsAssumption DEF CalldataInv, TypeOK
  <2>2. UNCHANGED balance
        BY DEF Next, Begin, AppendCall, Receive, PlainCall, CallWithValue, MakeCall,
               CheckBalance, EndOfCalls, vars
  <2>3. CASE UNCHANGED made
        BY <2>2, <2>3 DEF AssertionsAreCeilings
  <2>4. ASSUME NEW c, made' = Append(made, c),
               c.type \in {AssertBalance, AssertOwnerBalance} => balance <= c.value
        PROVE  AssertionsAreCeilings'
    <3>1. /\ Len(made') = Len(made) + 1 /\ Len(made) \in Nat
          /\ \A k \in 1 .. Len(made) : made'[k] = made[k]
          /\ made'[Len(made) + 1] = c
          BY <2>1, <2>4
    <3>2. ASSUME NEW k \in 1 .. Len(made'),
                 made'[k].type \in {AssertBalance, AssertOwnerBalance}
          PROVE  balance' <= made'[k].value
      <4>1. CASE k \in 1 .. Len(made)
            BY <2>2, <3>1, <3>2, <4>1 DEF AssertionsAreCeilings
      <4>2. CASE k = Len(made) + 1
            BY <2>2, <2>4, <3>1, <3>2, <4>2
      <4> QED BY <3>1, <4>1, <4>2
    <3> QED BY <3>2 DEF AssertionsAreCeilings
  <2>5. CASE PlainCall \/ CallWithValue
    <3>1. PICK c : made' = Append(made, c) /\ c.type \in {Call, ValueCall}
          BY <2>5 DEF PlainCall, CallWithValue, MakeCall
    <3> QED BY <2>4, <3>1 DEF Call, ValueCall, AssertBalance, AssertOwnerBalance
  <2>6. CASE CheckBalance
    <3>1. CASE Enough(Load(index + 1))
      <4>1. PICK c : made' = Append(made, c) /\ c.value = Load(index + 1)
            BY <2>6, <3>1 DEF CheckBalance
      <4>2. Load(index + 1) \in Nat
            BY <2>1 DEF Load
      <4>3. balance <= c.value
            BY <2>1, <3>1, <4>1, <4>2 DEF Enough
      <4> QED BY <2>4, <4>1, <4>3
    <3> QED BY <2>3, <2>6, <3>1 DEF CheckBalance
  <2>7. CASE Begin \/ AppendCall \/ Receive \/ EndOfCalls \/ UNCHANGED vars
        BY <2>3, <2>7 DEF Begin, AppendCall, Receive, EndOfCalls, vars
  <2> QED BY <2>5, <2>6, <2>7 DEF Next
<1> QED BY <1>1, <1>2, CalldataInit, CalldataStep, PTL DEF Spec

-----------------------------------------------------------------------------

\* Division by the multiplier of a token.
LEMMA UnitFacts ==
    ASSUME NEW m \in Nat \ {0}, NEW n \in Nat
    PROVE  /\ n \div m \in Nat
           /\ (n \div m) * m <= n
           /\ n % m = 0 => (n \div m) * m = n
  OBVIOUS

\* Whole units below an amount are below the units that fit into it.
LEMMA WholeUnitsFit ==
    ASSUME NEW m \in Nat \ {0}, NEW n \in Nat, NEW k \in Nat, k % m = 0, k <= n
    PROVE  k <= (n \div m) * m
  OBVIOUS

\* Amounts below the capacity have units that fit into it.
LEMMA UnitsFit ==
    ASSUME NEW m \in Nat \ {0}, NEW c \in Nat \ {0}, NEW n \in Nat, n < c * m
    PROVE  /\ (n \div m) % c = n \div m
           /\ n \div m \in 0 .. (c - 1)
  OBVIOUS

\* A sum or a difference of whole units is whole units.
LEMMA UnitsAdd ==
    ASSUME NEW m \in Nat \ {0}, NEW n \in Nat, NEW k \in Nat, NEW u \in Nat,
           n % m = 0, k % m = 0
    PROVE  /\ (k + n) % m = 0
           /\ k >= n => (k - n) % m = 0
           /\ (u + n \div m) * m = u * m + n
           /\ (u - n \div m) * m = u * m - n
<1> DEFINE q == n \div m
           p == k \div m
<1>1. q \in Nat /\ p \in Nat /\ q * m = n /\ p * m = k
  BY UnitFacts
<1> HIDE DEF q, p
<1>2. /\ (u + q) * m = u * m + n /\ (u - q) * m = u * m - n
      /\ (p + q) * m = k + n /\ (p - q) * m = k - n
  BY <1>1
<1>3. \A x \in Nat : (x * m) % m = 0
  OBVIOUS
<1>4. (k + n) % m = 0
  <2>1. p + q \in Nat
    BY <1>1
  <2>2. ((p + q) * m) % m = 0
    BY <1>3, <2>1
  <2> QED
    BY <1>2, <2>2
<1>5. ASSUME k >= n PROVE (k - n) % m = 0
  <2>1. p >= q
    BY <1>1, <1>5
  <2>2. p - q \in Nat
    BY <1>1, <2>1
  <2>3. ((p - q) * m) % m = 0
    BY <1>3, <2>2
  <2> QED
    BY <1>2, <2>3
<1> QED
  BY <1>2, <1>4, <1>5 DEF q

\* What is no more in amount is no more in units.
LEMMA NoMoreUnits ==
    ASSUME NEW m \in Nat \ {0}, NEW p \in Nat, NEW q \in Nat, q * m <= p * m
    PROVE  q <= p
<1>1. ASSUME q > p PROVE FALSE
  <2>1. PICK d \in Nat \ {0} : q = p + d
    <3>1. q - p \in Nat \ {0} /\ q = p + (q - p)
      BY <1>1
    <3> QED
      BY <3>1
  <2>2. q * m = p * m + d * m /\ d * m \in Nat \ {0} /\ p * m \in Nat
    BY <2>1
  <2>3. p * m + d * m > p * m
    BY <2>2
  <2> QED
    BY <2>2, <2>3
<1> QED
  BY <1>1

\* The deposits and one more are as many whole units as the deposits.
LEMMA OneMore ==
    ASSUME NEW m \in Nat \ {0, 1}, NEW k \in Nat, k % m = 0
    PROVE  ((k + 1) \div m) * m = k
  OBVIOUS

-----------------------------------------------------------------------------
FrameType ==
    [op : {"send", "loan"}, units : [Tokens -> 0 .. (Capacity - 1)], calls : 0 .. MaxEnded,
     before : BankType, rest : [others : SUBSET Assets, combined : BOOLEAN, oldEth : Nat]]

BankTypes ==
    /\ bank \in BankType
    /\ frames \in Seq(FrameType)
    /\ Len(frames) <= MaxDepth
    /\ \A i \in 1 .. Len(frames) :
           /\ frames[i].units = frames[i].before.units
           /\ frames[i].calls = frames[i].before.calls
           /\ frames[i].calls < MaxEnded

\* The fields of a bank, and of its frames.
LEMMA BankFields ==
    ASSUME NEW b \in BankType
    PROVE  /\ b.holds \in [Assets -> Nat]
           /\ b.units \in [Tokens -> 0 .. (Capacity - 1)]
           /\ b.calls \in 0 .. MaxEnded
           /\ b.total \in [Assets -> Nat]
           /\ b.shares \in [Users -> [Assets -> Nat]]
  BY DEF BankType

LEMMA ConstantFacts ==
    /\ Weth \in Tokens /\ Eth \notin Tokens /\ Eth \in Assets /\ Tokens \subseteq Assets
    /\ \A a \in Assets : a = Eth \/ a \in Tokens
    /\ \A t \in Tokens : Multiplier[t] \in Nat \ {0} /\ Multiplier[t] # 1
    /\ Capacity \in Nat \ {0} /\ MaxEnded \in Nat /\ MaxDepth \in Nat
    /\ \A a \in Assets : \A n \in Amounts[a] : n \in Nat
    /\ \A n \in Gifts : n \in Nat
    /\ \A borrow \in Loans : borrow \subseteq Assets
  BY BankAssumption DEF Assets

LEMMA OnRecordNat ==
    ASSUME NEW b \in BankType, NEW t \in Tokens
    PROVE  OnRecord(b, t) \in Nat
<1>1. b.units[t] \in Nat /\ Multiplier[t] \in Nat
  BY BankFields, ConstantFacts
<1> QED
  BY <1>1 DEF OnRecord

\* What a frame is pushed on, and what is left when the last one is taken off.
LEMMA FramesGrow ==
    ASSUME BankTypes, NEW f \in FrameType, frames' = Append(frames, f)
    PROVE  /\ frames' \in Seq(FrameType)
           /\ Len(frames') = Len(frames) + 1
           /\ frames'[Len(frames) + 1] = f
           /\ \A i \in 1 .. Len(frames) : frames'[i] = frames[i]
  BY AppendProperties DEF BankTypes

LEMMA FramesShrink ==
    ASSUME BankTypes, frames # <<>>, Pop
    PROVE  /\ frames' \in Seq(FrameType)
           /\ Len(frames) \in Nat /\ Len(frames) >= 1
           /\ Len(frames') = Len(frames) - 1
           /\ \A i \in 1 .. Len(frames) - 1 : frames'[i] = frames[i]
           /\ Len(frames) = 1 => frames' = <<>>
<1>1. frames \in Seq(FrameType) /\ Len(frames) \in Nat /\ Len(frames) >= 1
  BY DEF BankTypes
<1>2. frames' = SubSeq(frames, 1, Len(frames) - 1)
  BY DEF Pop
<1> DEFINE n == Len(frames) - 1
<1>3. n \in Int /\ n >= 0 /\ \A i \in 1 .. n : frames[i] \in FrameType
  BY <1>1
<1>4. /\ frames' \in Seq(FrameType)
      /\ Len(frames') = IF 1 <= n THEN n - 1 + 1 ELSE 0
      /\ \A i \in 1 .. n - 1 + 1 : frames'[i] = frames[1 + i - 1]
  BY <1>2, <1>3, SubSeqProperties, 1 \in Int
<1> HIDE DEF n
<1>5. Len(frames') = n /\ \A i \in 1 .. n : frames'[i] = frames[i]
  <2>1. CASE n = 0
    BY <1>4, <2>1
  <2>2. CASE n >= 1
    <3>1. n \in Int
      BY <1>3
    <3>2. n - 1 + 1 = n /\ \A i \in 1 .. n : 1 + i - 1 = i
      BY <3>1
    <3>3. Len(frames') = n
      BY <1>4, <2>2, <3>2
    <3>4. \A i \in 1 .. n : frames'[i] = frames[i]
      BY <1>4, <3>2
    <3> QED
      BY <3>3, <3>4
  <2> QED
    BY <1>3, <2>1, <2>2
<1>6. Len(frames) = 1 => frames' = <<>>
  BY <1>4, <1>5 DEF n
<1> QED
  BY <1>1, <1>4, <1>5, <1>6 DEF n

-----------------------------------------------------------------------------
\* An operation of one step: whoever is under way can only be reverted after it.
LEMMA WholeStep ==
    ASSUME BankTypes, BankInv, UNCHANGED frames, bank' \in BankType,
           bank'.calls = bank.calls + 1,
           Covered(bank) => Covered(bank)'
    PROVE  BankInv'
<1>1. CASE frames = <<>>
  BY <1>1 DEF BankInv, Visible
<1>2. CASE frames # <<>> /\ Len(frames) = 1
  <2>1. frames[1] \in FrameType /\ bank.calls >= frames[1].calls
    BY <1>2 DEF BankTypes, BankInv, Underway
  <2>2. frames[1].calls \in Nat
    BY <2>1, ConstantFacts DEF FrameType
  <2>3. bank.calls \in Nat
    BY BankFields, ConstantFacts DEF BankTypes
  <2>4. Underway(frames[1], bank)'
    BY <2>1, <2>2, <2>3 DEF Underway
  <2> QED
    BY <1>2, <2>4 DEF BankInv, Visible
<1>3. CASE frames # <<>> /\ Len(frames) # 1
  BY <1>3 DEF BankInv, Visible
<1> QED
  BY <1>1, <1>2, <1>3

\* An operation that calls others begins: the bank it has left must be as Underway
\* says of the outermost one.
LEMMA BeginStep ==
    ASSUME BankTypes, BankInv, NEW f \in FrameType, f.before = bank,
           frames' = Append(frames, f),
           Covered(bank) => Underway(f, bank')
    PROVE  BankInv'
<1>1. /\ Len(frames) \in Nat /\ Len(frames') = Len(frames) + 1
      /\ frames'[Len(frames) + 1] = f
      /\ \A i \in 1 .. Len(frames) : frames'[i] = frames[i]
  BY FramesGrow DEF BankTypes
<1>2. frames' # <<>>
  BY <1>1
<1>3. Visible' = frames'[1].before
  BY <1>2 DEF Visible
<1>4. CASE Len(frames) = 0
  <2>1. frames = <<>>
    BY <1>4 DEF BankTypes
  <2>2. Covered(bank)
    BY <2>1 DEF BankInv, Visible
  <2>3. frames'[1] = f /\ Len(frames') = 1
    BY <1>1, <1>4
  <2>4. Covered(Visible')
    BY <1>3, <2>2, <2>3
  <2>5. Underway(frames'[1], bank')
    BY <2>2, <2>3
  <2> QED
    BY <2>3, <2>4, <2>5 DEF BankInv
<1>5. CASE Len(frames) >= 1
  <2>1. frames # <<>> /\ frames'[1] = frames[1]
    BY <1>1, <1>5
  <2>2. Covered(Visible')
    BY <1>3, <2>1 DEF BankInv, Visible
  <2>3. CASE Len(frames) = 1
    <3>1. frames'[2] = f /\ Len(frames') = 2
      BY <1>1, <2>3
    <3>2. Underway(frames'[1], frames'[2].before)
      BY <2>1, <2>3, <3>1 DEF BankInv
    <3> QED
      BY <2>2, <3>1, <3>2 DEF BankInv
  <2>4. CASE Len(frames) >= 2
    <3>1. frames'[2] = frames[2] /\ Len(frames') # 1
      BY <1>1, <2>4
    <3>2. Underway(frames'[1], frames'[2].before)
      BY <2>1, <2>4, <3>1 DEF BankInv
    <3> QED
      BY <2>2, <3>1, <3>2 DEF BankInv
  <2>5. Len(frames) = 1 \/ Len(frames) >= 2
    <3>1. \A n \in Nat : n >= 1 => n = 1 \/ n >= 2
      OBVIOUS
    <3> QED
      BY <1>1, <1>5, <3>1, Zenon
  <2> QED
    BY <2>3, <2>4, <2>5
<1> QED
  BY <1>1, <1>4, <1>5

\* It ends: one that is within another keeps that one from ending.
LEMMA EndStep ==
    ASSUME BankTypes, BankInv, frames # <<>>, Pop, bank' \in BankType,
           bank'.calls = Top.calls + 1,
           Len(frames) = 1 => Covered(bank')
    PROVE  BankInv'
<1>1. /\ Len(frames) \in Nat /\ Len(frames) >= 1
      /\ Len(frames') = Len(frames) - 1
      /\ \A i \in 1 .. Len(frames) - 1 : frames'[i] = frames[i]
      /\ Len(frames) = 1 => frames' = <<>>
  BY FramesShrink
<1>2. CASE Len(frames) = 1
  BY <1>1, <1>2 DEF BankInv, Visible
<1>3. CASE Len(frames) # 1
  <2>1. frames' # <<>> /\ frames'[1] = frames[1] /\ Len(frames) >= 2
    BY <1>1, <1>3
  <2>2. Covered(Visible')
    BY <2>1 DEF BankInv, Visible
  <2>3. CASE Len(frames) = 2
    <3>1. Top = frames[2] /\ Underway(frames[1], frames[2].before)
      BY <2>3 DEF Top, BankInv
    <3>2. frames[2].calls = frames[2].before.calls
      BY <2>3 DEF BankTypes
    <3>3. frames[2].before.calls >= frames[1].calls
      BY <3>1 DEF Underway
    <3>4. frames[1] \in FrameType /\ frames[2] \in FrameType
      <4>1. frames \in Seq(FrameType) /\ 1 \in 1 .. Len(frames) /\ 2 \in 1 .. Len(frames)
        BY <2>3 DEF BankTypes
      <4> QED
        BY <4>1
    <3>5. frames[1].calls \in Nat /\ frames[2].calls \in Nat
      BY <3>4, ConstantFacts DEF FrameType
    <3>6. Underway(frames[1], bank')
      BY <3>1, <3>2, <3>3, <3>5 DEF Underway
    <3> QED
      BY <1>1, <2>1, <2>2, <2>3, <3>6 DEF BankInv
  <2>4. CASE Len(frames) >= 3
    <3>1. frames'[2] = frames[2] /\ Len(frames') # 1
      BY <1>1, <2>4
    <3> QED
      BY <2>1, <2>2, <2>4, <3>1 DEF BankInv
  <2> QED
    BY <1>1, <2>1, <2>3, <2>4
<1> QED
  BY <1>2, <1>3

\* It is reverted to the bank it began with.
LEMMA RevertStep ==
    ASSUME BankTypes, BankInv, Revert
    PROVE  BankInv'
<1>1. /\ Len(frames) \in Nat /\ Len(frames) >= 1
      /\ Len(frames') = Len(frames) - 1
      /\ \A i \in 1 .. Len(frames) - 1 : frames'[i] = frames[i]
      /\ Len(frames) = 1 => frames' = <<>>
  BY FramesShrink DEF Revert
<1>2. frames # <<>> /\ bank' = frames[Len(frames)].before
  BY DEF Revert, Top
<1>3. CASE Len(frames) = 1
  BY <1>1, <1>2, <1>3 DEF BankInv, Visible
<1>4. CASE Len(frames) # 1
  <2>1. frames' # <<>> /\ frames'[1] = frames[1] /\ Len(frames) >= 2
    BY <1>1, <1>4
  <2>2. Covered(Visible')
    BY <1>2, <2>1 DEF BankInv, Visible
  <2>3. CASE Len(frames) = 2
    BY <1>1, <1>2, <2>1, <2>2, <2>3 DEF BankInv
  <2>4. CASE Len(frames) >= 3
    <3>1. frames'[2] = frames[2] /\ Len(frames') # 1
      BY <1>1, <2>4
    <3> QED
      BY <2>1, <2>2, <2>4, <3>1 DEF BankInv
  <2> QED
    BY <1>1, <2>1, <2>3, <2>4
<1> QED
  BY <1>3, <1>4

LEMMA WholeTypes ==
    ASSUME BankTypes, UNCHANGED frames, bank' \in BankType
    PROVE  BankTypes'
  BY DEF BankTypes

LEMMA BeginTypes ==
    ASSUME BankTypes, NEW op \in {"send", "loan"},
           NEW rest \in [others : SUBSET Assets, combined : BOOLEAN, oldEth : Nat],
           MayStart, frames' = Append(frames, Frame(op, rest)), bank' \in BankType
    PROVE  BankTypes' /\ Frame(op, rest) \in FrameType
<1> DEFINE f == Frame(op, rest)
<1>1. /\ f.op = op /\ f.rest = rest /\ f.units = bank.units /\ f.calls = bank.calls /\ f.before = bank
      /\ f \in FrameType
  BY BankFields DEF Frame, BankTypes, FrameType
<1> HIDE DEF f
<1>2. /\ frames' \in Seq(FrameType)
      /\ Len(frames') = Len(frames) + 1
      /\ frames'[Len(frames) + 1] = f
      /\ \A i \in 1 .. Len(frames) : frames'[i] = frames[i]
  BY <1>1, FramesGrow DEF f
<1>3. Len(frames) \in Nat /\ bank.calls \in Nat
  BY BankFields, ConstantFacts DEF BankTypes
<1>4. bank.calls < MaxEnded /\ Len(frames) < MaxDepth
  BY <1>3, ConstantFacts DEF MayStart
<1>5. Len(frames') <= MaxDepth
  BY <1>2, <1>3, <1>4, ConstantFacts
<1>6. ASSUME NEW i \in 1 .. Len(frames')
      PROVE  /\ frames'[i].units = frames'[i].before.units
             /\ frames'[i].calls = frames'[i].before.calls
             /\ frames'[i].calls < MaxEnded
  <2>1. CASE i = Len(frames) + 1
    BY <1>1, <1>2, <1>4, <2>1
  <2>2. CASE i # Len(frames) + 1
    <3>1. i \in 1 .. Len(frames)
      BY <1>2, <1>3, <2>2
    <3> QED
      BY <1>2, <3>1 DEF BankTypes
  <2> QED
    BY <2>1, <2>2
<1>7. BankTypes'
  BY <1>2, <1>5, <1>6 DEF BankTypes
<1> QED
  BY <1>1, <1>7 DEF f

LEMMA EndTypes ==
    ASSUME BankTypes, frames # <<>>, Pop, bank' \in BankType
    PROVE  BankTypes'
<1>1. /\ frames' \in Seq(FrameType)
      /\ Len(frames) \in Nat /\ Len(frames) >= 1
      /\ Len(frames') = Len(frames) - 1
      /\ \A i \in 1 .. Len(frames) - 1 : frames'[i] = frames[i]
  BY FramesShrink
<1>2. Len(frames') <= MaxDepth
  BY <1>1, ConstantFacts DEF BankTypes
<1>3. ASSUME NEW i \in 1 .. Len(frames')
      PROVE  i \in 1 .. Len(frames) /\ frames'[i] = frames[i]
  BY <1>1
<1> QED
  BY <1>1, <1>2, <1>3 DEF BankTypes

\* The frame on top, and its bank.
LEMMA TopFacts ==
    ASSUME BankTypes, frames # <<>>
    PROVE  /\ Top \in FrameType /\ Top.before \in BankType
           /\ Top.units = Top.before.units /\ Top.calls = Top.before.calls
           /\ Top.calls \in Nat /\ Top.calls < MaxEnded
           /\ Len(frames) = 1 => Top = frames[1]
<1>1. Len(frames) \in 1 .. Len(frames) /\ frames[Len(frames)] \in FrameType
  BY DEF BankTypes
<1>2. Top = frames[Len(frames)]
  BY DEF Top
<1>3. Top \in FrameType /\ Top.before \in BankType /\ Top.calls \in Nat
  BY <1>1, <1>2, ConstantFacts DEF FrameType
<1> QED
  BY <1>1, <1>2, <1>3 DEF BankTypes

-----------------------------------------------------------------------------
LEMMA DepositEthStep ==
    ASSUME BankTypes, BankInv, NEW u \in Users, NEW n \in Amounts[Eth], DepositEth(u, n)
    PROVE  BankTypes' /\ BankInv'
<1>1. /\ bank \in BankType /\ n \in Nat /\ Eth \in Assets /\ Eth \notin Tokens
      /\ bank.calls \in Nat /\ bank.calls < MaxEnded
  BY BankFields, ConstantFacts DEF BankTypes, DepositEth, MayRun
<1>2. /\ bank'.holds = [bank.holds EXCEPT ![Eth] = @ + n]
      /\ bank'.total = [bank.total EXCEPT ![Eth] = @ + n]
      /\ bank'.shares = [bank.shares EXCEPT ![u][Eth] = @ + n]
      /\ bank'.units = bank.units /\ bank'.calls = bank.calls + 1
      /\ bank' = [holds |-> bank'.holds, units |-> bank'.units, calls |-> bank'.calls,
                  total |-> bank'.total, shares |-> bank'.shares]
  BY <1>1 DEF DepositEth, BankType
<1>4. bank'.holds \in [Assets -> Nat] /\ bank'.total \in [Assets -> Nat]
  BY <1>1, <1>2, BankFields
<1>5. bank'.shares \in [Users -> [Assets -> Nat]]
  BY <1>1, <1>2, BankFields
<1>6. bank'.calls \in 0 .. MaxEnded
  BY <1>1, <1>2, ConstantFacts
<1>7. bank' \in BankType
  BY <1>1, <1>2, <1>4, <1>5, <1>6, BankFields DEF BankType
<1>3. Covered(bank) => Covered(bank')
  BY <1>1, <1>2, BankFields, ConstantFacts DEF Covered, OnRecord
<1> QED
  BY <1>2, <1>3, <1>7, WholeTypes, WholeStep DEF DepositEth

\* What is left alone by an operation on one token stays covered.
LEMMA OtherAssets ==
    ASSUME Covered(bank), NEW t \in Tokens,
           \A a \in Assets \ {t} : bank'.holds[a] = bank.holds[a] /\ bank'.total[a] = bank.total[a],
           \A s \in Tokens \ {t} : bank'.units[s] = bank.units[s],
           bank'.total[t] % Multiplier[t] = 0,
           bank'.total[t] <= OnRecord(bank', t), OnRecord(bank', t) <= bank'.holds[t]
    PROVE  Covered(bank')
<1>1. bank'.total[Eth] <= bank'.holds[Eth]
  BY ConstantFacts DEF Covered
<1>2. ASSUME NEW s \in Tokens \ {t}
      PROVE  /\ bank'.total[s] % Multiplier[s] = 0
             /\ bank'.total[s] <= OnRecord(bank', s) /\ OnRecord(bank', s) <= bank'.holds[s]
  BY <1>2, ConstantFacts DEF Covered, OnRecord
<1> QED
  BY <1>1, <1>2 DEF Covered

LEMMA DepositTokenStep ==
    ASSUME BankTypes, BankInv, NEW u \in Users, NEW t \in Tokens, NEW n \in Amounts[t],
           DepositToken(u, t, n)
    PROVE  BankTypes' /\ BankInv'
<1> DEFINE delta == n \div Multiplier[t]
<1>1. /\ bank \in BankType /\ n \in Nat /\ t \in Assets /\ Multiplier[t] \in Nat \ {0}
      /\ bank.calls \in Nat /\ bank.calls < MaxEnded
  BY BankFields, ConstantFacts DEF BankTypes, DepositToken, MayRun
<1>2. /\ bank'.holds = [bank.holds EXCEPT ![t] = @ + n]
      /\ bank'.total = [bank.total EXCEPT ![t] = @ + n]
      /\ bank'.shares = [bank.shares EXCEPT ![u][t] = @ + n]
      /\ bank'.units = [bank.units EXCEPT ![t] = @ + delta]
      /\ bank'.calls = bank.calls + 1
      /\ bank' = [holds |-> bank'.holds, units |-> bank'.units, calls |-> bank'.calls,
                  total |-> bank'.total, shares |-> bank'.shares]
      /\ n % Multiplier[t] = 0 /\ bank.units[t] + delta < Capacity /\ frames' = frames
  BY <1>1 DEF DepositToken, BankType
<1>3. delta \in Nat
  BY <1>1, UnitFacts
<1> HIDE DEF delta
<1>4. bank'.holds \in [Assets -> Nat] /\ bank'.total \in [Assets -> Nat]
  BY <1>1, <1>2, BankFields
<1>5. bank'.shares \in [Users -> [Assets -> Nat]]
  BY <1>1, <1>2, BankFields
<1>6. bank'.calls \in 0 .. MaxEnded
  BY <1>1, <1>2, ConstantFacts
<1>7. bank.units[t] \in Nat /\ bank.units[t] + delta \in 0 .. (Capacity - 1)
  BY <1>1, <1>2, <1>3, BankFields, ConstantFacts
<1>8. bank'.units \in [Tokens -> 0 .. (Capacity - 1)]
  BY <1>1, <1>2, <1>7, BankFields
<1>9. bank' \in BankType
  BY <1>2, <1>4, <1>5, <1>6, <1>8 DEF BankType
<1>10. ASSUME Covered(bank) PROVE Covered(bank')
  <2>1. /\ bank'.holds[t] = bank.holds[t] + n /\ bank'.total[t] = bank.total[t] + n
        /\ bank'.units[t] = bank.units[t] + delta
        /\ bank.holds[t] \in Nat /\ bank.total[t] \in Nat
    BY <1>1, <1>2, BankFields
  <2>2. /\ \A a \in Assets \ {t} : bank'.holds[a] = bank.holds[a] /\ bank'.total[a] = bank.total[a]
        /\ \A s \in Tokens \ {t} : bank'.units[s] = bank.units[s]
    BY <1>1, <1>2, BankFields
  <2>3. OnRecord(bank', t) = OnRecord(bank, t) + n /\ OnRecord(bank, t) \in Nat
    BY <1>1, <1>2, <1>7, <2>1, UnitsAdd, UnitFacts, OnRecordNat DEF OnRecord, delta
  <2>4. (bank.total[t] + n) % Multiplier[t] = 0
    BY <1>1, <1>2, <1>7, <1>10, <2>1, UnitsAdd DEF Covered
  <2>5. /\ bank'.total[t] % Multiplier[t] = 0
        /\ bank'.total[t] <= OnRecord(bank', t) /\ OnRecord(bank', t) <= bank'.holds[t]
    BY <1>1, <1>10, <2>1, <2>3, <2>4 DEF Covered
  <2> QED
    BY <1>10, <2>2, <2>5, OtherAssets
<1> QED
  BY <1>2, <1>9, <1>10, WholeTypes, WholeStep

LEMMA WithdrawTokenStep ==
    ASSUME BankTypes, BankInv, NEW u \in Users, NEW t \in Tokens, NEW n \in Amounts[t],
           WithdrawToken(u, t, n)
    PROVE  BankTypes' /\ BankInv'
<1> DEFINE delta == n \div Multiplier[t]
<1>1. /\ bank \in BankType /\ n \in Nat /\ t \in Assets /\ Multiplier[t] \in Nat \ {0}
      /\ bank.calls \in Nat /\ bank.calls < MaxEnded
  BY BankFields, ConstantFacts DEF BankTypes, WithdrawToken, MayRun
<1>2. /\ bank'.holds = [bank.holds EXCEPT ![t] = @ - n]
      /\ bank'.total = [bank.total EXCEPT ![t] = @ - n]
      /\ bank'.shares = [bank.shares EXCEPT ![u][t] = @ - n]
      /\ bank'.units = [bank.units EXCEPT ![t] = @ - delta]
      /\ bank'.calls = bank.calls + 1
      /\ bank' = [holds |-> bank'.holds, units |-> bank'.units, calls |-> bank'.calls,
                  total |-> bank'.total, shares |-> bank'.shares]
      /\ n % Multiplier[t] = 0 /\ bank.units[t] >= delta /\ frames' = frames
      /\ bank.holds[t] >= n /\ bank.total[t] >= n /\ bank.shares[u][t] >= n
  <2>1. MayWithdraw(u, t, n) /\ t # Eth
    BY ConstantFacts DEF WithdrawToken
  <2>2. /\ n % Multiplier[t] = 0 /\ bank.units[t] >= delta
        /\ bank.holds[t] >= n /\ bank.total[t] >= n /\ bank.shares[u][t] >= n
    BY <2>1 DEF MayWithdraw
  <2> QED
    BY <1>1, <2>2 DEF WithdrawToken, BankType
<1>3. delta \in Nat
  BY <1>1, UnitFacts
<1> HIDE DEF delta
<1>4. bank'.holds \in [Assets -> Nat] /\ bank'.total \in [Assets -> Nat]
  BY <1>1, <1>2, BankFields
<1>5. bank'.shares \in [Users -> [Assets -> Nat]]
  BY <1>1, <1>2, BankFields
<1>6. bank'.calls \in 0 .. MaxEnded
  BY <1>1, <1>2, ConstantFacts
<1>7. bank.units[t] \in Nat /\ bank.units[t] - delta \in 0 .. (Capacity - 1)
  BY <1>1, <1>2, <1>3, BankFields, ConstantFacts
<1>8. bank'.units \in [Tokens -> 0 .. (Capacity - 1)]
  BY <1>1, <1>2, <1>7, BankFields
<1>9. bank' \in BankType
  BY <1>2, <1>4, <1>5, <1>6, <1>8 DEF BankType
<1>10. ASSUME Covered(bank) PROVE Covered(bank')
  <2>1. /\ bank'.holds[t] = bank.holds[t] - n /\ bank'.total[t] = bank.total[t] - n
        /\ bank'.units[t] = bank.units[t] - delta
        /\ bank.holds[t] \in Nat /\ bank.total[t] \in Nat
    BY <1>1, <1>2, BankFields
  <2>2. /\ \A a \in Assets \ {t} : bank'.holds[a] = bank.holds[a] /\ bank'.total[a] = bank.total[a]
        /\ \A s \in Tokens \ {t} : bank'.units[s] = bank.units[s]
    BY <1>1, <1>2, BankFields
  <2>3. OnRecord(bank', t) = OnRecord(bank, t) - n /\ OnRecord(bank, t) \in Nat
    BY <1>1, <1>2, <1>7, <2>1, UnitsAdd, UnitFacts, OnRecordNat DEF OnRecord, delta
  <2>4. (bank.total[t] - n) % Multiplier[t] = 0
    BY <1>1, <1>2, <1>7, <1>10, <2>1, UnitsAdd DEF Covered
  <2>5. /\ bank'.total[t] % Multiplier[t] = 0
        /\ bank'.total[t] <= OnRecord(bank', t) /\ OnRecord(bank', t) <= bank'.holds[t]
    BY <1>1, <1>10, <2>1, <2>3, <2>4 DEF Covered
  <2> QED
    BY <1>10, <2>2, <2>5, OtherAssets
<1> QED
  BY <1>2, <1>9, <1>10, WholeTypes, WholeStep

LEMMA SkimTokenStep ==
    ASSUME BankTypes, BankInv, NEW t \in Tokens, SkimToken(t)
    PROVE  BankTypes' /\ BankInv'
<1> DEFINE k == bank.total[t]
           q == (k + 1) \div Multiplier[t]
<1>1. /\ bank \in BankType /\ t \in Assets /\ Multiplier[t] \in Nat \ {0, 1} /\ k \in Nat
      /\ bank.calls \in Nat /\ bank.calls < MaxEnded
  BY BankFields, ConstantFacts DEF BankTypes, SkimToken, MayRun
<1>2. /\ bank'.holds = [bank.holds EXCEPT ![t] = k + 1]
      /\ bank'.total = bank.total /\ bank'.shares = bank.shares
      /\ bank'.units = [bank.units EXCEPT ![t] = q % Capacity]
      /\ bank'.calls = bank.calls + 1
      /\ bank' = [holds |-> bank'.holds, units |-> bank'.units, calls |-> bank'.calls,
                  total |-> bank'.total, shares |-> bank'.shares]
      /\ frames' = frames
  BY <1>1 DEF SkimToken, MinBalanceToKeep, BankType
<1>3. q \in Nat /\ q % Capacity \in 0 .. (Capacity - 1)
  <2>1. k + 1 \in Nat /\ q \in Nat
    BY <1>1, UnitFacts
  <2>2. \A x \in Nat, c \in Nat \ {0} : x % c \in 0 .. (c - 1)
    OBVIOUS
  <2> QED
    BY <2>1, <2>2, ConstantFacts
<1>4. k % Multiplier[t] = 0 => q * Multiplier[t] = k
  BY <1>1, OneMore
<1> HIDE DEF q
<1>5. bank'.holds \in [Assets -> Nat] /\ bank'.units \in [Tokens -> 0 .. (Capacity - 1)]
  BY <1>1, <1>2, <1>3, BankFields
<1>6. bank'.calls \in 0 .. MaxEnded
  BY <1>1, <1>2, ConstantFacts
<1>7. bank' \in BankType
  BY <1>1, <1>2, <1>5, <1>6, BankFields DEF BankType
<1>8. ASSUME Covered(bank) PROVE Covered(bank')
  <2>1. /\ \A a \in Assets \ {t} : bank'.holds[a] = bank.holds[a] /\ bank'.total[a] = bank.total[a]
        /\ \A s \in Tokens \ {t} : bank'.units[s] = bank.units[s]
        /\ bank'.holds[t] = k + 1 /\ bank'.total[t] = k /\ bank'.units[t] = q % Capacity
    BY <1>1, <1>2, BankFields
  <2>2. k % Multiplier[t] = 0 /\ k <= bank.units[t] * Multiplier[t]
    BY <1>8 DEF Covered, OnRecord
  <2>3. bank.units[t] \in Nat /\ bank.units[t] < Capacity
    BY <1>1, BankFields, ConstantFacts
  <2>4. q <= bank.units[t]
    BY <1>1, <1>3, <1>4, <2>2, <2>3
  <2>5. q % Capacity = q
    BY <1>3, <2>3, <2>4, ConstantFacts
  <2>6. OnRecord(bank', t) = k
    BY <1>4, <2>1, <2>2, <2>5 DEF OnRecord
  <2>7. k <= k + 1
    BY <1>1
  <2> HIDE DEF k
  <2> QED
    BY <1>8, <2>1, <2>2, <2>6, <2>7, <1>1, OtherAssets
<1> QED
  BY <1>2, <1>7, <1>8, WholeTypes, WholeStep

-----------------------------------------------------------------------------
\* Sending ETH, and what comes after it.
LEMMA BeginSendStep ==
    ASSUME BankTypes, BankInv, MayStart, NEW h \in Nat, NEW d \in Nat,
           frames' = Append(frames, Frame("send", NoRest)),
           bank'.holds = [bank.holds EXCEPT ![Eth] = h],
           bank'.total = [bank.total EXCEPT ![Eth] = d],
           bank'.units = bank.units, bank'.calls = bank.calls, bank' \in BankType,
           bank.total[Eth] <= bank.holds[Eth] => d <= h,
           SentFrom(bank, bank')
    PROVE  BankTypes' /\ BankInv'
<1> DEFINE f == Frame("send", NoRest)
<1>1. NoRest \in [others : SUBSET Assets, combined : BOOLEAN, oldEth : Nat]
  BY DEF NoRest
<1>2. BankTypes' /\ f \in FrameType
  BY <1>1, BeginTypes
<1>3. f.before = bank /\ f.op = "send" /\ f.units = bank.units /\ f.calls = bank.calls
  BY DEF Frame
<1>4. bank.holds \in [Assets -> Nat] /\ bank.total \in [Assets -> Nat] /\ bank \in BankType
  BY BankFields DEF BankTypes
<1>5. /\ bank'.holds[Eth] = h /\ bank'.total[Eth] = d
      /\ \A t \in Tokens : bank'.holds[t] = bank.holds[t] /\ bank'.total[t] = bank.total[t]
  BY <1>4, ConstantFacts
<1>6. Covered(bank) => Covered(bank')
  BY <1>5 DEF Covered, OnRecord
<1>7. bank.calls \in Nat
  BY <1>4, BankFields, ConstantFacts
<1> HIDE DEF f
<1>8. Covered(bank) => Underway(f, bank')
  BY <1>3, <1>6, <1>7 DEF Underway
<1> QED
  BY <1>2, <1>3, <1>8, BeginStep DEF f

LEMMA BeginWithdrawEthStep ==
    ASSUME BankTypes, BankInv, NEW u \in Users, NEW n \in Amounts[Eth], BeginWithdrawEth(u, n)
    PROVE  BankTypes' /\ BankInv'
<1>1. /\ bank \in BankType /\ n \in Nat /\ Eth \in Assets
      /\ bank.total[Eth] \in Nat /\ bank.holds[Eth] \in Nat /\ bank.shares[u][Eth] \in Nat
  BY BankFields, ConstantFacts DEF BankTypes
<1>2. /\ bank'.holds = [bank.holds EXCEPT ![Eth] = @ - n]
      /\ bank'.total = [bank.total EXCEPT ![Eth] = @ - n]
      /\ bank'.shares = [bank.shares EXCEPT ![u][Eth] = @ - n]
      /\ bank'.units = bank.units /\ bank'.calls = bank.calls
      /\ bank' = [holds |-> bank'.holds, units |-> bank'.units, calls |-> bank'.calls,
                  total |-> bank'.total, shares |-> bank'.shares]
      /\ MayStart /\ frames' = Append(frames, Frame("send", NoRest))
      /\ bank.holds[Eth] >= n /\ bank.total[Eth] >= n /\ bank.shares[u][Eth] >= n
  BY <1>1 DEF BeginWithdrawEth, MayWithdraw, BankType
<1>3. /\ bank.total[Eth] - n \in Nat /\ bank.holds[Eth] - n \in Nat
      /\ bank.shares[u][Eth] - n \in Nat
  BY <1>1, <1>2
<1>4. bank'.holds \in [Assets -> Nat] /\ bank'.total \in [Assets -> Nat]
  BY <1>1, <1>2, <1>3, BankFields
<1>5. bank'.shares \in [Users -> [Assets -> Nat]]
  BY <1>1, <1>2, <1>3, BankFields
<1>6. bank' \in BankType
  BY <1>1, <1>2, <1>4, <1>5, BankFields DEF BankType
<1>7. bank.total[Eth] <= bank.holds[Eth] => bank.total[Eth] - n <= bank.holds[Eth] - n
  BY <1>1
<1>8. SentFrom(bank, bank')
  <2>1. bank'.holds[Eth] = bank.holds[Eth] - n
    BY <1>1, <1>2, BankFields
  <2>2. bank'.holds[Eth] >= bank.holds[Eth] - n
    BY <1>3, <2>1
  <2> QED
    BY <1>2, <2>2 DEF SentFrom
<1> QED
  BY <1>2, <1>3, <1>6, <1>7, <1>8, BeginSendStep

LEMMA BeginSkimEthStep ==
    ASSUME BankTypes, BankInv, BeginSkimEth
    PROVE  BankTypes' /\ BankInv'
<1>1. /\ bank \in BankType /\ Eth \in Assets /\ bank.total[Eth] \in Nat
      /\ bank.total \in [Assets -> Nat]
  BY BankFields, ConstantFacts DEF BankTypes
<1>2. /\ bank'.holds = [bank.holds EXCEPT ![Eth] = bank.total[Eth] + 1]
      /\ bank'.total = bank.total /\ bank'.shares = bank.shares
      /\ bank'.units = bank.units /\ bank'.calls = bank.calls
      /\ bank' = [holds |-> bank'.holds, units |-> bank'.units, calls |-> bank'.calls,
                  total |-> bank'.total, shares |-> bank'.shares]
      /\ MayStart /\ frames' = Append(frames, Frame("send", NoRest))
  BY <1>1 DEF BeginSkimEth, MinBalanceToKeep, BankType
<1>3. bank'.holds \in [Assets -> Nat]
  BY <1>1, <1>2, BankFields
<1>4. bank' \in BankType
  BY <1>1, <1>2, <1>3, BankFields DEF BankType
<1>5. /\ bank'.total = [bank.total EXCEPT ![Eth] = bank.total[Eth]]
      /\ bank.total[Eth] + 1 \in Nat /\ bank.total[Eth] <= bank.total[Eth] + 1
  BY <1>1, <1>2
<1>6. SentFrom(bank, bank')
  <2>1. bank'.holds[Eth] = bank.total[Eth] + 1
    BY <1>1, <1>2, BankFields
  <2>2. bank'.holds[Eth] >= bank.total[Eth]
    BY <1>1, <2>1
  <2> QED
    BY <1>2, <2>2 DEF SentFrom
<1> QED
  BY <1>1, <1>2, <1>4, <1>5, <1>6, BeginSendStep

LEMMA EndSendStep ==
    ASSUME BankTypes, BankInv, EndSend
    PROVE  BankTypes' /\ BankInv'
<1>1. frames # <<>> /\ Top.op = "send" /\ Top.calls = bank.calls /\ Pop
  BY DEF EndSend, NoneSince
<1>2. /\ bank \in BankType
      /\ Top \in FrameType /\ Top.before \in BankType /\ Top.units = Top.before.units
      /\ Top.calls \in Nat /\ Top.calls < MaxEnded
      /\ Len(frames) = 1 => Top = frames[1]
  BY <1>1, TopFacts DEF BankTypes
<1>3. /\ bank'.holds = bank.holds /\ bank'.total = bank.total /\ bank'.shares = bank.shares
      /\ bank'.units = Top.units /\ bank'.calls = Top.calls + 1
      /\ bank' = [holds |-> bank'.holds, units |-> bank'.units, calls |-> bank'.calls,
                  total |-> bank'.total, shares |-> bank'.shares]
  BY <1>2 DEF EndSend, Ended, BankType
<1>4. Top.units \in [Tokens -> 0 .. (Capacity - 1)] /\ Top.calls + 1 \in 0 .. MaxEnded
  BY <1>2, BankFields, ConstantFacts
<1>5. bank' \in BankType
  BY <1>2, <1>3, <1>4, BankFields DEF BankType
<1>6. ASSUME Len(frames) = 1 PROVE Covered(bank')
  <2>1. Top = frames[1] /\ Underway(frames[1], bank)
    BY <1>2, <1>6 DEF BankInv
  <2>2. bank.units = Top.units /\ Covered(bank)
    BY <1>1, <2>1 DEF Underway
  <2> QED
    BY <1>3, <2>2 DEF Covered, OnRecord
<1> QED
  BY <1>1, <1>3, <1>5, <1>6, EndTypes, EndStep

-----------------------------------------------------------------------------
\* Something is sent to the bank.
LEMMA SendStep ==
    ASSUME BankTypes, BankInv, NEW a \in Assets, NEW n \in Gifts, Send(a, n)
    PROVE  BankTypes' /\ BankInv'
<1>1. bank \in BankType /\ n \in Nat
  BY ConstantFacts DEF BankTypes
<1>2. /\ bank'.holds = [bank.holds EXCEPT ![a] = @ + n]
      /\ bank'.total = bank.total /\ bank'.shares = bank.shares
      /\ bank'.units = bank.units /\ bank'.calls = bank.calls
      /\ bank' = [holds |-> bank'.holds, units |-> bank'.units, calls |-> bank'.calls,
                  total |-> bank'.total, shares |-> bank'.shares]
      /\ frames' = frames
  BY <1>1 DEF Send, BankType
<1>3. /\ bank'.holds \in [Assets -> Nat]
      /\ \A b \in Assets : bank.holds[b] \in Nat /\ bank'.holds[b] \in Nat
                           /\ bank'.holds[b] >= bank.holds[b]
  BY <1>1, <1>2, BankFields
<1>4. bank' \in BankType
  BY <1>1, <1>2, <1>3, BankFields DEF BankType
<1>5. ASSUME Covered(bank) PROVE Covered(bank')
  <2>1. bank.total[Eth] \in Nat /\ \A t \in Tokens : t \in Assets /\ OnRecord(bank, t) \in Nat
    BY <1>1, BankFields, ConstantFacts, OnRecordNat
  <2>2. \A t \in Tokens : OnRecord(bank', t) = OnRecord(bank, t)
    BY <1>2 DEF OnRecord
  <2> QED
    BY <1>2, <1>3, <1>5, <2>1, <2>2, ConstantFacts DEF Covered
<1>6. ASSUME Len(frames) = 1, Underway(frames[1], bank) PROVE Underway(frames[1], bank')
  <2> DEFINE f == frames[1]
  <2>1. f \in FrameType
    <3>1. frames \in Seq(FrameType) /\ 1 \in 1 .. Len(frames)
      BY <1>6 DEF BankTypes
    <3> QED
      BY <3>1
  <2>2. f.before \in BankType
    BY <2>1 DEF FrameType
  <2>3. \A t \in Tokens : t \in Assets /\ OnRecord(f.before, t) \in Nat
    BY <2>2, ConstantFacts, OnRecordNat
  <2>4. f.before.total[Eth] \in Nat /\ f.before.holds[Eth] \in Nat
    BY <2>2, BankFields, ConstantFacts
  <2> HIDE DEF f
  <2>5. ASSUME SentFrom(f.before, bank) PROVE SentFrom(f.before, bank')
    <3>1. /\ bank.holds[Eth] \in Nat /\ bank'.holds[Eth] \in Nat
          /\ bank'.holds[Eth] >= bank.holds[Eth]
      BY <1>3, ConstantFacts
    <3>2. ASSUME NEW k \in Int, bank.holds[Eth] >= k PROVE bank'.holds[Eth] >= k
      BY <3>1, <3>2
    <3>3. CASE bank.shares = f.before.shares /\ bank.holds[Eth] >= f.before.total[Eth]
      BY <1>2, <2>4, <3>2, <3>3 DEF SentFrom
    <3>4. ASSUME NEW u \in Users, NEW k \in Amounts[Eth], f.before.shares[u][Eth] >= k,
                 bank.shares = [f.before.shares EXCEPT ![u][Eth] = @ - k],
                 bank.holds[Eth] >= f.before.holds[Eth] - k
          PROVE  SentFrom(f.before, bank')
      <4>1. f.before.holds[Eth] - k \in Int
        BY <2>4, ConstantFacts
      <4>2. bank'.holds[Eth] >= f.before.holds[Eth] - k
        BY <3>2, <3>4, <4>1
      <4> QED
        BY <1>2, <3>4, <4>2 DEF SentFrom
    <3> QED
      BY <2>5, <3>3, <3>4 DEF SentFrom
  <2> QED
    BY <1>2, <1>3, <1>5, <1>6, <2>3, <2>5 DEF Underway, f
<1>7. Covered(Visible')
  BY <1>2, <1>5 DEF BankInv, Visible
<1>8. BankInv'
  BY <1>2, <1>6, <1>7 DEF BankInv
<1> QED
  BY <1>2, <1>4, <1>8, WholeTypes

-----------------------------------------------------------------------------
LEMMA BeginLoanStep ==
    ASSUME BankTypes, BankInv, NEW borrow \in Loans, NEW cover \in BOOLEAN,
           NEW value \in {0} \union Gifts, BeginLoan(borrow, cover, value)
    PROVE  BankTypes' /\ BankInv'
<1> DEFINE eth  == bank.holds[Eth] + value
           rest == [others |-> borrow \ {Eth, Weth}, combined |-> Weth \in borrow \/ cover,
                    oldEth |-> eth - value]
           h == [a \in Assets |-> IF a = Eth THEN IF Eth \in borrow THEN 1 ELSE eth
                                 ELSE IF a \in borrow THEN bank.holds[a] - OnRecord(bank, a)
                                 ELSE bank.holds[a]]
           f == Frame("loan", rest)
<1>1. /\ bank \in BankType /\ borrow \subseteq Assets /\ value \in Nat
      /\ bank.holds \in [Assets -> Nat] /\ bank.total \in [Assets -> Nat] /\ bank.calls \in Nat
  BY BankFields, ConstantFacts DEF BankTypes
<1>2. /\ bank'.holds = h
      /\ bank'.total = bank.total /\ bank'.shares = bank.shares
      /\ bank'.units = bank.units /\ bank'.calls = bank.calls
      /\ bank' = [holds |-> bank'.holds, units |-> bank'.units, calls |-> bank'.calls,
                  total |-> bank'.total, shares |-> bank'.shares]
      /\ MayStart /\ frames' = Append(frames, f)
      /\ \A t \in borrow \ {Eth} : bank.holds[t] >= OnRecord(bank, t)
  BY <1>1 DEF BeginLoan, BankType
<1>3. eth \in Nat /\ eth - value = bank.holds[Eth] /\ bank.holds[Eth] \in Nat
  BY <1>1, ConstantFacts
<1>4. rest \in [others : SUBSET Assets, combined : BOOLEAN, oldEth : Nat]
  BY <1>1, <1>3
<1>5. /\ rest.others = borrow \ {Eth, Weth} /\ rest.combined = (Weth \in borrow \/ cover)
      /\ rest.oldEth = bank.holds[Eth]
  BY <1>3
<1>6. h \in [Assets -> Nat]
  <2> SUFFICES ASSUME NEW a \in Assets PROVE h[a] \in Nat
    OBVIOUS
  <2>1. CASE a = Eth
    BY <1>3, <2>1
  <2>2. CASE a # Eth /\ a \in borrow
    <3>1. a \in Tokens /\ bank.holds[a] >= OnRecord(bank, a) /\ bank.holds[a] \in Nat
      BY <1>1, <1>2, <2>2, ConstantFacts
    <3>2. OnRecord(bank, a) \in Nat
      BY <1>1, <3>1, OnRecordNat
    <3>3. h[a] = bank.holds[a] - OnRecord(bank, a)
      BY <2>2
    <3> QED
      BY <3>1, <3>2, <3>3
  <2>3. CASE a # Eth /\ a \notin borrow
    BY <1>1, <2>3
  <2> QED
    BY <2>1, <2>2, <2>3
<1>7. \A t \in Tokens \ borrow : h[t] = bank.holds[t]
  BY ConstantFacts
<1>8. f.op = "loan" /\ f.rest = rest /\ f.units = bank.units /\ f.calls = bank.calls /\ f.before = bank
  BY DEF Frame
<1> HIDE DEF h, rest
<1>9. bank' \in BankType
  BY <1>1, <1>2, <1>6, BankFields DEF BankType
<1>10. BankTypes' /\ f \in FrameType
  BY <1>2, <1>4, <1>9, BeginTypes
<1> HIDE DEF f
<1>11. ASSUME Covered(bank) PROVE Underway(f, bank')
  <2>1. rest.others \subseteq Tokens \ {Weth}
    BY <1>1, <1>5, ConstantFacts
  <2>2. ASSUME NEW t \in Tokens \ rest.others
        PROVE  (t = Weth /\ rest.combined) \/ bank'.holds[t] >= OnRecord(bank, t)
    <3>1. CASE t \in borrow
      BY <1>5, <2>2, <3>1, ConstantFacts
    <3>2. CASE t \notin borrow
      <4>1. bank.holds[t] \in Nat /\ OnRecord(bank, t) \in Nat
        BY <1>1, OnRecordNat, ConstantFacts
      <4> QED
        BY <1>2, <1>7, <1>11, <3>2, <4>1 DEF Covered
    <3> QED
      BY <3>1, <3>2
  <2> QED
    BY <1>1, <1>2, <1>5, <1>8, <2>1, <2>2 DEF Underway
<1> QED
  BY <1>2, <1>8, <1>10, <1>11, BeginStep

\* The end of a loan that has left enough ETH, and WETH for its units.
LEMMA SettleStep ==
    ASSUME BankTypes, BankInv, frames # <<>>, Top.op = "loan",
           NEW eth \in Nat, NEW weth \in Nat, NEW wethUnits \in 0 .. (Capacity - 1),
           Settle(Top, eth, weth, wethUnits),
           eth >= Top.rest.oldEth,
           OnRecord(Top.before, Weth) <= wethUnits * Multiplier[Weth],
           Len(frames) = 1 => wethUnits * Multiplier[Weth] <= weth
    PROVE  BankTypes' /\ BankInv'
<1> DEFINE units == [t \in Tokens |-> IF t = Weth THEN wethUnits
                                     ELSE IF t \in Top.rest.others
                                          THEN (bank.holds[t] \div Multiplier[t]) % Capacity
                                     ELSE Top.units[t]]
<1>1. /\ bank \in BankType /\ bank.holds \in [Assets -> Nat]
      /\ Top \in FrameType /\ Top.before \in BankType /\ Top.units = Top.before.units
      /\ Top.calls \in Nat /\ Top.calls < MaxEnded
      /\ Len(frames) = 1 => Top = frames[1]
  BY TopFacts, BankFields DEF BankTypes
<1>2. /\ bank'.holds = [bank.holds EXCEPT ![Eth] = eth, ![Weth] = weth]
      /\ bank'.total = bank.total /\ bank'.shares = bank.shares
      /\ bank'.units = units /\ bank'.calls = Top.calls + 1
      /\ bank' = [holds |-> bank'.holds, units |-> bank'.units, calls |-> bank'.calls,
                  total |-> bank'.total, shares |-> bank'.shares]
  BY <1>1 DEF Settle, Ended, BankType
<1>3. /\ Pop /\ Top.calls = bank.calls
      /\ \A t \in Top.rest.others : /\ bank.holds[t] < Capacity * Multiplier[t]
                                   /\ bank.holds[t] > Top.units[t] * Multiplier[t]
  BY DEF Settle, NoneSince, Returned
<1>4. Top.units \in [Tokens -> 0 .. (Capacity - 1)]
  BY <1>1, BankFields
<1>5. ASSUME NEW t \in Tokens
      PROVE  units[t] \in 0 .. (Capacity - 1)
  <2>1. /\ bank.holds[t] \in Nat /\ Multiplier[t] \in Nat \ {0} /\ Capacity \in Nat \ {0}
    BY <1>1, ConstantFacts
  <2>2. \A x \in Nat, c \in Nat \ {0} : x % c \in 0 .. (c - 1)
    OBVIOUS
  <2>3. (bank.holds[t] \div Multiplier[t]) % Capacity \in 0 .. (Capacity - 1)
    BY <2>1, <2>2, UnitFacts
  <2> QED
    BY <1>4, <2>3
<1>6. bank' \in BankType
  <2>1. bank'.holds \in [Assets -> Nat]
    BY <1>1, <1>2
  <2>2. bank'.units \in [Tokens -> 0 .. (Capacity - 1)]
    BY <1>2, <1>5
  <2>3. bank'.calls \in 0 .. MaxEnded
    BY <1>1, <1>2, ConstantFacts
  <2> HIDE DEF units
  <2> QED
    BY <1>1, <1>2, <2>1, <2>2, <2>3, BankFields DEF BankType
<1>7. ASSUME Len(frames) = 1 PROVE Covered(bank')
  <2> DEFINE b == Top.before
  <2>1. Top = frames[1] /\ Underway(frames[1], bank) /\ Covered(b)
    BY <1>1, <1>7 DEF BankInv, Visible
  <2>2. /\ bank.total = b.total /\ Top.rest.oldEth = b.holds[Eth]
        /\ Top.rest.others \subseteq Tokens \ {Weth}
        /\ \A t \in Tokens \ Top.rest.others :
               (t = Weth /\ Top.rest.combined) \/ bank.holds[t] >= OnRecord(b, t)
    BY <1>3, <2>1 DEF Underway
  <2>3. b \in BankType /\ b.holds \in [Assets -> Nat] /\ b.total \in [Assets -> Nat]
    BY <1>1, BankFields
  <2>4. \A t \in Tokens : OnRecord(b, t) = Top.units[t] * Multiplier[t] /\ OnRecord(b, t) \in Nat
    BY <1>1, <2>3, OnRecordNat DEF OnRecord
  <2> HIDE DEF b
  <2>5. bank'.total[Eth] <= bank'.holds[Eth]
    <3>1. bank'.holds[Eth] = eth /\ bank'.total[Eth] = b.total[Eth]
      BY <1>1, <1>2, <2>2, ConstantFacts
    <3>2. b.total[Eth] \in Nat /\ b.holds[Eth] \in Nat
      BY <2>3, ConstantFacts
    <3> QED
      BY <2>1, <2>2, <3>1, <3>2 DEF Covered
  <2>6. ASSUME NEW t \in Tokens
        PROVE  /\ bank'.total[t] % Multiplier[t] = 0
               /\ bank'.total[t] <= OnRecord(bank', t) /\ OnRecord(bank', t) <= bank'.holds[t]
    <3>1. /\ b.total[t] \in Nat /\ b.total[t] % Multiplier[t] = 0 /\ b.total[t] <= OnRecord(b, t)
          /\ bank'.total[t] = b.total[t] /\ OnRecord(bank', t) = units[t] * Multiplier[t]
          /\ OnRecord(b, t) \in Nat /\ bank.holds[t] \in Nat
          /\ Multiplier[t] \in Nat \ {0} /\ Capacity \in Nat \ {0}
      BY <1>1, <1>2, <2>1, <2>2, <2>3, <2>4, ConstantFacts DEF Covered, OnRecord
    <3>2. CASE t = Weth
      <4>1. units[t] = wethUnits /\ bank'.holds[t] = weth
        BY <1>1, <1>2, <3>2, ConstantFacts
      <4>2. OnRecord(bank', t) = wethUnits * Multiplier[Weth]
        BY <3>1, <3>2, <4>1
      <4>3. OnRecord(b, t) <= wethUnits * Multiplier[Weth]
        BY <3>2 DEF b
      <4>4. wethUnits * Multiplier[Weth] \in Nat
        BY <3>1, <3>2, ConstantFacts
      <4> QED
        BY <1>7, <3>1, <4>1, <4>2, <4>3, <4>4
    <3>3. CASE t # Weth /\ t \in Top.rest.others
      <4> DEFINE q == bank.holds[t] \div Multiplier[t]
      <4>1. bank.holds[t] < Capacity * Multiplier[t] /\ bank.holds[t] > OnRecord(b, t)
        BY <1>3, <2>4, <3>3
      <4>2. units[t] = q /\ q * Multiplier[t] <= bank.holds[t]
        <5>1. units[t] = q % Capacity
          BY <3>3
        <5>2. q % Capacity = q
          BY <3>1, <4>1, UnitsFit
        <5>3. q * Multiplier[t] <= bank.holds[t]
          BY <3>1, UnitFacts
        <5> QED
          BY <5>1, <5>2, <5>3
      <4>3. b.total[t] <= q * Multiplier[t]
        <5>1. b.total[t] <= bank.holds[t]
          BY <3>1, <4>1
        <5> QED
          BY <3>1, <5>1, WholeUnitsFit
      <4>4. bank'.holds[t] = bank.holds[t]
        BY <1>1, <1>2, <3>3, ConstantFacts
      <4> HIDE DEF q, units
      <4> QED
        BY <3>1, <4>2, <4>3, <4>4
    <3>4. CASE t # Weth /\ t \notin Top.rest.others
      <4>1. units[t] = Top.units[t] /\ bank'.holds[t] = bank.holds[t]
        BY <1>1, <1>2, <3>4, ConstantFacts
      <4>2. bank.holds[t] >= OnRecord(b, t)
        BY <2>2, <3>4
      <4>3. OnRecord(bank', t) = OnRecord(b, t)
        BY <2>4, <3>1, <4>1
      <4> HIDE DEF units
      <4> QED
        BY <3>1, <4>1, <4>2, <4>3
    <3> QED
      BY <3>2, <3>3, <3>4
  <2> QED
    BY <2>5, <2>6 DEF Covered
<1> QED
  BY <1>2, <1>3, <1>6, <1>7, EndTypes, EndStep

\* A loan ends with enough ETH, and WETH for its units.
SettlesWell(eth, weth, wethUnits) ==
    /\ Settle(Top, eth, weth, wethUnits)
    /\ eth >= Top.rest.oldEth
    /\ OnRecord(Top.before, Weth) <= wethUnits * Multiplier[Weth]
    /\ Len(frames) = 1 => wethUnits * Multiplier[Weth] <= weth

LEMMA EndLoanSettles ==
    ASSUME BankTypes, BankInv, EndLoan
    PROVE  \E eth \in Nat, weth \in Nat, wethUnits \in 0 .. (Capacity - 1) :
               SettlesWell(eth, weth, wethUnits)
<1> DEFINE f == Top
           m == Multiplier[Weth]
           record == f.units[Weth] * m
           h == bank.holds[Weth]
           e == bank.holds[Eth]
           old == f.rest.oldEth
<1>1. /\ frames # <<>> /\ f.op = "loan"
      /\ f \in FrameType /\ f.before \in BankType /\ f.units = f.before.units
      /\ Len(frames) = 1 => f = frames[1]
  BY TopFacts DEF EndLoan
<1>2. /\ h \in Nat /\ e \in Nat /\ old \in Nat /\ m \in Nat \ {0} /\ Capacity \in Nat \ {0}
      /\ f.units[Weth] \in 0 .. (Capacity - 1) /\ record = OnRecord(f.before, Weth)
  BY <1>1, BankFields, ConstantFacts DEF BankTypes, FrameType, OnRecord
<1>3. record \in Nat
  BY <1>1, <1>2, OnRecordNat, ConstantFacts
<1>4. ASSUME NEW w \in Nat, w > record, h < Capacity * m, w <= h
      PROVE  /\ (w \div m) % Capacity \in 0 .. (Capacity - 1)
             /\ record <= ((w \div m) % Capacity) * m
             /\ ((w \div m) % Capacity) * m <= w
  <2>1. w < Capacity * m
    <3>1. Capacity * m \in Nat
      BY <1>2
    <3> HIDE DEF m, h
    <3> QED
      BY <1>2, <1>4, <3>1
  <2>2. (w \div m) % Capacity = w \div m /\ w \div m \in 0 .. (Capacity - 1)
    BY <1>2, <2>1, UnitsFit
  <2>3. (w \div m) * m <= w
    BY <1>2, UnitFacts
  <2>4. record % m = 0
    <3>1. f.units[Weth] \in Nat
      BY <1>2
    <3>2. \A x \in Nat, y \in Nat \ {0} : (x * y) % y = 0
      OBVIOUS
    <3> QED
      BY <1>2, <3>1, <3>2
  <2>5. record <= w
    BY <1>3, <1>4
  <2> HIDE DEF record, m, h
  <2>6. record <= (w \div m) * m
    BY <1>2, <1>3, <2>4, <2>5, WholeUnitsFit
  <2> QED
    BY <2>2, <2>3, <2>6
<1>5. CASE TogetherReturned(f) /\ CoverWithEth(f)
  <2> DEFINE toCover == record + 1 - h
  <2>1. h <= record /\ e >= old + toCover /\ Settle(f, e - toCover, record + 1, f.units[Weth])
    BY <1>5 DEF CoverWithEth
  <2> HIDE DEF f, m, record, h, e, old
  <2>2. e - toCover \in Nat /\ e - toCover >= old /\ record + 1 \in Nat
    BY <1>2, <1>3, <2>1
  <2>3. record <= record + 1 /\ record <= record
    BY <1>3
  <2> HIDE DEF toCover
  <2> QED
    BY <1>1, <1>2, <2>1, <2>2, <2>3, Zenon DEF SettlesWell, f, m, record, old
<1>6. CASE TogetherReturned(f) /\ CoverWithWeth(f)
  <2> DEFINE short == old - e
             weth  == h - short
  <2>1. /\ e < old /\ h > record + short /\ h < Capacity * m
        /\ Settle(f, old, weth, (weth \div m) % Capacity)
    BY <1>6 DEF CoverWithWeth, TogetherReturned
  <2> HIDE DEF f, m, record, h, e, old
  <2>2. weth \in Nat /\ weth > record /\ weth <= h /\ old >= old
    BY <1>2, <1>3, <2>1
  <2> HIDE DEF weth
  <2>3. /\ (weth \div m) % Capacity \in 0 .. (Capacity - 1)
        /\ record <= ((weth \div m) % Capacity) * m
        /\ ((weth \div m) % Capacity) * m <= weth
    BY <1>4, <2>1, <2>2
  <2> QED
    BY <1>1, <1>2, <2>1, <2>2, <2>3, Zenon DEF SettlesWell, f, m, old
<1>7. CASE TogetherReturned(f) /\ NothingToCover(f)
  <2>1. /\ h > record /\ e >= old /\ h < Capacity * m
        /\ Settle(f, e, h, (h \div m) % Capacity)
    BY <1>7 DEF NothingToCover, TogetherReturned
  <2> HIDE DEF f, m, record, h, e, old
  <2>2. h <= h
    BY <1>2
  <2>3. /\ (h \div m) % Capacity \in 0 .. (Capacity - 1)
        /\ record <= ((h \div m) % Capacity) * m
        /\ ((h \div m) % Capacity) * m <= h
    BY <1>2, <1>4, <2>1, <2>2
  <2> QED
    BY <1>1, <1>2, <2>1, <2>3, Zenon DEF SettlesWell, f, m, old
<1>8. CASE ~f.rest.combined /\ WithoutWeth(f)
  <2>1. e >= old /\ Settle(f, e, h, f.units[Weth])
    BY <1>8 DEF WithoutWeth
  <2>2. ASSUME Len(frames) = 1 PROVE record <= h
    <3>1. Underway(f, bank)
      BY <1>1, <2>2 DEF BankInv
    <3>2. bank.calls = f.calls
      BY <2>1 DEF Settle, NoneSince
    <3>3. f.rest.others \subseteq Tokens \ {Weth} /\ Weth \in Tokens
      BY <1>1, <3>1, <3>2, ConstantFacts DEF Underway
    <3>4. h >= OnRecord(f.before, Weth)
      BY <1>1, <1>8, <3>1, <3>2, <3>3 DEF Underway
    <3> HIDE DEF f, record, h
    <3> QED
      BY <1>2, <1>3, <3>4
  <2> HIDE DEF f, m, record, h, e, old
  <2>3. record <= record
    BY <1>3
  <2> QED
    BY <1>1, <1>2, <2>1, <2>2, <2>3, Zenon DEF SettlesWell, f, m, record, old
<1> QED
  BY <1>5, <1>6, <1>7, <1>8 DEF EndLoan

LEMMA EndLoanStep ==
    ASSUME BankTypes, BankInv, EndLoan
    PROVE  BankTypes' /\ BankInv'
<1>1. frames # <<>> /\ Top.op = "loan"
  BY DEF EndLoan
<1> QED
  BY <1>1, EndLoanSettles, SettleStep DEF SettlesWell

LEMMA RevertTypes ==
    ASSUME BankTypes, Revert
    PROVE  BankTypes'
<1>1. frames # <<>> /\ Pop /\ bank' = Top.before
  BY DEF Revert
<1> QED
  BY <1>1, TopFacts, EndTypes

-----------------------------------------------------------------------------
LEMMA BankStarts ==
    ASSUME BankInit
    PROVE  BankTypes /\ BankInv
<1>1. bank = NewBank /\ frames = <<>> /\ Len(frames) = 0
  BY DEF BankInit
<1>2. NewBank \in BankType
  BY ConstantFacts DEF NewBank, BankType
<1>3. BankTypes
  BY <1>1, <1>2, ConstantFacts DEF BankTypes
<1>4. /\ NewBank.total[Eth] = 0 /\ NewBank.holds[Eth] = 0
      /\ \A t \in Tokens : NewBank.total[t] = 0 /\ NewBank.holds[t] = 0 /\ NewBank.units[t] = 0
  BY ConstantFacts DEF NewBank
<1>5. \A m \in Nat \ {0} : 0 % m = 0 /\ 0 * m = 0
  OBVIOUS
<1>6. Covered(NewBank)
  BY <1>4, <1>5, ConstantFacts DEF Covered, OnRecord
<1> QED
  BY <1>1, <1>3, <1>6 DEF BankInv, Visible

LEMMA BankStep ==
    ASSUME BankTypes, BankInv, [BankNext]_bankVars
    PROVE  BankTypes' /\ BankInv'
<1>1. CASE \E u \in Users, n \in Amounts[Eth] : DepositEth(u, n) \/ BeginWithdrawEth(u, n)
  BY <1>1, DepositEthStep, BeginWithdrawEthStep
<1>2. CASE \E u \in Users, t \in Tokens : \E n \in Amounts[t] : DepositToken(u, t, n) \/ WithdrawToken(u, t, n)
  BY <1>2, DepositTokenStep, WithdrawTokenStep
<1>3. CASE \E t \in Tokens : SkimToken(t)
  BY <1>3, SkimTokenStep
<1>4. CASE BeginSkimEth
  BY <1>4, BeginSkimEthStep
<1>5. CASE EndSend
  BY <1>5, EndSendStep
<1>6. CASE \E borrow \in Loans, cover \in BOOLEAN, value \in {0} \union Gifts :
               BeginLoan(borrow, cover, value)
  BY <1>6, BeginLoanStep
<1>7. CASE EndLoan
  BY <1>7, EndLoanStep
<1>8. CASE \E a \in Assets, n \in Gifts : Send(a, n)
  BY <1>8, SendStep
<1>9. CASE Revert
  BY <1>9, RevertTypes, RevertStep
<1>10. CASE UNCHANGED bankVars
  BY <1>10 DEF bankVars, BankTypes, BankInv, Visible
<1> QED
  BY <1>1, <1>2, <1>3, <1>4, <1>5, <1>6, <1>7, <1>8, <1>9, <1>10 DEF BankNext

LEMMA BankInvariant == BankSpec => [](BankTypes /\ BankInv)
<1>1. BankInit => BankTypes /\ BankInv
  BY BankStarts
<1>2. BankTypes /\ BankInv /\ [BankNext]_bankVars => BankTypes' /\ BankInv'
  BY BankStep
<1> QED
  BY <1>1, <1>2, PTL DEF BankSpec

\* The bank and the copies of it that operations hold are what the code stores: counts
\* of units that fit into 32 bits, balances that are never negative (ApeBankV3.sol).
THEOREM BankTypeCorrect == BankSpec => []BankTypeOK
<1>1. ASSUME BankTypes PROVE BankTypeOK
  <2>1. ASSUME NEW i \in DOMAIN frames
        PROVE  /\ frames[i].op \in {"send", "loan"}
               /\ frames[i].before \in BankType
               /\ frames[i].units = frames[i].before.units
               /\ frames[i].calls = frames[i].before.calls
    <3>1. i \in 1 .. Len(frames) /\ frames[i] \in FrameType
      BY <1>1, <2>1 DEF BankTypes
    <3> QED
      BY <1>1, <3>1 DEF BankTypes, FrameType
  <2> QED
    BY <1>1, <2>1 DEF BankTypes, BankTypeOK
<1> QED
  BY <1>1, BankInvariant, PTL

\* After any sequence of operations, one within another, all that is deposited is on
\* record and in the bank (ApeBankV3.sol).
THEOREM DepositsStay == BankSpec => []DepositsAreThere
<1>1. BankInv => DepositsAreThere
  BY DEF BankInv, DepositsAreThere
<1> QED
  BY <1>1, BankInvariant, PTL

-----------------------------------------------------------------------------
\* The user of a set whose share is added last.
LastOf(s) == CHOOSE x \in s : TRUE

\* g has, for every set of users, the sum of their shares of an asset.
IsSum(g, of, a) ==
    g = [s \in SUBSET Users |->
            IF s = {} THEN 0
            ELSE LET u == CHOOSE x \in s : TRUE IN of[u][a] + g[s \ {u}]]

LEMMA DepositedIs ==
    ASSUME NEW a
    PROVE Atomic!Deposited(a) = (CHOOSE g : IsSum(g, Visible.shares, a))[Users]
  BY DEF Atomic!Deposited, Atomic!MapThenSumSet, Atomic!MapThenFoldSet, IsSum

LEMMA SumOf ==
    ASSUME NEW of, NEW a, NEW g, IsSum(g, of, a)
    PROVE  g = [s \in SUBSET Users |-> g[s]] /\ g[{}] = 0
  BY DEF IsSum

LEMMA SumOfSome ==
    ASSUME NEW of, NEW a, NEW g, IsSum(g, of, a), NEW s \in SUBSET Users, s # {}
    PROVE  g[s] = of[LastOf(s)][a] + g[s \ {LastOf(s)}]
  BY DEF IsSum, LastOf

\* It is the only one: a smallest set on which another differs would be one user larger
\* than a set on which it does not.
LEMMA OneSum ==
    ASSUME NEW of, NEW a, NEW g, NEW h, IsSum(g, of, a), IsSum(h, of, a)
    PROVE  g = h
<1> DEFINE Bad == {s \in SUBSET Users : g[s] # h[s]}
           R == StrictSubsetOrdering(Users)
<1>1. \A s \in SUBSET Users : IsFiniteSet(s)
  BY BankAssumption, FS_Subset
<1>2. FiniteSubsetsOf(Users) = SUBSET Users
  BY <1>1 DEF FiniteSubsetsOf
<1>3. IsWellFoundedOn(R, SUBSET Users)
  BY <1>2, FS_StrictSubsetOrderingWellFounded
<1>4. ASSUME Bad # {} PROVE FALSE
  <2> HIDE DEF R
  <2>1. Bad \subseteq SUBSET Users
    OBVIOUS
  <2> HIDE DEF Bad
  <2>2. PICK s \in Bad : \A r \in Bad : ~(<<r, s>> \in R)
    BY <1>3, <1>4, <2>1, WFMin
  <2> DEFINE u == LastOf(s)
  <2> USE DEF Bad
  <2>3. s \in SUBSET Users /\ s # {} /\ g[s] # h[s]
    BY SumOf
  <2> HIDE DEF Bad
  <2>4. g[s] = of[u][a] + g[s \ {u}] /\ h[s] = of[u][a] + h[s \ {u}]
    BY <2>3, SumOfSome
  <2>5. u \in s
    BY <2>3 DEF LastOf
  <2> HIDE DEF u
  <2>6. <<s \ {u}, s>> \in R
    BY <2>3, <2>5 DEF R, StrictSubsetOrdering
  <2>7. s \ {u} \notin Bad
    BY <2>2, <2>6
  <2>8. g[s \ {u}] = h[s \ {u}]
    BY <2>3, <2>7 DEF Bad
  <2> QED
    BY <2>3, <2>4, <2>8
<1>5. \A s \in SUBSET Users : g[s] = h[s]
  BY <1>4
<1>6. g = [s \in SUBSET Users |-> g[s]] /\ h = [s \in SUBSET Users |-> h[s]]
  BY SumOf
<1> QED
  BY <1>5, <1>6

-----------------------------------------------------------------------------
\* The totals of a bank are sums of its shares.
Sums(b) == \A a \in Assets : \E g \in [SUBSET Users -> Int] : IsSum(g, b.shares, a) /\ g[Users] = b.total[a]

LEMMA NewSums == Sums(NewBank)
<1> SUFFICES ASSUME NEW a \in Assets
             PROVE  \E g \in [SUBSET Users -> Int] : IsSum(g, NewBank.shares, a) /\ g[Users] = NewBank.total[a]
  BY DEF Sums
<1> DEFINE g == [s \in SUBSET Users |-> 0]
<1>1. NewBank.total[a] = 0 /\ \A u \in Users : NewBank.shares[u][a] = 0
  BY DEF NewBank
<1>2. ASSUME NEW s \in SUBSET Users, s # {}
      PROVE  LET u == CHOOSE x \in s : TRUE IN NewBank.shares[u][a] + g[s \ {u}] = 0
  <2> DEFINE u == CHOOSE x \in s : TRUE
  <2>1. u \in s
    BY <1>2
  <2> HIDE DEF u
  <2>2. NewBank.shares[u][a] + g[s \ {u}] = 0
    BY <1>1, <2>1
  <2> QED
    BY <2>2 DEF u
<1>3. g = [s \in SUBSET Users |->
            IF s = {} THEN 0
            ELSE LET u == CHOOSE x \in s : TRUE IN NewBank.shares[u][a] + g[s \ {u}]]
  BY <1>2
<1>4. g \in [SUBSET Users -> Int] /\ g[Users] = 0
  OBVIOUS
<1> HIDE DEF g
<1>5. IsSum(g, NewBank.shares, a)
  BY <1>3 DEF IsSum
<1> QED
  BY <1>1, <1>4, <1>5

\* A user's share and the total of an asset change by the same amount.
Moves(u, a, d) ==
    /\ bank'.shares = [bank.shares EXCEPT ![u][a] = @ + d]
    /\ bank'.total = [bank.total EXCEPT ![a] = @ + d]

LEMMA SumsMove ==
    ASSUME bank \in BankType, Sums(bank), NEW u \in Users, NEW a \in Assets, NEW d \in Int,
           Moves(u, a, d)
    PROVE  Sums(bank')
<1> SUFFICES ASSUME NEW x \in Assets
             PROVE  \E g \in [SUBSET Users -> Int] : IsSum(g, bank'.shares, x) /\ g[Users] = bank'.total[x]
  BY DEF Sums
<1>1. PICK g \in [SUBSET Users -> Int] : IsSum(g, bank.shares, x) /\ g[Users] = bank.total[x]
  BY DEF Sums
<1>0. /\ bank.shares \in [Users -> [Assets -> Nat]] /\ bank.total \in [Assets -> Nat]
      /\ bank'.shares = [bank.shares EXCEPT ![u][a] = @ + d]
      /\ bank'.total = [bank.total EXCEPT ![a] = @ + d]
  BY BankFields DEF Moves
<1> DEFINE e == IF x = a THEN d ELSE 0
<1>2. e \in Int /\ bank'.total[x] = bank.total[x] + e /\ bank.total[x] \in Nat
  BY <1>0
<1>3. \A w \in Users : /\ bank'.shares[w][x] = IF w = u THEN bank.shares[w][x] + e ELSE bank.shares[w][x]
                       /\ bank.shares[w][x] \in Nat
  BY <1>0
<1> HIDE DEF e
<1> DEFINE h == [s \in SUBSET Users |-> IF u \in s THEN g[s] + e ELSE g[s]]
<1>4. h \in [SUBSET Users -> Int] /\ h[Users] = bank'.total[x]
  BY <1>1, <1>2
<1>5. h[{}] = 0
  BY <1>1, SumOf
<1>6. ASSUME NEW s \in SUBSET Users, s # {}
      PROVE  LET w == CHOOSE y \in s : TRUE IN h[s] = bank'.shares[w][x] + h[s \ {w}]
  <2> DEFINE w == CHOOSE y \in s : TRUE
  <2>1. w \in s
    BY <1>6
  <2>2. g[s] = bank.shares[w][x] + g[s \ {w}]
    BY <1>1, <1>6, SumOfSome DEF LastOf
  <2> HIDE DEF w
  <2>3. h[s] = bank'.shares[w][x] + h[s \ {w}]
    <3>1. g[s] \in Int /\ g[s \ {w}] \in Int /\ s \ {w} \in SUBSET Users
      BY <1>1
    <3>2. CASE w = u
      BY <1>2, <1>3, <2>1, <2>2, <3>1, <3>2
    <3>3. CASE w # u
      BY <1>2, <1>3, <2>1, <2>2, <3>1, <3>3
    <3> QED
      BY <3>2, <3>3
  <2> QED
    BY <2>3 DEF w
<1>7. h = [s \in SUBSET Users |-> h[s]]
  OBVIOUS
<1> HIDE DEF h
<1>8. IsSum(h, bank'.shares, x)
  BY <1>5, <1>6, <1>7 DEF IsSum
<1> QED
  BY <1>4, <1>8

\* What is left when neither changes.
LEMMA SumsStay ==
    ASSUME Sums(bank), bank'.shares = bank.shares, bank'.total = bank.total
    PROVE  Sums(bank')
  BY DEF Sums
LEMMA DepositedIsTotal ==
    ASSUME NEW a \in Assets, Sums(Visible)
    PROVE  Atomic!Deposited(a) = Visible.total[a]
<1>1. PICK g : IsSum(g, Visible.shares, a) /\ g[Users] = Visible.total[a]
  BY DEF Sums
<1> DEFINE h == CHOOSE x : IsSum(x, Visible.shares, a)
<1>2. IsSum(h, Visible.shares, a)
  BY <1>1
<1>3. Atomic!Deposited(a) = h[Users]
  BY DepositedIs
<1> HIDE DEF h
<1>4. g = h
  BY <1>1, <1>2, OneSum
<1> QED
  BY <1>1, <1>3, <1>4

-----------------------------------------------------------------------------
\* What each user has of a token is whole units of it.
WholeShares(b) == \A u \in Users, t \in Tokens : b.shares[u][t] % Multiplier[t] = 0

\* An amount that is whole units, if it is of a token.
Whole(a, n) == a # Eth => n % Multiplier[a] = 0

\* Whole units are paid in and paid out.
LEMMA WholeAmounts ==
    ASSUME NEW m \in Nat \ {0}, NEW n \in Nat, NEW k \in Nat, n % m = 0, k % m = 0
    PROVE  (k + n) % m = 0 /\ (k >= n => (k - n) % m = 0)
<1>1. 0 \in Nat
  OBVIOUS
<1> QED
  BY <1>1, UnitsAdd

LEMMA PaidInWhole ==
    ASSUME bank \in BankType, WholeShares(bank), NEW u \in Users, NEW a \in Assets, NEW n \in Nat,
           Whole(a, n), bank'.shares = [bank.shares EXCEPT ![u][a] = @ + n]
    PROVE  WholeShares(bank')
<1> SUFFICES ASSUME NEW w \in Users, NEW t \in Tokens
             PROVE  bank'.shares[w][t] % Multiplier[t] = 0
  BY DEF WholeShares
<1>1. /\ bank.shares \in [Users -> [Assets -> Nat]] /\ t \in Assets /\ t # Eth
      /\ Multiplier[t] \in Nat \ {0}
  BY BankFields, ConstantFacts
<1>2. bank.shares[w][t] \in Nat /\ bank.shares[w][t] % Multiplier[t] = 0
  BY <1>1 DEF WholeShares
<1>3. CASE w = u /\ t = a
  <2>1. bank'.shares[w][t] = bank.shares[w][t] + n /\ n % Multiplier[t] = 0
    BY <1>1, <1>3 DEF Whole
  <2> DEFINE k == bank.shares[w][t]
             m == Multiplier[t]
  <2>2. m \in Nat \ {0} /\ k \in Nat /\ k % m = 0 /\ n % m = 0
    BY <1>1, <1>2, <2>1
  <2> HIDE DEF k, m
  <2>3. (k + n) % m = 0
    BY <2>2, WholeAmounts
  <2> QED
    BY <2>1, <2>3 DEF k, m
<1>4. CASE ~(w = u /\ t = a)
  <2>1. bank'.shares[w][t] = bank.shares[w][t]
    <3>1. CASE w # u
      BY <1>1, <3>1
    <3>2. CASE w = u /\ t # a
      BY <1>1, <3>2
    <3> QED
      BY <1>4, <3>1, <3>2
  <2> QED
    BY <1>2, <2>1
<1> QED
  BY <1>3, <1>4

LEMMA PaidOutWhole ==
    ASSUME bank \in BankType, WholeShares(bank), NEW u \in Users, NEW a \in Assets, NEW n \in Nat,
           Whole(a, n), bank.shares[u][a] >= n,
           bank'.shares = [bank.shares EXCEPT ![u][a] = @ - n]
    PROVE  WholeShares(bank')
<1> SUFFICES ASSUME NEW w \in Users, NEW t \in Tokens
             PROVE  bank'.shares[w][t] % Multiplier[t] = 0
  BY DEF WholeShares
<1>1. /\ bank.shares \in [Users -> [Assets -> Nat]] /\ t \in Assets /\ t # Eth
      /\ Multiplier[t] \in Nat \ {0}
  BY BankFields, ConstantFacts
<1>2. bank.shares[w][t] \in Nat /\ bank.shares[w][t] % Multiplier[t] = 0
  BY <1>1 DEF WholeShares
<1>3. CASE w = u /\ t = a
  <2>1. /\ bank'.shares[w][t] = bank.shares[w][t] - n /\ n % Multiplier[t] = 0
        /\ bank.shares[w][t] >= n
    BY <1>1, <1>3 DEF Whole
  <2> DEFINE k == bank.shares[w][t]
             m == Multiplier[t]
  <2>2. m \in Nat \ {0} /\ k \in Nat /\ k % m = 0 /\ n % m = 0
    BY <1>1, <1>2, <2>1
  <2> HIDE DEF k, m
  <2>3. (k - n) % m = 0
    BY <2>1, <2>2, WholeAmounts DEF k
  <2> QED
    BY <2>1, <2>3 DEF k, m
<1>4. CASE ~(w = u /\ t = a)
  <2>1. bank'.shares[w][t] = bank.shares[w][t]
    <3>1. CASE w # u
      BY <1>1, <3>1
    <3>2. CASE w = u /\ t # a
      BY <1>1, <3>2
    <3> QED
      BY <1>4, <3>1, <3>2
  <2> QED
    BY <1>2, <2>1
<1> QED
  BY <1>3, <1>4

\* The books of the bank are in order, and of those that operations under way may be
\* reverted to.
Books(b) == Sums(b) /\ WholeShares(b)

SumsInv == Books(bank) /\ \A i \in 1 .. Len(frames) : Books(frames[i].before)

LEMMA SumsOfFrames ==
    ASSUME BankTypes, SumsInv, Books(bank'),
           \/ UNCHANGED frames
           \/ \E f \in FrameType : f.before = bank /\ frames' = Append(frames, f)
           \/ frames # <<>> /\ Pop
    PROVE  SumsInv'
<1>1. ASSUME UNCHANGED frames PROVE SumsInv'
  BY <1>1 DEF SumsInv
<1>2. ASSUME NEW f \in FrameType, f.before = bank, frames' = Append(frames, f) PROVE SumsInv'
  <2>1. /\ Len(frames') = Len(frames) + 1 /\ frames'[Len(frames) + 1] = f
        /\ \A i \in 1 .. Len(frames) : frames'[i] = frames[i]
    BY <1>2, FramesGrow
  <2>2. ASSUME NEW i \in 1 .. Len(frames') PROVE Books(frames'[i].before)
    <3>1. i \in 1 .. Len(frames) \/ i = Len(frames) + 1
      BY <2>1 DEF BankTypes
    <3> QED
      BY <1>2, <2>1, <3>1 DEF SumsInv
  <2> QED
    BY <2>2 DEF SumsInv
<1>3. ASSUME frames # <<>>, Pop PROVE SumsInv'
  <2>1. /\ Len(frames) \in Nat /\ Len(frames') = Len(frames) - 1
        /\ \A i \in 1 .. Len(frames) - 1 : frames'[i] = frames[i]
    BY <1>3, FramesShrink
  <2>2. ASSUME NEW i \in 1 .. Len(frames') PROVE Books(frames'[i].before)
    <3>1. i \in 1 .. Len(frames) /\ i \in 1 .. Len(frames) - 1
      BY <2>1
    <3> QED
      BY <2>1, <3>1 DEF SumsInv
  <2> QED
    BY <2>2 DEF SumsInv
<1> QED
  BY <1>1, <1>2, <1>3

\* The frame of an operation that starts.
LEMMA StartsOne ==
    ASSUME BankTypes, NEW op \in {"send", "loan"},
           NEW rest \in [others : SUBSET Assets, combined : BOOLEAN, oldEth : Nat],
           frames' = Append(frames, Frame(op, rest))
    PROVE  \E f \in FrameType : f.before = bank /\ frames' = Append(frames, f)
<1>1. Frame(op, rest) \in FrameType /\ Frame(op, rest).before = bank
  BY BankFields DEF Frame, BankTypes, FrameType
<1> QED
  BY <1>1

LEMMA LoanStarts ==
    ASSUME BankTypes, NEW borrow \in Loans, NEW cover \in BOOLEAN, NEW value \in {0} \union Gifts,
           BeginLoan(borrow, cover, value)
    PROVE  \E f \in FrameType : f.before = bank /\ frames' = Append(frames, f)
<1> DEFINE eth  == bank.holds[Eth] + value
           rest == [others |-> borrow \ {Eth, Weth}, combined |-> Weth \in borrow \/ cover,
                    oldEth |-> eth - value]
<1>1. frames' = Append(frames, Frame("loan", rest))
  BY DEF BeginLoan
<1>2. eth - value \in Nat
  BY BankFields, ConstantFacts DEF BankTypes
<1>3. borrow \ {Eth, Weth} \in SUBSET Assets
  BY ConstantFacts
<1> HIDE DEF eth
<1>4. rest \in [others : SUBSET Assets, combined : BOOLEAN, oldEth : Nat]
  BY <1>2, <1>3
<1> HIDE DEF rest
<1> QED
  BY <1>1, <1>4, StartsOne

LEMMA SumsStep ==
    ASSUME BankTypes, SumsInv, [BankNext]_bankVars
    PROVE  SumsInv'
<1>1. /\ bank \in BankType /\ Books(bank) /\ Sums(bank) /\ WholeShares(bank)
      /\ bank.shares \in [Users -> [Assets -> Nat]] /\ bank.total \in [Assets -> Nat]
      /\ Eth \in Assets /\ Tokens \subseteq Assets
      /\ NoRest \in [others : SUBSET Assets, combined : BOOLEAN, oldEth : Nat]
  BY BankFields, ConstantFacts DEF BankTypes, SumsInv, Books, NoRest
<1>2. ASSUME NEW u \in Users, NEW n \in Amounts[Eth], DepositEth(u, n) PROVE SumsInv'
  <2>1. /\ bank'.total = [bank.total EXCEPT ![Eth] = @ + n]
        /\ bank'.shares = [bank.shares EXCEPT ![u][Eth] = @ + n]
        /\ UNCHANGED frames /\ n \in Nat /\ n \in Int /\ Whole(Eth, n)
    BY <1>1, <1>2, ConstantFacts DEF DepositEth, BankType, Whole
  <2>2. Moves(u, Eth, n)
    BY <2>1 DEF Moves
  <2>3. Sums(bank')
    BY <1>1, <2>1, <2>2, SumsMove
  <2>4. WholeShares(bank')
    BY <1>1, <2>1, PaidInWhole
  <2>5. Books(bank')
    BY <2>3, <2>4 DEF Books
  <2> QED
    BY <2>1, <2>5, SumsOfFrames
<1>3. ASSUME NEW u \in Users, NEW t \in Tokens, NEW n \in Amounts[t], DepositToken(u, t, n)
      PROVE  SumsInv'
  <2>1. /\ bank'.total = [bank.total EXCEPT ![t] = @ + n]
        /\ bank'.shares = [bank.shares EXCEPT ![u][t] = @ + n]
        /\ UNCHANGED frames /\ n \in Nat /\ n \in Int /\ t \in Assets /\ Whole(t, n)
    BY <1>1, <1>3, ConstantFacts DEF DepositToken, BankType, Whole
  <2>2. Moves(u, t, n)
    BY <2>1 DEF Moves
  <2>3. Sums(bank')
    BY <1>1, <2>1, <2>2, SumsMove
  <2>4. WholeShares(bank')
    BY <1>1, <2>1, PaidInWhole
  <2>5. Books(bank')
    BY <2>3, <2>4 DEF Books
  <2> QED
    BY <2>1, <2>5, SumsOfFrames
<1>4. ASSUME NEW u \in Users, NEW a \in Assets, NEW n \in Amounts[a],
             bank.shares[u][a] >= n, Whole(a, n),
             bank'.total = [bank.total EXCEPT ![a] = @ - n],
             bank'.shares = [bank.shares EXCEPT ![u][a] = @ - n]
      PROVE  Books(bank')
  <2>1. n \in Nat /\ -n \in Int
    BY ConstantFacts
  <2>2. Moves(u, a, -n)
    BY <1>1, <1>4, <2>1 DEF Moves
  <2>3. Sums(bank')
    BY <1>1, <2>1, <2>2, SumsMove
  <2>4. WholeShares(bank')
    BY <1>1, <1>4, <2>1, PaidOutWhole
  <2> QED
    BY <2>3, <2>4 DEF Books
<1>5. ASSUME NEW u \in Users, NEW n \in Amounts[Eth], BeginWithdrawEth(u, n) PROVE SumsInv'
  <2>1. /\ bank'.total = [bank.total EXCEPT ![Eth] = @ - n]
        /\ bank'.shares = [bank.shares EXCEPT ![u][Eth] = @ - n]
        /\ frames' = Append(frames, Frame("send", NoRest))
        /\ bank.shares[u][Eth] >= n /\ Whole(Eth, n)
    BY <1>1, <1>5 DEF BeginWithdrawEth, MayWithdraw, BankType, Whole
  <2> QED
    BY <1>1, <1>4, <2>1, StartsOne, SumsOfFrames
<1>6. ASSUME NEW u \in Users, NEW t \in Tokens, NEW n \in Amounts[t], WithdrawToken(u, t, n)
      PROVE  SumsInv'
  <2>1. /\ bank'.total = [bank.total EXCEPT ![t] = @ - n]
        /\ bank'.shares = [bank.shares EXCEPT ![u][t] = @ - n]
        /\ UNCHANGED frames /\ t \in Assets
        /\ bank.shares[u][t] >= n /\ Whole(t, n)
    BY <1>1, <1>6 DEF WithdrawToken, MayWithdraw, BankType, Whole
  <2> QED
    BY <1>1, <1>4, <2>1, SumsOfFrames
<1>7. ASSUME bank'.total = bank.total, bank'.shares = bank.shares PROVE Books(bank')
  <2>1. Sums(bank')
    BY <1>1, <1>7, SumsStay
  <2>2. WholeShares(bank')
    BY <1>1, <1>7 DEF WholeShares
  <2> QED
    BY <2>1, <2>2 DEF Books
<1>8. CASE \E t \in Tokens : SkimToken(t)
  <2>1. bank'.total = bank.total /\ bank'.shares = bank.shares /\ UNCHANGED frames
    BY <1>1, <1>8 DEF SkimToken, BankType
  <2> QED
    BY <1>7, <2>1, SumsOfFrames
<1>9. CASE BeginSkimEth
  <2>1. /\ bank'.total = bank.total /\ bank'.shares = bank.shares
        /\ frames' = Append(frames, Frame("send", NoRest))
    BY <1>1, <1>9 DEF BeginSkimEth, BankType
  <2> QED
    BY <1>1, <1>7, <2>1, StartsOne, SumsOfFrames
<1>10. CASE EndSend
  <2>1. bank'.total = bank.total /\ bank'.shares = bank.shares /\ frames # <<>> /\ Pop
    BY <1>1, <1>10 DEF EndSend, Ended, BankType
  <2> QED
    BY <1>7, <2>1, SumsOfFrames
<1>11. ASSUME NEW borrow \in Loans, NEW cover \in BOOLEAN, NEW value \in {0} \union Gifts,
              BeginLoan(borrow, cover, value)
       PROVE  SumsInv'
  <2>1. bank'.total = bank.total /\ bank'.shares = bank.shares
    BY <1>1, <1>11 DEF BeginLoan, BankType
  <2> QED
    BY <1>7, <1>11, <2>1, LoanStarts, SumsOfFrames
<1>12. CASE EndLoan
  <2>1. PICK eth, weth, units : Settle(Top, eth, weth, units)
    BY <1>12 DEF EndLoan, CoverWithEth, CoverWithWeth, NothingToCover, WithoutWeth
  <2>2. bank'.total = bank.total /\ bank'.shares = bank.shares /\ frames # <<>> /\ Pop
    BY <1>1, <1>12, <2>1 DEF EndLoan, Settle, Ended, BankType
  <2> QED
    BY <1>7, <2>2, SumsOfFrames
<1>13. CASE \E a \in Assets, n \in Gifts : Send(a, n)
  <2>1. bank'.total = bank.total /\ bank'.shares = bank.shares /\ UNCHANGED frames
    BY <1>1, <1>13 DEF Send, BankType
  <2> QED
    BY <1>7, <2>1, SumsOfFrames
<1>14. CASE Revert
  <2>1. frames # <<>> /\ Pop /\ bank' = frames[Len(frames)].before
    BY <1>14 DEF Revert, Top
  <2>2. Len(frames) \in 1 .. Len(frames)
    BY <2>1 DEF BankTypes
  <2>3. Books(bank')
    BY <2>1, <2>2 DEF SumsInv
  <2> QED
    BY <2>1, <2>3, SumsOfFrames
<1>15. CASE UNCHANGED bankVars
  BY <1>1, <1>15, SumsOfFrames DEF bankVars
<1> QED
  BY <1>2, <1>3, <1>5, <1>6, <1>8, <1>9, <1>10, <1>11, <1>12, <1>13, <1>14, <1>15 DEF BankNext

LEMMA SumsInvariant == BankSpec => []SumsInv
<1>1. BankInit => SumsInv
  <2>1. WholeShares(NewBank)
    <3>1. \A m \in Nat \ {0} : 0 % m = 0
      OBVIOUS
    <3> QED
      BY <3>1, ConstantFacts DEF WholeShares, NewBank
  <2>2. Books(NewBank)
    BY <2>1, NewSums DEF Books
  <2> QED
    BY <2>2 DEF BankInit, SumsInv
<1>2. BankTypes /\ SumsInv /\ [BankNext]_bankVars => SumsInv'
  BY SumsStep
<1> QED
  BY <1>1, <1>2, BankInvariant, PTL DEF BankSpec

\* totalDeposits of every asset is the sum of what the users have deposited and not
\* withdrawn (ApeBankV3.sol).
THEOREM TotalsStaySums == BankSpec => []TotalsAreSums
<1>1. ASSUME BankTypes, SumsInv PROVE TotalsAreSums
  <2>1. Sums(Visible)
    <3>1. CASE frames = <<>>
      BY <1>1, <3>1 DEF SumsInv, Books, Visible
    <3>2. CASE frames # <<>>
      <4>1. 1 \in 1 .. Len(frames)
        BY <1>1, <3>2 DEF BankTypes
      <4> QED
        BY <1>1, <3>2, <4>1 DEF SumsInv, Books, Visible
    <3> QED
      BY <3>1, <3>2
  <2> QED
    BY <2>1, DepositedIsTotal DEF TotalsAreSums
<1> QED
  BY <1>1, BankInvariant, SumsInvariant, PTL

\* A share is no more than the sum of all, and none of the sums is negative: a smallest
\* set of users with a sum below a share would be one user larger than one without.
LEMMA ShareWithinSum ==
    ASSUME NEW b \in BankType, NEW a \in Assets, NEW g \in [SUBSET Users -> Int],
           IsSum(g, b.shares, a)
    PROVE  \A u \in Users : b.shares[u][a] <= g[Users]
<1> DEFINE Fine(s) == g[s] >= 0 /\ \A u \in s : b.shares[u][a] <= g[s]
           Bad == {s \in SUBSET Users : ~Fine(s)}
           R == StrictSubsetOrdering(Users)
<1>1. \A s \in SUBSET Users : IsFiniteSet(s)
  BY BankAssumption, FS_Subset
<1>2. FiniteSubsetsOf(Users) = SUBSET Users
  BY <1>1 DEF FiniteSubsetsOf
<1>3. IsWellFoundedOn(R, SUBSET Users)
  BY <1>2, FS_StrictSubsetOrderingWellFounded
<1>4. \A u \in Users : b.shares[u][a] \in Nat
  BY BankFields
<1>5. ASSUME Bad # {} PROVE FALSE
  <2> HIDE DEF R
  <2>1. Bad \subseteq SUBSET Users
    OBVIOUS
  <2> HIDE DEF Bad
  <2>2. PICK s \in Bad : \A r \in Bad : ~(<<r, s>> \in R)
    BY <1>3, <1>5, <2>1, WFMin
  <2>3. s \in SUBSET Users /\ ~Fine(s)
    BY DEF Bad
  <2>4. ASSUME s = {} PROVE FALSE
    <3>1. g[{}] = 0
      BY SumOf
    <3> QED
      BY <2>3, <2>4, <3>1
  <2> DEFINE w == LastOf(s)
  <2>5. g[s] = b.shares[w][a] + g[s \ {w}]
    BY <2>3, <2>4, SumOfSome
  <2>6. w \in s
    BY <2>4 DEF LastOf
  <2> HIDE DEF w
  <2>7. <<s \ {w}, s>> \in R
    BY <2>3, <2>6 DEF R, StrictSubsetOrdering
  <2>8. s \ {w} \notin Bad
    BY <2>2, <2>7
  <2>9. Fine(s \ {w})
    BY <2>3, <2>8 DEF Bad
  <2>10. g[s \ {w}] \in Int /\ b.shares[w][a] \in Nat /\ g[s] \in Int
    BY <1>4, <2>3, <2>6
  <2>11. g[s] >= 0 /\ b.shares[w][a] <= g[s] /\ g[s \ {w}] <= g[s]
    BY <2>5, <2>9, <2>10
  <2>12. ASSUME NEW u \in s PROVE b.shares[u][a] <= g[s]
    <3>1. CASE u = w
      BY <2>11, <3>1
    <3>2. CASE u # w
      <4>1. b.shares[u][a] <= g[s \ {w}] /\ b.shares[u][a] \in Nat
        BY <1>4, <2>3, <2>9, <3>2
      <4> QED
        BY <2>10, <2>11, <4>1
    <3> QED
      BY <3>1, <3>2
  <2> QED
    BY <2>3, <2>11, <2>12
<1>6. Users \notin Bad
  BY <1>5
<1> QED
  BY <1>6

\* Whoever has deposited can withdraw all of it at once (ApeBankV3.sol, withdraw): its
\* checks of the totals, the units on record and the balances never stop it.
THEOREM DepositsCanBeWithdrawn == BankSpec => []EveryDepositCanBeWithdrawn
<1>1. ASSUME BankTypes, BankInv, SumsInv PROVE EveryDepositCanBeWithdrawn
  <2> SUFFICES ASSUME frames = <<>>, NEW u \in Users, NEW a \in Assets
               PROVE  MayWithdraw(u, a, bank.shares[u][a])
    BY DEF EveryDepositCanBeWithdrawn
  <2> DEFINE n == bank.shares[u][a]
  <2>1. /\ bank \in BankType /\ Covered(bank) /\ Sums(bank) /\ WholeShares(bank)
        /\ bank.holds[a] \in Nat /\ bank.total[a] \in Nat /\ n \in Nat
    BY <1>1, BankFields DEF BankTypes, BankInv, Visible, SumsInv, Books
  <2>2. n <= bank.total[a]
    BY <2>1, ShareWithinSum DEF Sums
  <2>3. CASE a = Eth
    <3>1. bank.total[a] <= bank.holds[a]
      BY <2>1, <2>3 DEF Covered
    <3>2. n <= bank.holds[a]
      BY <2>1, <2>2, <3>1
    <3> HIDE DEF n
    <3>3. MayWithdraw(u, a, n)
      BY <2>1, <2>2, <2>3, <3>2 DEF MayWithdraw, n
    <3> QED
      BY <3>3 DEF n
  <2>4. CASE a # Eth
    <3>1. /\ a \in Tokens /\ Multiplier[a] \in Nat \ {0} /\ bank.units[a] \in Nat
          /\ OnRecord(bank, a) \in Nat
      <4>1. a \in Tokens /\ Multiplier[a] \in Nat \ {0} /\ Capacity \in Nat
        BY <2>4, ConstantFacts
      <4>2. bank.units[a] \in 0 .. (Capacity - 1)
        BY <2>1, <4>1, BankFields
      <4> QED
        BY <2>1, <4>1, <4>2, OnRecordNat
    <3>2. /\ bank.total[a] <= OnRecord(bank, a) /\ OnRecord(bank, a) <= bank.holds[a]
          /\ n % Multiplier[a] = 0
      BY <2>1, <3>1 DEF Covered, WholeShares
    <3> HIDE DEF n
    <3>3. n <= bank.holds[a] /\ n <= bank.units[a] * Multiplier[a]
      BY <2>1, <2>2, <3>1, <3>2 DEF OnRecord
    <3> DEFINE q == n \div Multiplier[a]
    <3>4. q \in Nat /\ q * Multiplier[a] = n
      BY <2>1, <3>1, <3>2, UnitFacts
    <3> HIDE DEF q
    <3>5. q <= bank.units[a]
      BY <3>1, <3>3, <3>4, NoMoreUnits
    <3>6. MayWithdraw(u, a, n)
      BY <2>1, <2>2, <3>2, <3>3, <3>5 DEF MayWithdraw, q, n
    <3> QED
      BY <3>6 DEF n
  <2> QED
    BY <2>3, <2>4
<1> QED
  BY <1>1, BankInvariant, SumsInvariant, PTL

-----------------------------------------------------------------------------
\* What the bank vouches for, and the steps of the atomic bank.
Kept(b) == [a \in Assets |-> IF a = Eth THEN b.holds[Eth] ELSE OnRecord(b, a)]

LEMMA KeptNat ==
    ASSUME NEW b \in BankType
    PROVE  /\ Kept(b) \in [Assets -> Nat]
           /\ Kept(b)[Eth] = b.holds[Eth]
           /\ \A t \in Tokens : Kept(b)[t] = OnRecord(b, t)
<1>1. ASSUME NEW a \in Assets PROVE Kept(b)[a] \in Nat
  <2>1. CASE a = Eth
    BY <2>1, BankFields, ConstantFacts DEF Kept
  <2>2. CASE a # Eth
    BY <2>2, OnRecordNat, ConstantFacts DEF Kept
  <2> QED
    BY <2>1, <2>2
<1> QED
  BY <1>1, ConstantFacts DEF Kept

LEMMA AtomicLoan ==
    ASSUME Visible \in BankType, Visible' \in BankType, Visible'.shares = Visible.shares,
           \A a \in Assets : Kept(Visible')[a] >= Kept(Visible)[a]
    PROVE  Atomic!Next
<1>1. Atomic!Keep(Kept(Visible))
  BY KeptNat DEF Atomic!Keep, Kept
<1>2. Atomic!Loan
  BY <1>1 DEF Atomic!Loan, Kept
<1> QED
  BY <1>2 DEF Atomic!Next

LEMMA AtomicDeposit ==
    ASSUME Visible \in BankType, Visible' \in BankType,
           NEW u \in Users, NEW a \in Assets, NEW n \in Amounts[a],
           Visible'.shares = [Visible.shares EXCEPT ![u][a] = @ + n],
           \A x \in Assets : Kept(Visible')[x] >= IF x = a THEN Kept(Visible)[x] + n
                                                 ELSE Kept(Visible)[x]
    PROVE  Atomic!Next
<1> DEFINE floor == [Kept(Visible) EXCEPT ![a] = @ + n]
<1>1. \A x \in Assets : Kept(Visible')[x] >= floor[x]
  BY KeptNat
<1>2. Kept(Visible') \in [Assets -> Nat]
  BY KeptNat
<1>3. Atomic!Keep(floor)
  BY <1>1, <1>2 DEF Atomic!Keep, Kept
<1>4. Atomic!Deposit(u, a, n)
  BY <1>3 DEF Atomic!Deposit, Kept
<1> QED
  BY <1>4 DEF Atomic!Next

LEMMA AtomicWithdraw ==
    ASSUME Visible \in BankType, Visible' \in BankType,
           NEW u \in Users, NEW a \in Assets, NEW n \in Amounts[a],
           Visible.shares[u][a] >= n,
           Visible'.shares = [Visible.shares EXCEPT ![u][a] = @ - n],
           \A x \in Assets : Kept(Visible')[x] >= IF x = a THEN Kept(Visible)[x] - n
                                                 ELSE Kept(Visible)[x]
    PROVE  Atomic!Next
<1> DEFINE floor == [Kept(Visible) EXCEPT ![a] = @ - n]
<1>1. \A x \in Assets : Kept(Visible')[x] >= floor[x]
  BY KeptNat
<1>2. Kept(Visible') \in [Assets -> Nat]
  BY KeptNat
<1>3. Atomic!Keep(floor)
  BY <1>1, <1>2 DEF Atomic!Keep, Kept
<1>4. Atomic!Withdraw(u, a, n)
  BY <1>3 DEF Atomic!Withdraw, Kept
<1> QED
  BY <1>4 DEF Atomic!Next

LEMMA AtomicSkim ==
    ASSUME Visible \in BankType, Visible' \in BankType, Sums(Visible), NEW a \in Assets,
           Visible'.shares = Visible.shares,
           \A x \in Assets : Kept(Visible')[x] >= IF x = a THEN Visible.total[x]
                                                 ELSE Kept(Visible)[x]
    PROVE  Atomic!Next
<1> DEFINE floor == [Kept(Visible) EXCEPT ![a] = Atomic!Deposited(a)]
<1>1. \A x \in Assets : Kept(Visible')[x] >= floor[x]
  BY KeptNat, DepositedIsTotal
<1>2. Kept(Visible') \in [Assets -> Nat]
  BY KeptNat
<1>3. Atomic!Keep(floor)
  BY <1>1, <1>2 DEF Atomic!Keep, Kept
<1>4. Atomic!Skim(a)
  BY <1>3 DEF Atomic!Skim, Kept
<1> QED
  BY <1>4 DEF Atomic!Next

-----------------------------------------------------------------------------
\* While operations are under way, and when one begins, nothing is seen of them.
LEMMA NothingSeen ==
    ASSUME BankTypes,
           \/ frames # <<>> /\ UNCHANGED frames
           \/ \E f \in FrameType : f.before = bank /\ frames' = Append(frames, f)
           \/ frames # <<>> /\ Pop /\ (Len(frames) = 1 => bank' = Top.before)
    PROVE  Visible' = Visible
<1>1. ASSUME frames # <<>>, UNCHANGED frames PROVE Visible' = Visible
  BY <1>1 DEF Visible
<1>2. ASSUME NEW f \in FrameType, f.before = bank, frames' = Append(frames, f)
      PROVE  Visible' = Visible
  <2>1. /\ Len(frames) \in Nat /\ Len(frames') = Len(frames) + 1 /\ frames'[Len(frames) + 1] = f
        /\ \A i \in 1 .. Len(frames) : frames'[i] = frames[i]
    BY <1>2, FramesGrow DEF BankTypes
  <2>2. frames' # <<>>
    BY <2>1
  <2>3. CASE frames = <<>>
    BY <1>2, <2>1, <2>2, <2>3 DEF Visible
  <2>4. CASE frames # <<>>
    <3>1. 1 \in 1 .. Len(frames)
      BY <2>4 DEF BankTypes
    <3> QED
      BY <2>1, <2>2, <2>4, <3>1 DEF Visible
  <2> QED
    BY <2>3, <2>4
<1>3. ASSUME frames # <<>>, Pop, Len(frames) = 1 => bank' = Top.before
      PROVE  Visible' = Visible
  <2>1. /\ Len(frames) \in Nat /\ Len(frames) >= 1 /\ Len(frames') = Len(frames) - 1
        /\ \A i \in 1 .. Len(frames) - 1 : frames'[i] = frames[i]
        /\ Len(frames) = 1 => frames' = <<>>
    BY <1>3, FramesShrink
  <2>2. CASE Len(frames) = 1
    BY <1>3, <2>1, <2>2 DEF Visible, Top
  <2>3. CASE Len(frames) # 1
    <3>1. 1 \in 1 .. Len(frames) - 1 /\ frames' # <<>>
      BY <2>1, <2>3
    <3> QED
      BY <1>3, <2>1, <3>1 DEF Visible
  <2> QED
    BY <2>2, <2>3
<1> QED
  BY <1>1, <1>2, <1>3

\* Outside of operations, the bank is what is seen of it.
LEMMA AllSeen ==
    ASSUME BankTypes, BankTypes', frames' = <<>>
    PROVE  /\ Visible' = bank' /\ bank' \in BankType
           /\ frames = <<>> => Visible = bank /\ bank \in BankType
  BY DEF Visible, BankTypes

\* The steps of an operation that is one.
LEMMA WholeSeen ==
    ASSUME BankTypes, BankTypes', BankInv', SumsInv, frames = <<>>, UNCHANGED frames,
           \/ \E u \in Users, n \in Amounts[Eth] : DepositEth(u, n)
           \/ \E u \in Users, t \in Tokens : \E n \in Amounts[t] : DepositToken(u, t, n) \/ WithdrawToken(u, t, n)
           \/ \E t \in Tokens : SkimToken(t)
           \/ \E a \in Assets, n \in Gifts : Send(a, n)
    PROVE  Atomic!Next
<1>1. /\ Visible = bank /\ Visible' = bank' /\ bank \in BankType /\ bank' \in BankType
      /\ Sums(Visible)
  BY AllSeen DEF SumsInv, Books
<1>2. /\ \A a \in Assets : Kept(bank)[a] \in Nat /\ Kept(bank')[a] \in Nat
      /\ Kept(bank)[Eth] = bank.holds[Eth] /\ Kept(bank')[Eth] = bank'.holds[Eth]
      /\ \A t \in Tokens : Kept(bank)[t] = OnRecord(bank, t) /\ Kept(bank')[t] = OnRecord(bank', t)
  BY <1>1, KeptNat
<1>3. ASSUME NEW u \in Users, NEW n \in Amounts[Eth], DepositEth(u, n) PROVE Atomic!Next
  <2>1. /\ bank'.holds = [bank.holds EXCEPT ![Eth] = @ + n] /\ bank'.units = bank.units
        /\ bank'.shares = [bank.shares EXCEPT ![u][Eth] = @ + n]
    BY <1>1, <1>3 DEF DepositEth, BankType
  <2>2. bank'.holds[Eth] = bank.holds[Eth] + n /\ Eth \in Assets
    BY <1>1, <2>1, BankFields, ConstantFacts
  <2>3. \A t \in Tokens : Kept(bank')[t] = Kept(bank)[t]
    BY <1>2, <2>1 DEF OnRecord
  <2>4. \A x \in Assets : Kept(bank')[x] >= IF x = Eth THEN Kept(bank)[x] + n ELSE Kept(bank)[x]
    BY <1>2, <2>2, <2>3, ConstantFacts
  <2> QED
    BY <1>1, <2>1, <2>2, <2>4, AtomicDeposit
<1>4. ASSUME NEW t \in Tokens, bank'.holds = [bank.holds EXCEPT ![t] = bank'.holds[t]],
             \A s \in Tokens \ {t} : bank'.units[s] = bank.units[s]
      PROVE  \A x \in Assets \ {t} : Kept(bank')[x] = Kept(bank)[x]
  <2>1. bank'.holds[Eth] = bank.holds[Eth]
    BY <1>1, <1>4, BankFields, ConstantFacts
  <2>2. \A s \in Tokens \ {t} : OnRecord(bank', s) = OnRecord(bank, s)
    BY <1>4 DEF OnRecord
  <2> QED
    BY <1>2, <2>1, <2>2, ConstantFacts
<1>5. ASSUME NEW u \in Users, NEW t \in Tokens, NEW n \in Amounts[t],
             DepositToken(u, t, n) \/ WithdrawToken(u, t, n)
      PROVE  Atomic!Next
  <2> DEFINE delta == n \div Multiplier[t]
  <2>1. /\ n \in Nat /\ t \in Assets /\ Multiplier[t] \in Nat \ {0} /\ bank.units[t] \in Nat
        /\ bank.holds \in [Assets -> Nat] /\ bank.units \in [Tokens -> 0 .. (Capacity - 1)]
    <3>1. n \in Nat /\ t \in Assets /\ Multiplier[t] \in Nat \ {0} /\ Capacity \in Nat
      BY ConstantFacts
    <3>2. /\ bank.holds \in [Assets -> Nat]
          /\ bank.units \in [Tokens -> 0 .. (Capacity - 1)]
      BY <1>1, BankFields
    <3> QED
      BY <3>1, <3>2
  <2>2. n % Multiplier[t] = 0
    BY <1>5, ConstantFacts DEF DepositToken, WithdrawToken, MayWithdraw
  <2>3. delta \in Nat /\ delta * Multiplier[t] = n
    BY <2>1, <2>2, UnitFacts
  <2> HIDE DEF delta
  <2>4. /\ (bank.units[t] + delta) * Multiplier[t] = OnRecord(bank, t) + n
        /\ (bank.units[t] - delta) * Multiplier[t] = OnRecord(bank, t) - n
    BY <2>1, <2>3 DEF OnRecord
  <2>5. ASSUME DepositToken(u, t, n) PROVE Atomic!Next
    <3>1. /\ bank'.holds = [bank.holds EXCEPT ![t] = @ + n]
          /\ bank'.units = [bank.units EXCEPT ![t] = @ + delta]
          /\ bank'.shares = [bank.shares EXCEPT ![u][t] = @ + n]
      BY <1>1, <2>5 DEF DepositToken, BankType, delta
    <3>2. OnRecord(bank', t) = OnRecord(bank, t) + n
      BY <2>1, <2>4, <3>1 DEF OnRecord
    <3>3. \A x \in Assets \ {t} : Kept(bank')[x] = Kept(bank)[x]
      BY <1>4, <2>1, <3>1
    <3>4. \A x \in Assets : Kept(bank')[x] >= IF x = t THEN Kept(bank)[x] + n ELSE Kept(bank)[x]
      BY <1>2, <3>2, <3>3
    <3> QED
      BY <1>1, <2>1, <3>1, <3>4, AtomicDeposit
  <2>6. ASSUME WithdrawToken(u, t, n) PROVE Atomic!Next
    <3>1. /\ bank'.holds = [bank.holds EXCEPT ![t] = @ - n]
          /\ bank'.units = [bank.units EXCEPT ![t] = @ - delta]
          /\ bank'.shares = [bank.shares EXCEPT ![u][t] = @ - n]
          /\ bank.shares[u][t] >= n
      BY <1>1, <2>6 DEF WithdrawToken, MayWithdraw, BankType, delta
    <3>2. OnRecord(bank', t) = OnRecord(bank, t) - n
      BY <2>1, <2>4, <3>1 DEF OnRecord
    <3>3. \A x \in Assets \ {t} : Kept(bank')[x] = Kept(bank)[x]
      BY <1>4, <2>1, <3>1
    <3>4. \A x \in Assets : Kept(bank')[x] >= IF x = t THEN Kept(bank)[x] - n ELSE Kept(bank)[x]
      BY <1>2, <3>2, <3>3, <2>1
    <3> QED
      BY <1>1, <2>1, <3>1, <3>4, AtomicWithdraw
  <2> QED
    BY <1>5, <2>5, <2>6
<1>6. ASSUME NEW a \in Assets, NEW n \in Gifts, Send(a, n) PROVE Atomic!Next
  <2>1. /\ bank'.holds = [bank.holds EXCEPT ![a] = @ + n]
        /\ bank'.units = bank.units /\ bank'.shares = bank.shares /\ n \in Nat
    BY <1>1, <1>6, ConstantFacts DEF Send, BankType
  <2>2. bank'.holds[Eth] >= bank.holds[Eth]
    <3>1. bank.holds[Eth] \in Nat
      BY <1>1, BankFields, ConstantFacts
    <3>2. bank'.holds[Eth] = IF a = Eth THEN bank.holds[Eth] + n ELSE bank.holds[Eth]
      BY <1>1, <2>1, BankFields, ConstantFacts
    <3> QED
      BY <2>1, <3>1, <3>2
  <2>3. \A t \in Tokens : Kept(bank')[t] = Kept(bank)[t]
    BY <1>2, <2>1 DEF OnRecord
  <2>4. \A x \in Assets : Kept(bank')[x] >= Kept(bank)[x]
    BY <1>2, <2>2, <2>3, ConstantFacts
  <2> QED
    BY <1>1, <2>1, <2>4, AtomicLoan
<1>7. ASSUME NEW t \in Tokens, SkimToken(t) PROVE Atomic!Next
  <2>1. /\ bank'.holds = [bank.holds EXCEPT ![t] = MinBalanceToKeep(t)]
        /\ bank'.units = [bank.units EXCEPT ![t] = (MinBalanceToKeep(t) \div Multiplier[t]) % Capacity]
        /\ bank'.total = bank.total /\ bank'.shares = bank.shares /\ t \in Assets
    BY <1>1, <1>7, ConstantFacts DEF SkimToken, BankType
  <2>2. \A x \in Assets \ {t} : Kept(bank')[x] = Kept(bank)[x]
    <3>1. bank'.holds = [bank.holds EXCEPT ![t] = bank'.holds[t]]
      BY <1>1, <2>1, BankFields
    <3>2. \A s \in Tokens \ {t} : bank'.units[s] = bank.units[s]
      BY <1>1, <2>1, BankFields
    <3> QED
      BY <1>4, <3>1, <3>2
  <2>3. bank.total[t] <= OnRecord(bank', t)
    BY <1>1, <2>1 DEF BankInv, Covered
  <2>4. bank.total[t] \in Nat
    BY <1>1, <2>1, BankFields
  <2>5. \A x \in Assets : Kept(bank')[x] >= IF x = t THEN bank.total[x] ELSE Kept(bank)[x]
    BY <1>2, <2>1, <2>2, <2>3, <2>4
  <2> QED
    BY <1>1, <2>1, <2>5, AtomicSkim
<1> QED
  BY <1>3, <1>5, <1>6, <1>7

\* An operation that sends ETH ends, as the outermost one.
LEMMA SendSeen ==
    ASSUME BankTypes, BankTypes', BankInv, SumsInv, EndSend, Len(frames) = 1
    PROVE  Atomic!Next
<1> DEFINE a == Top.before
<1>1. /\ frames # <<>> /\ Top.op = "send" /\ Top.calls = bank.calls /\ frames' = <<>>
      /\ Top = frames[1] /\ Top.units = a.units /\ a \in BankType /\ Sums(a)
  <2>1. frames # <<>> /\ Top.op = "send" /\ Top.calls = bank.calls /\ Pop
    BY DEF EndSend, NoneSince
  <2>2. 1 \in 1 .. Len(frames) /\ Top = frames[1]
    BY <2>1, TopFacts
  <2> QED
    BY <2>1, <2>2, TopFacts, FramesShrink DEF SumsInv, Books
<1>2. /\ Visible = a /\ Visible' = bank' /\ bank \in BankType /\ bank' \in BankType
  BY <1>1, AllSeen DEF Visible, BankTypes
<1>3. bank'.holds = bank.holds /\ bank'.units = a.units /\ bank'.shares = bank.shares
  BY <1>1, <1>2 DEF EndSend, Ended, BankType
<1>4. SentFrom(a, bank)
  BY <1>1 DEF BankInv, Underway
<1> HIDE DEF a
<1>5. /\ \A x \in Assets : Kept(a)[x] \in Nat /\ Kept(bank')[x] \in Nat
      /\ Kept(a)[Eth] = a.holds[Eth] /\ Kept(bank')[Eth] = bank.holds[Eth]
      /\ \A t \in Tokens : Kept(bank')[t] = Kept(a)[t]
  BY <1>1, <1>2, <1>3, KeptNat DEF OnRecord
<1>6. Eth \in Assets
  BY ConstantFacts
<1>7. CASE bank.shares = a.shares /\ bank.holds[Eth] >= a.total[Eth]
  <2>1. \A x \in Assets : Kept(bank')[x] >= IF x = Eth THEN a.total[x] ELSE Kept(a)[x]
    BY <1>5, <1>7, ConstantFacts
  <2> QED
    BY <1>1, <1>2, <1>3, <1>6, <1>7, <2>1, AtomicSkim
<1>8. ASSUME NEW u \in Users, NEW n \in Amounts[Eth], a.shares[u][Eth] >= n,
             bank.shares = [a.shares EXCEPT ![u][Eth] = @ - n],
             bank.holds[Eth] >= a.holds[Eth] - n
      PROVE  Atomic!Next
  <2>1. \A x \in Assets : Kept(bank')[x] >= IF x = Eth THEN Kept(a)[x] - n ELSE Kept(a)[x]
    BY <1>5, <1>8, ConstantFacts
  <2> QED
    BY <1>1, <1>2, <1>3, <1>6, <1>8, <2>1, AtomicWithdraw
<1> QED
  BY <1>4, <1>7, <1>8 DEF SentFrom

\* A loan ends, as the outermost operation.
LEMMA LoanSeen ==
    ASSUME BankTypes, BankTypes', BankInv, EndLoan, Len(frames) = 1
    PROVE  Atomic!Next
<1> DEFINE a == Top.before
<1>1. PICK eth \in Nat, weth \in Nat, wethUnits \in 0 .. (Capacity - 1) :
          SettlesWell(eth, weth, wethUnits)
  BY EndLoanSettles
<1>2. /\ frames # <<>> /\ Top.op = "loan" /\ Top.calls = bank.calls /\ frames' = <<>>
      /\ Top = frames[1] /\ Top.units = a.units /\ a \in BankType
  <2>1. frames # <<>> /\ Top.op = "loan" /\ Top.calls = bank.calls /\ Pop
    BY <1>1 DEF EndLoan, SettlesWell, Settle, NoneSince
  <2> QED
    BY <2>1, TopFacts, FramesShrink
<1>3. /\ Visible = a /\ Visible' = bank' /\ bank \in BankType /\ bank' \in BankType
  BY <1>2, AllSeen DEF Visible, BankTypes
<1>4. /\ bank.shares = a.shares /\ Top.rest.oldEth = a.holds[Eth]
      /\ Top.rest.others \subseteq Tokens \ {Weth}
  BY <1>2 DEF BankInv, Underway
<1>5. /\ bank'.holds = [bank.holds EXCEPT ![Eth] = eth, ![Weth] = weth]
      /\ bank'.shares = bank.shares
      /\ bank'.units = [t \in Tokens |-> IF t = Weth THEN wethUnits
                                        ELSE IF t \in Top.rest.others
                                             THEN (bank.holds[t] \div Multiplier[t]) % Capacity
                                        ELSE Top.units[t]]
  BY <1>1, <1>3 DEF SettlesWell, Settle, Ended, BankType
<1>6. \A t \in Top.rest.others : /\ bank.holds[t] < Capacity * Multiplier[t]
                                 /\ bank.holds[t] > OnRecord(a, t)
  BY <1>1, <1>2 DEF SettlesWell, Settle, Returned, OnRecord
<1>7. eth >= a.holds[Eth] /\ OnRecord(a, Weth) <= wethUnits * Multiplier[Weth]
  BY <1>1, <1>4 DEF SettlesWell
<1> HIDE DEF a
<1>8. bank'.holds[Eth] = eth
  BY <1>3, <1>5, BankFields, ConstantFacts
<1>9. ASSUME NEW t \in Tokens PROVE OnRecord(bank', t) >= OnRecord(a, t)
  <2>1. /\ OnRecord(a, t) \in Nat /\ bank.holds[t] \in Nat /\ a.units[t] \in Nat
        /\ Multiplier[t] \in Nat \ {0} /\ Capacity \in Nat \ {0}
    BY <1>2, <1>3, OnRecordNat, BankFields, ConstantFacts
  <2>2. CASE t = Weth
    <3>1. OnRecord(bank', t) = wethUnits * Multiplier[Weth]
      BY <1>5, <2>2 DEF OnRecord
    <3>2. wethUnits * Multiplier[Weth] \in Nat
      BY <2>1, <2>2
    <3> QED
      BY <1>7, <2>1, <2>2, <3>1, <3>2
  <2>3. CASE t # Weth /\ t \in Top.rest.others
    <3> DEFINE q == bank.holds[t] \div Multiplier[t]
    <3>1. bank'.units[t] = q /\ q \in Nat
      <4>1. bank.holds[t] < Capacity * Multiplier[t]
        BY <1>6, <2>3
      <4>2. q % Capacity = q /\ q \in Nat
        BY <2>1, <4>1, UnitsFit, UnitFacts
      <4>3. bank'.units[t] = q % Capacity
        BY <1>5, <2>3
      <4> QED
        BY <4>2, <4>3
    <3>2. OnRecord(a, t) % Multiplier[t] = 0
      <4>1. \A x \in Nat, y \in Nat \ {0} : (x * y) % y = 0
        OBVIOUS
      <4> QED
        BY <2>1, <4>1 DEF OnRecord
    <3>3. OnRecord(a, t) <= bank.holds[t]
      BY <1>6, <2>1, <2>3
    <3>4. OnRecord(a, t) <= q * Multiplier[t]
      BY <2>1, <3>2, <3>3, WholeUnitsFit
    <3> HIDE DEF q
    <3>5. OnRecord(bank', t) = q * Multiplier[t] /\ q * Multiplier[t] \in Nat
      BY <2>1, <3>1 DEF OnRecord
    <3> QED
      BY <2>1, <3>4, <3>5
  <2>4. CASE t # Weth /\ t \notin Top.rest.others
    <3>1. OnRecord(bank', t) = OnRecord(a, t)
      BY <1>2, <1>5, <2>4 DEF OnRecord
    <3> QED
      BY <2>1, <3>1
  <2> QED
    BY <2>2, <2>3, <2>4
<1>10. \A x \in Assets : Kept(bank')[x] >= Kept(a)[x]
  BY <1>2, <1>3, <1>7, <1>8, <1>9, KeptNat, ConstantFacts
<1> QED
  BY <1>2, <1>3, <1>4, <1>5, <1>10, AtomicLoan

-----------------------------------------------------------------------------
LEMMA AtomicStarts ==
    ASSUME BankInit
    PROVE  Atomic!Init
<1>1. Visible = NewBank /\ NewBank \in BankType
  BY BankStarts DEF BankInit, Visible, BankTypes
<1>2. \A t \in Tokens : OnRecord(NewBank, t) = 0
  BY ConstantFacts DEF OnRecord, NewBank
<1>3. \A x \in Assets : Kept(NewBank)[x] = 0
  BY <1>2, ConstantFacts DEF Kept, NewBank
<1>4. Kept(NewBank) = [a \in Assets |-> 0]
  BY <1>3 DEF Kept
<1>5. NewBank.shares = [u \in Users |-> [a \in Assets |-> 0]]
  BY DEF NewBank
<1> QED
  BY <1>1, <1>4, <1>5 DEF Atomic!Init, Kept

LEMMA AtomicStep ==
    ASSUME BankTypes, BankTypes', BankInv, BankInv', SumsInv, [BankNext]_bankVars
    PROVE  Atomic!Next \/ UNCHANGED Atomic!vars
<1>1. Visible' = Visible => UNCHANGED Atomic!vars
  BY DEF Atomic!vars, OnRecord
<1>2. ASSUME \/ \E u \in Users, n \in Amounts[Eth] : DepositEth(u, n)
             \/ \E u \in Users, t \in Tokens : \E n \in Amounts[t] :
                    DepositToken(u, t, n) \/ WithdrawToken(u, t, n)
             \/ \E t \in Tokens : SkimToken(t)
             \/ \E a \in Assets, n \in Gifts : Send(a, n)
      PROVE  Atomic!Next \/ UNCHANGED Atomic!vars
  <2>1. UNCHANGED frames
    <3>1. \A u, t, n : DepositToken(u, t, n) \/ WithdrawToken(u, t, n) => frames' = frames
      BY DEF DepositToken, WithdrawToken
    <3>2. \A u, n : DepositEth(u, n) => frames' = frames
      BY DEF DepositEth
    <3>3. \A t, n : SkimToken(t) \/ Send(t, n) => frames' = frames
      BY DEF SkimToken, Send
    <3> QED
      BY <1>2, <3>1, <3>2, <3>3
  <2>2. CASE frames = <<>>
    BY <1>2, <2>1, <2>2, WholeSeen
  <2>3. CASE frames # <<>>
    BY <1>1, <2>1, <2>3, NothingSeen
  <2> QED
    BY <2>2, <2>3
<1>3. NoRest \in [others : SUBSET Assets, combined : BOOLEAN, oldEth : Nat]
  BY DEF NoRest
<1>4. CASE (\E u \in Users, n \in Amounts[Eth] : BeginWithdrawEth(u, n)) \/ BeginSkimEth
  <2>1. frames' = Append(frames, Frame("send", NoRest))
    BY <1>4 DEF BeginWithdrawEth, BeginSkimEth
  <2> QED
    BY <1>1, <1>3, <2>1, StartsOne, NothingSeen
<1>5. ASSUME NEW borrow \in Loans, NEW cover \in BOOLEAN, NEW value \in {0} \union Gifts,
             BeginLoan(borrow, cover, value)
      PROVE  UNCHANGED Atomic!vars
  BY <1>1, <1>5, LoanStarts, NothingSeen
<1>6. CASE EndSend
  <2>1. CASE Len(frames) = 1
    BY <1>6, <2>1, SendSeen
  <2>2. CASE Len(frames) # 1
    BY <1>1, <1>6, <2>2, NothingSeen DEF EndSend
  <2> QED
    BY <2>1, <2>2
<1>7. CASE EndLoan
  <2>1. CASE Len(frames) = 1
    BY <1>7, <2>1, LoanSeen
  <2>2. CASE Len(frames) # 1
    <3>1. frames # <<>> /\ Pop
      BY <1>7, EndLoanSettles DEF EndLoan, SettlesWell, Settle
    <3> QED
      BY <1>1, <2>2, <3>1, NothingSeen
  <2> QED
    BY <2>1, <2>2
<1>8. CASE Revert
  BY <1>1, <1>8, NothingSeen DEF Revert
<1>9. CASE UNCHANGED bankVars
  BY <1>1, <1>9 DEF bankVars, Visible
<1> QED
  BY <1>2, <1>4, <1>5, <1>6, <1>7, <1>8, <1>9 DEF BankNext

\* Operations of the bank take effect one at a time and as a whole, whatever is called
\* in the middle of one (ApeBankV3.sol:425-427).
THEOREM BankIsAtomic == BankSpec => ImplementsAtomicBank
<1>1. BankInit => Atomic!Init
  BY AtomicStarts
<1>2. /\ BankTypes /\ BankInv /\ SumsInv /\ [BankNext]_bankVars
      /\ BankTypes' /\ BankInv' /\ SumsInv'
      => [Atomic!Next]_Atomic!vars
  BY AtomicStep
<1> QED
  BY <1>1, <1>2, BankInvariant, SumsInvariant, PTL DEF BankSpec, ImplementsAtomicBank, Atomic!Spec
=============================================================================
