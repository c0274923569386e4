------------------------------ MODULE Calldata ------------------------------
(***************************************************************************)
(* The calldata between the bundle generator and its executor contract:    *)
(* evm.rs packs a header and the calls of a trade into 256-bit words, and  *)
(* the loop of adMulticall in Multicall.sol unpacks and makes them.        *)
(*                                                                         *)
(* A word is a number; a field of a word is a range of its bits, given     *)
(* here by its unit (the value of its lowest bit) and its range.  The      *)
(* contract does not see where one call ends and the next begins: it reads *)
(* a header wherever its index is.                                         *)
(***************************************************************************)
EXTENDS Integers, Sequences, SequencesExt

CONSTANTS
    BlockUnit, BlockRange,        \* bits 64 .. 127 of the multicall header
    CoinbaseUnit, CoinbaseRange,  \* bits 128 .. 255 of it
    TargetRange,                  \* bits 0 .. 159 of a call header
    SizeUnit, SizeRange,          \* bits 180 .. 187
    OutUnit, OutRange,            \* bits 188 .. 195, always 0
    TypeUnit, TypeRange,          \* bits 198 .. 201
    MethodUnit, MethodRange,      \* bits 224 .. 255
    Words,                        \* the argument words and values of this instance
    MaxWords,                     \* bound: argument words of a call
    MaxCalls                      \* bound: calls of a trade

\* The fields of a word follow one another and are aligned to their units.
ASSUME HeaderAssumption ==
    /\ \A n \in {BlockUnit, BlockRange, CoinbaseUnit, CoinbaseRange} : n \in Nat \ {0}
    /\ BlockUnit >= 8 /\ BlockUnit % 8 = 0
    /\ CoinbaseUnit = BlockUnit * BlockRange

ASSUME CallHeaderAssumption ==
    /\ \A n \in {TargetRange, SizeUnit, SizeRange, OutUnit, OutRange, TypeUnit, TypeRange,
                 MethodUnit, MethodRange} : n \in Nat \ {0}
    /\ \E gap \in 1 .. SizeUnit : SizeUnit = TargetRange * gap
    /\ OutUnit = SizeUnit * SizeRange
    /\ \E gap \in 1 .. TypeUnit : TypeUnit = OutUnit * OutRange * gap
    /\ \E gap \in 1 .. MethodUnit : MethodUnit = TypeUnit * TypeRange * gap
    /\ TypeRange > 3

ASSUME WordsAssumption ==
    /\ Words \subseteq Nat
    /\ MaxWords \in Nat
    /\ MaxCalls \in Nat
    /\ MaxWords < SizeRange

VARIABLES
    header,    \* the MulticallHeader of the trade
    calls,     \* its calls
    balance,   \* the balance that an assertion among the calls looks at
    pc,        \* "encode", "decode", "done" or "reverted"
    encoded,   \* how many calls are encoded
    params,    \* the uint256[] that is built, then the calldata of ostium
    starts,    \* history: the word at which each call was put
    index,     \* the word that the contract reads next
    settings,  \* what it read from the first word
    made       \* the calls that it made

vars == <<header, calls, balance, pc, encoded, params, starts, index, settings, made>>

Call == 0
ValueCall == 1
AssertBalance == 2
AssertOwnerBalance == 3

CallHeader == [method : 0 .. MethodRange - 1, target : 0 .. TargetRange - 1]

\* The calls that the markets build: calls with arguments (swap, transfer, redeem,
\* withdraw), calls with a value and no argument (deposit and mint), and assertions
\* of a balance, which no market builds yet.
CallsWithWords(n) ==
    [header : CallHeader, type : {Call}, value : {0}, payload : [1 .. n -> Words]]

CallsWithValue ==
    [header : CallHeader, type : {ValueCall, AssertOwnerBalance}, value : Words,
     payload : {<<>>}]

Calls == CallsWithValue \union UNION {CallsWithWords(n) : n \in 1 .. MaxWords}

Headers == [payWithWeth : BOOLEAN, burnGasToken : BOOLEAN,
            block : 0 .. BlockRange - 1, coinbase : 0 .. CoinbaseRange - 1]

NoSettings == [payWithWeth |-> FALSE, burnGasToken |-> FALSE, block |-> 0, coinbase |-> 0]

Init ==
    /\ header \in Headers
    /\ calls \in UNION {[1 .. n -> Calls] : n \in 0 .. MaxCalls}
    /\ balance \in Words
    /\ pc = "encode"
    /\ encoded = 0
    /\ params = <<>>
    /\ starts = <<>>
    /\ index = 1
    /\ settings = NoSettings
    /\ made = <<>>

-----------------------------------------------------------------------------
Bit(flag) == IF flag THEN 1 ELSE 0

\* Mutant of EncodeHeader: the flags are the two lowest bits.
EncodeHeaderFromBitZero(h) ==
    Bit(h.payWithWeth) + 2 * Bit(h.burnGasToken)
      + h.block * BlockUnit + h.coinbase * CoinbaseUnit

\* MulticallHeader::encode.
EncodeHeader(h) ==
    2 * Bit(h.payWithWeth) + 4 * Bit(h.burnGasToken)
      + h.block * BlockUnit + h.coinbase * CoinbaseUnit

\* The header of one call: method, padding and target, with the type and the number
\* of argument words added in.
EncodeCallHeader(h, type, size) ==
    h.method * MethodUnit + type * TypeUnit + size * SizeUnit + h.target

\* A call is followed by its arguments, any other type by its value alone.
EncodeCall(c) ==
    <<EncodeCallHeader(c.header, c.type, Len(c.payload))>>
      \o (IF c.type = Call THEN c.payload ELSE <<c.value>>)

Begin ==
    /\ pc = "encode"
    /\ params = <<>>
    /\ params' = <<EncodeHeader(header)>>
    /\ UNCHANGED <<header, calls, balance, pc, encoded, starts, index, settings, made>>

AppendCall ==
    /\ pc = "encode"
    /\ params # <<>>
    /\ encoded < Len(calls)
    /\ encoded' = encoded + 1
    /\ params' = params \o EncodeCall(calls[encoded + 1])
    /\ starts' = Append(starts, Len(params) + 1)
    /\ UNCHANGED <<header, calls, balance, pc, index, settings, made>>

-----------------------------------------------------------------------------
\* Mutant of Field: the higher fields are not masked out.
FieldUnmasked(word, unit, range) == word \div unit

Field(word, unit, range) == (word \div unit) % range

\* calldataload: zero beyond the end.
Load(i) == IF i \in DOMAIN params THEN params[i] ELSE 0

\* ostium is called with the array: adMulticall reads the first word.
Receive ==
    /\ pc = "encode"
    /\ params # <<>>
    /\ encoded = Len(calls)
    /\ settings' = [payWithWeth  |-> Field(Load(1), 2, 2) = 1,
                    burnGasToken |-> Field(Load(1), 4, 2) = 1,
                    block        |-> Field(Load(1), BlockUnit, BlockRange),
                    coinbase     |-> Field(Load(1), CoinbaseUnit, CoinbaseRange)]
    /\ index' = 2
    /\ pc' = "decode"
    /\ UNCHANGED <<header, calls, balance, encoded, params, starts, made>>

TypeAt(i) == Field(Load(i), TypeUnit, TypeRange)
SizeAt(i) == Field(Load(i), SizeUnit, SizeRange)

HeaderAt(i) == [method |-> Field(Load(i), MethodUnit, MethodRange),
                target |-> Load(i) % TargetRange]

\* build_call: the arguments are copied from the words that follow.
Arguments(from, size) == [k \in 1 .. size |-> Load(from + k - 1)]

\* The call of the loop at the index, with a value or without.
MakeCall(value, from) ==
    /\ made' = Append(made, [header |-> HeaderAt(index), type |-> TypeAt(index),
                             value |-> value, payload |-> Arguments(from, SizeAt(index))])
    /\ UNCHANGED <<header, calls, balance, pc, encoded, params, starts, settings>>

\* Mutant of AfterCall: the index is not moved back for the increment of the loop.
AfterCallAndIncrement(from, size) == from + size + 1

AfterCall(from, size) == from + size

\* case 0: a call without a value.
PlainCall ==
    /\ pc = "decode"
    /\ index <= Len(params)
    /\ TypeAt(index) = Call
    /\ MakeCall(0, index + 1)
    /\ index' = AfterCall(index + 1, SizeAt(index))

\* case 1: the value comes first.
CallWithValue ==
    /\ pc = "decode"
    /\ index <= Len(params)
    /\ TypeAt(index) = ValueCall
    /\ MakeCall(Load(index + 1), index + 2)
    /\ index' = AfterCall(index + 2, SizeAt(index))

\* require(iszero(lt(expected, balance))).
Enough(expected) == ~(expected < balance)

\* case 2 and case 3: the balance of the contract or of its owner is looked at.
CheckBalance ==
    /\ pc = "decode"
    /\ index <= Len(params)
    /\ TypeAt(index) \in {AssertBalance, AssertOwnerBalance}
    /\ IF Enough(Load(index + 1))
         THEN /\ made' = Append(made, [header |-> HeaderAt(index), type |-> TypeAt(index),
                                       value |-> Load(index + 1), payload |-> <<>>])
              /\ index' = index + 2
              /\ UNCHANGED pc
         ELSE /\ pc' = "reverted"
              /\ UNCHANGED <<made, index>>
    /\ UNCHANGED <<header, calls, balance, encoded, params, starts, settings>>

\* The end of the data: the block number is checked and the miner is paid.
EndOfCalls ==
    /\ pc = "decode"
    /\ index > Len(params)
    /\ pc' = "done"
    /\ UNCHANGED <<header, calls, balance, encoded, params, starts, index, settings, made>>

Next == Begin \/ AppendCall \/ Receive \/ PlainCall \/ CallWithValue \/ CheckBalance
        \/ EndOfCalls

Spec == Init /\ [][Next]_vars

-----------------------------------------------------------------------------
TypeOK ==
    /\ header \in Headers
    /\ calls \in Seq(Calls)
    /\ balance \in Words
    /\ pc \in {"encode", "decode", "done", "reverted"}
    /\ encoded \in 0 .. Len(calls)
    /\ params \in Seq(Nat)
    /\ starts \in Seq(Nat)
    /\ index \in Nat
    /\ settings \in Headers
    /\ made \in Seq(Calls)

\* The contract makes the calls of the trade, in their order and with their targets,
\* values and arguments, and no other: its index is at the header of a call whenever
\* it reads one, whatever the words are.  It stops before the last one only at a balance
\* assertion of the trade, and at no other word that looks like one.
MakesTheTrade ==
    /\ IsPrefix(made, calls)
    /\ pc = "done" => made = calls
    /\ pc = "reverted" =>
          /\ Len(made) < Len(calls)
          /\ calls[Len(made) + 1].type \in {AssertBalance, AssertOwnerBalance}

\* What the contract reads from the first word is what the generator put there: the
\* two flags, the block and the payment do not run into one another.
SettingsArrive == pc # "encode" => settings = header

\* The inductive invariant behind MakesTheTrade: the calls lie one after the other
\* behind the first word, each in as many words as the contract takes for it, and
\* the contract is at the beginning of one of them.
Size(c) == IF c.type = Call THEN 1 + Len(c.payload) ELSE 2

Start(k) == IF k <= Len(starts) THEN starts[k] ELSE Len(params) + 1

Layout ==
    /\ Len(starts) = encoded
    /\ params = <<>> => encoded = 0
    /\ params # <<>> =>
          /\ params[1] = EncodeHeader(header)
          /\ Start(1) = 2
          /\ \A k \in 1 .. Len(starts) :
                /\ starts[k] \in 2 .. Len(params)
                /\ Start(k + 1) = starts[k] + Size(calls[k])
                /\ Start(k + 1) <= Len(params) + 1
                /\ \A j \in 1 .. Size(calls[k]) :
                      params[starts[k] + j - 1] = EncodeCall(calls[k])[j]

Position ==
    /\ pc = "encode" => made = <<>>
    /\ pc # "encode" =>
          /\ encoded = Len(calls)
          /\ params # <<>>
          /\ settings = header
          /\ Len(made) <= encoded
          /\ index = Start(Len(made) + 1)
    /\ pc = "done" => Len(made) = encoded
    /\ \A k \in 1 .. Len(made) : made[k] = calls[k]

\* "Require balance greater than or equal to expected" (Multicall.sol:260, 268) is not
\* what is required: a balance that was asserted is at most the expected one.
AssertionsAreCeilings ==
    \A k \in 1 .. Len(made) :
        made[k].type \in {AssertBalance, AssertOwnerBalance} => balance <= made[k].value
=============================================================================
