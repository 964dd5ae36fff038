------------------------------- MODULE Codec -------------------------------
(***************************************************************************)
(* One instruction on its way from the constructor of its class to bytes   *)
(* and through the interpreter's decoder back to operands: Op.__init__()   *)
(* and Op.encode_for() of core.py, then bajo_step(), read_dst() and        *)
(* read_src() of bajo.c, a varint at a time.  Vm takes over from there: a  *)
(* cell of Vm is one varint of this module.                                *)
(*                                                                         *)
(* A definition named X_Y is X with one plausible mistake Y: no action     *)
(* uses it, it shows that a property notices the mistake.                  *)
(*                                                                         *)
(* Bytes have their 8 bits and words their 32.  A number is the sequence   *)
(* of its bits, the lowest first, with zeros at the end or without.        *)
(*                                                                         *)
(* An operand is a sequence of cells, all but the last one indirect:       *)
(*   lit    a plain int, passed to the constructor                         *)
(*   imm    the result of an ImmExpr, or the int offset of an IMem         *)
(*   bool   a Python bool                                                  *)
(*   mem    a memory address                                               *)
(*   ind    the address of the word an IMem adds its offset to             *)
(* An immediate v is mag, or -mag - 1 (that is, ~mag) if neg.              *)
(***************************************************************************)
EXTENDS Isa, Varint, SequencesExt

C == INSTANCE OpSpec    \* the decoder's table

CONSTANTS
  Calls,            \* constructor calls: a class, its targets and sources
  MaxTgts, MaxSrcs  \* MAX_TGTS, MAX_SRCS

Bit == 0 .. 1
\* Numbers from Huge on need not be told apart: no instruction has as many
\* operands, nor has the interpreter room for them.
Huge == 2 ^ 29
ASSUME LimitsAssumption == MaxTgts \in 0 .. Huge - 1 /\ MaxSrcs \in 0 .. Huge - 1

Immediate == [neg : BOOLEAN, mag : Seq(Bit)]
Cell == [mode : {"lit", "imm"}, v : Immediate] \cup [mode : {"bool", "mem", "ind"}, v : Seq(Bit)]
IsOperand(o) ==
  /\ o # <<>>
  /\ \A k \in DOMAIN o :
       /\ o[k].mode = "ind" <=> k < Len(o)
       /\ o[k].mode \in {"lit", "bool"} => k = 1
       /\ o[k].mode \in {"mem", "ind"} => Len(o[k].v) <= 32
ASSUME CallsAssumption ==
  \A c \in Calls :
    /\ c.op \in Classes /\ Accepts(c.op, Len(c.tgts), Len(c.srcs))
    /\ {c.tgts, c.srcs} \subseteq Seq(Seq(Cell)) /\ Len(c.tgts) < Huge /\ Len(c.srcs) < Huge
    /\ \A j \in DOMAIN c.tgts : IsOperand(c.tgts[j]) /\ c.tgts[j][1].mode \in {"mem", "ind"}
    /\ \A j \in DOMAIN c.srcs : IsOperand(c.srcs[j])

VARIABLES
  call,       \* the constructor call
  code,       \* the encoded bytes
  ends,       \* where the parts of the encoding end
  st,         \* what happens next, or how it ended
  pos,        \* bytes decoded so far
  op, m,      \* the decoded operation and m flag
  ntgts, nsrcs,  \* the numbers of operands
  tgts, srcs  \* the decoded operands; the last one may still lack cells
vars == <<call, code, ends, st, pos, op, m, ntgts, nsrcs, tgts, srcs>>
decoded == <<op, m, ntgts, nsrcs, tgts, srcs>>

-----------------------------------------------------------------------------
(* Numbers. *)

Zeros(n) == [k \in 1 .. n |-> 0]
Low(b, n)  == [k \in 1 .. n |-> IF k <= Len(b) THEN b[k] ELSE 0]   \* b mod 2^n
Drop(b, n) == SubSeq(b, n + 1, Len(b))                            \* b div 2^n
Complement(b) == [k \in DOMAIN b |-> 1 - b[k]]
BitLength(b) ==
  IF \A k \in DOMAIN b : b[k] = 0 THEN 0
  ELSE CHOOSE k \in DOMAIN b : b[k] = 1 /\ \A j \in DOMAIN b : j > k => b[j] = 0
Bits(n, w) == [k \in 1 .. w |-> (n \div 2 ^ (k - 1)) % 2]
\* What the numbers of the sequence s add up to.
Total(s) ==
  LET to[k \in 0 .. Len(s)] == IF k = 0 THEN 0 ELSE to[k - 1] + s[k]
  IN  to[Len(s)]
\* The value of b, or Huge if it is not less.
NumberOf(b) ==
  IF BitLength(b) <= 29 THEN Total([k \in 1 .. 29 |-> Low(b, 29)[k] * 2 ^ (k - 1)]) ELSE Huge

-----------------------------------------------------------------------------
(* The encoder. *)

NBytes_Floor(b) == BitLength(b) \div 7 + 1
NBytes(b) == LET n == (BitLength(b) + 6) \div 7 IN IF n = 0 THEN 1 ELSE n

\* n - 1 zeros and a one, in the lowest bits, say that there are n bytes.
EncodeVarint(b) ==
  LET n == NBytes(b)
      v == Zeros(n - 1) \o <<1>> \o Low(b, BitLength(b))
  IN  [k \in 1 .. (Len(v) + 7) \div 8 |-> Low(Drop(v, 8 * (k - 1)), 8)]

\* check_range(): _S32_MIN <= val < _S32_MAX + 1.
InRange_Unsigned(v) == BitLength(v.mag) <= 32
InRange(v) == BitLength(v.mag) <= 31
\* The range Imm.encode() asserts.
Encodable(v) == BitLength(v.mag) <= (IF v.neg THEN 31 ELSE 32)
CastS32(v) ==
  IF ~v.neg /\ BitLength(v.mag) = 32
  THEN [neg |-> TRUE, mag |-> Complement(Low(v.mag, 32))] ELSE v
ImmBits_Negated(v) ==
  LET w == CastS32(v) IN <<0, IF w.neg THEN 1 ELSE 0>> \o (IF w.neg THEN Complement(w.mag) ELSE w.mag)
ImmBits(v) == LET w == CastS32(v) IN <<0, IF w.neg THEN 1 ELSE 0>> \o w.mag

AddrBits_Even(a, ind) ==
  IF Low(a, 1) = Zeros(1) THEN <<ind, 0>> \o Drop(Low(a, 32), 2) ELSE <<ind, 1>> \o a
AddrBits(a, ind) ==
  IF Low(a, 2) = Zeros(2) THEN <<ind, 0>> \o Drop(Low(a, 32), 2) ELSE <<ind, 1>> \o a
CellBits(c, as_src) ==
  CASE c.mode \in {"lit", "imm"} -> ImmBits(c.v)
    [] c.mode \in {"mem", "ind"} ->
         (IF as_src THEN <<1>> ELSE <<>>) \o AddrBits(c.v, IF c.mode = "ind" THEN 1 ELSE 0)

\* The varints of an operand: what follows an indirection is a source.
OperandParts(o, as_src) ==
  [k \in DOMAIN o |-> EncodeVarint(CellBits(o[k], as_src \/ k > 1))]

AllParts(os, as_src) == FlattenSeq([j \in DOMAIN os |-> OperandParts(os[j], as_src)])

\* The first source is left out if it is encoded as the first target would be
\* as a source.
IsRmw_AsTarget(c) ==
  /\ c.srcs # <<>> /\ c.tgts # <<>>
  /\ OperandParts(c.srcs[1], TRUE) = OperandParts(c.tgts[1], FALSE)
IsRmw(c) ==
  /\ c.srcs # <<>> /\ c.tgts # <<>>
  /\ OperandParts(c.srcs[1], TRUE) = OperandParts(c.tgts[1], TRUE)

CountParts_Omitted(more, n) == <<>>
CountParts(more, n) ==
  IF more THEN <<EncodeVarint(ImmBits([neg |-> FALSE, mag |-> Bits(n, 29)]))>> ELSE <<>>
Parts(c) ==
  <<<<Bits(Opcode[c.op], 7) \o <<IF IsRmw(c) THEN 1 ELSE 0>>>>>>
    \o CountParts(Signature[c.op].more_tgts, Len(c.tgts)) \o AllParts(c.tgts, FALSE)
    \o CountParts(Signature[c.op].more_srcs, Len(c.srcs))
    \o AllParts(IF IsRmw(c) THEN Tail(c.srcs) ELSE c.srcs, TRUE)

\* Op.max_size(), what the layout engine starts from.
Varints(os) == Len(FlattenSeq(os))
MaxSize(c) ==
  1 + MaxVarintSize * ( Varints(c.tgts) + Varints(c.srcs)
                      + (IF Signature[c.op].more_tgts THEN 1 ELSE 0)
                      + (IF Signature[c.op].more_srcs THEN 1 ELSE 0) )

-----------------------------------------------------------------------------
(* The decoder. *)

\* decode_varint_size(): the trailing zeros of the first byte, and one.
VarintBytes(head) == CHOOSE n \in 1 .. 8 : head[n] = 1 /\ \A k \in 1 .. n - 1 : head[k] = 0
GoodVarint == /\ pos < Len(code) /\ \E k \in 1 .. 5 : code[pos + 1][k] = 1
              /\ pos + VarintBytes(code[pos + 1]) <= Len(code)
VarintEnd  == pos + VarintBytes(code[pos + 1])
Payload ==
  Drop(code[pos + 1], VarintBytes(code[pos + 1])) \o FlattenSeq(SubSeq(code, pos + 2, VarintEnd))

AddressIn_Untruncated(v, misaligned) == IF misaligned = 1 THEN v ELSE Zeros(2) \o v
AddressIn(v, misaligned) == Low(IF misaligned = 1 THEN v ELSE Zeros(2) \o v, 32)
SrcCell ==
  LET b == Payload
  IN  IF b[1] = 0
      THEN LET v == Low(Drop(b, 2), 32)
           IN  [mode |-> "imm", v |-> IF b[2] = 1 THEN Complement(v) ELSE v]
      ELSE [mode |-> IF b[2] = 1 THEN "ind" ELSE "mem", v |-> AddressIn(Drop(b, 3), b[3])]
TgtCell ==
  LET b == Payload
  IN  [mode |-> IF b[1] = 1 THEN "ind" ELSE "mem", v |-> AddressIn(Drop(b, 2), b[2])]

AllComplete(os) == os # <<>> => Last(Last(os)).mode # "ind"
\* The next cell begins an operand or goes on with one.
Extend(os, cell) ==
  IF AllComplete(os) THEN Append(os, <<cell>>)
  ELSE [os EXCEPT ![Len(os)] = Append(@, cell)]
-----------------------------------------------------------------------------
Ended == {"done", "ValueError", "TypeError", "AssertionError", "BAD_OPERAND", "malformed"}

Init ==
  /\ call \in Calls /\ st = "call" /\ pos = 0 /\ code = <<>> /\ ends = {}
  /\ op = "NOP" /\ m = FALSE /\ ntgts = 0 /\ nsrcs = 0 /\ tgts = <<>> /\ srcs = <<>>

\* Op.__init__() looks at its sources in their order.
IsBool(o) == o[1].mode = "bool"
Refused(o) == IsBool(o) \/ (o[1].mode = "lit" /\ ~InRange(o[1].v))
FirstRefused(os) ==
  CHOOSE j \in DOMAIN os : Refused(os[j]) /\ \A k \in DOMAIN os : k < j => ~Refused(os[k])
Construct ==
  /\ st = "call"
  /\ st' = IF \A j \in DOMAIN call.srcs : ~Refused(call.srcs[j]) THEN "built"
           ELSE IF IsBool(call.srcs[FirstRefused(call.srcs)]) THEN "TypeError" ELSE "ValueError"
  /\ UNCHANGED <<call, code, ends, pos, decoded>>

CellsOf(os) == UNION {{os[j][k] : k \in DOMAIN os[j]} : j \in DOMAIN os}
AllEncodable(c) ==
  \A x \in CellsOf(c.tgts) \cup CellsOf(c.srcs) : x.mode \in {"lit", "imm"} => Encodable(x.v)
Encode ==
  /\ st = "built"
  /\ IF AllEncodable(call)
     THEN /\ st' = "opcode" /\ code' = FlattenSeq(Parts(call))
          /\ ends' = {Len(FlattenSeq(SubSeq(Parts(call), 1, k))) : k \in DOMAIN Parts(call)}
     ELSE st' = "AssertionError" /\ UNCHANGED <<code, ends>>
  /\ UNCHANGED <<call, pos, decoded>>

-----------------------------------------------------------------------------
\* bajo_step(), as far as it decodes.
FetchOpcode ==
  LET n == NumberOf(Low(code[1], 7))
  IN  /\ st = "opcode"
      /\ IF n > MAX_OPCODE THEN st' = "malformed" /\ UNCHANGED decoded
         ELSE /\ op' = ClassOf[n] /\ m' = (code[1][8] = 1)
              /\ IF C!VarTgts(op') THEN st' = "ntgts" /\ UNCHANGED ntgts
                 ELSE st' = "tgts" /\ ntgts' = C!Arity(op')[1]
              /\ UNCHANGED <<nsrcs, tgts, srcs>>
      /\ pos' = 1 /\ UNCHANGED <<call, code, ends>>

\* A count is an immediate; Vm also knows counts taken from memory, which no
\* encoder writes.
GoodCount == GoodVarint /\ SrcCell.mode = "imm"
CountTgts ==
  /\ st = "ntgts"
  /\ IF ~GoodCount THEN st' = "malformed" /\ UNCHANGED <<pos, ntgts>>
     ELSE /\ ntgts' = NumberOf(SrcCell.v) /\ pos' = VarintEnd
          /\ st' = IF ntgts' > MaxTgts THEN "BAD_OPERAND" ELSE "tgts"
  /\ UNCHANGED <<call, code, ends, op, m, nsrcs, tgts, srcs>>

\* read_dst() begins a target, the read_src() it calls goes on with one.
ReadTgt ==
  /\ st = "tgts" /\ ~(Len(tgts) = ntgts /\ AllComplete(tgts))
  /\ IF ~GoodVarint THEN st' = "malformed" /\ UNCHANGED <<pos, tgts>>
     ELSE /\ tgts' = Extend(tgts, IF AllComplete(tgts) THEN TgtCell ELSE SrcCell)
          /\ pos' = VarintEnd /\ UNCHANGED st
  /\ UNCHANGED <<call, code, ends, op, m, ntgts, nsrcs, srcs>>
TgtsRead ==
  /\ st = "tgts" /\ Len(tgts) = ntgts /\ AllComplete(tgts)
  /\ IF C!VarSrcs(op) THEN st' = "nsrcs" /\ UNCHANGED nsrcs
     ELSE st' = "rmw" /\ nsrcs' = C!Arity(op)[2]
  /\ UNCHANGED <<call, code, ends, pos, op, m, ntgts, tgts, srcs>>

CountSrcs ==
  /\ st = "nsrcs"
  /\ IF ~GoodCount THEN st' = "malformed" /\ UNCHANGED <<pos, nsrcs>>
     ELSE /\ nsrcs' = NumberOf(SrcCell.v) /\ pos' = VarintEnd
          /\ st' = IF nsrcs' > MaxSrcs THEN "BAD_OPERAND" ELSE "rmw"
  /\ UNCHANGED <<call, code, ends, op, m, ntgts, tgts, srcs>>

Rmw ==
  /\ st = "rmw"
  /\ IF ~m THEN st' = "srcs" /\ UNCHANGED srcs
     ELSE IF nsrcs = 0 \/ ntgts = 0 THEN st' = "malformed" /\ UNCHANGED srcs
     ELSE st' = "srcs" /\ srcs' = <<tgts[1]>>
  /\ UNCHANGED <<call, code, ends, pos, op, m, ntgts, nsrcs, tgts>>

ReadSrc ==
  /\ st = "srcs" /\ ~(Len(srcs) = nsrcs /\ AllComplete(srcs))
  /\ IF ~GoodVarint THEN st' = "malformed" /\ UNCHANGED <<pos, srcs>>
     ELSE srcs' = Extend(srcs, SrcCell) /\ pos' = VarintEnd /\ UNCHANGED st
  /\ UNCHANGED <<call, code, ends, op, m, ntgts, nsrcs, tgts>>
SrcsRead ==
  /\ st = "srcs" /\ Len(srcs) = nsrcs /\ AllComplete(srcs)
  /\ st' = "done"
  /\ UNCHANGED <<call, code, ends, pos, decoded>>

Next ==
  \/ Construct \/ Encode \/ FetchOpcode \/ CountTgts \/ ReadTgt \/ TgtsRead
  \/ CountSrcs \/ Rmw \/ ReadSrc \/ SrcsRead
Spec == Init /\ [][Next]_vars

-----------------------------------------------------------------------------
(* Properties. *)

Byte == [1 .. 8 -> Bit]
\* The code is made of bytes, the decoded cells of words.
TypeOK ==
  /\ st \in Ended \cup {"call", "built", "opcode", "ntgts", "tgts", "nsrcs", "rmw", "srcs"}
  /\ \A k \in DOMAIN code : code[k] \in Byte
  /\ pos \in 0 .. Len(code) /\ ends \subseteq 1 .. Len(code)
  /\ op \in Classes /\ m \in BOOLEAN
  /\ \A c \in CellsOf(tgts) \cup CellsOf(srcs) : Len(c.v) = 32

\* What an operand means to a 32-bit machine.
Word(v) == IF v.neg THEN Complement(Low(v.mag, 32)) ELSE Low(v.mag, 32)
Meaning(o) ==
  [k \in DOMAIN o |->
     IF o[k].mode \in {"lit", "imm"} THEN [mode |-> "imm", v |-> Word(o[k].v)]
     ELSE [mode |-> o[k].mode, v |-> Low(o[k].v, 32)]]
Meanings(os) == [j \in DOMAIN os |-> Meaning(os[j])]

\* The interpreter finds the operation and the operands that the constructor
\* was given, whatever their values, shapes and number: the classes of core.py,
\* their opcodes, the encoder, the decoder and its table fit together.
RoundTrip ==
  st = "done" => op = call.op /\ tgts = Meanings(call.tgts) /\ srcs = Meanings(call.srcs)

\* The first source is left out exactly if it means the same as the first
\* target does, although one is encoded as a source and one as a target.
SharedIffSame ==
  st = "done" =>
    (m <=> /\ call.srcs # <<>> /\ call.tgts # <<>>
           /\ Meaning(call.srcs[1]) = Meaning(call.tgts[1]))

\* Each read of the decoder begins where a part of the encoding begins, and the
\* decoder stops at the end of the instruction: the next one is found.
DecoderInStep ==
  /\ st \in {"ntgts", "tgts", "nsrcs", "rmw", "srcs", "done"} => pos \in ends
  /\ st = "done" => pos = Len(code)

\* A constructed instruction decodes, unless it has more operands than the
\* interpreter has room for, which the assembler does not look at.
DecodesUnlessTooMany ==
  /\ st # "malformed"
  /\ st = "BAD_OPERAND" => Len(call.tgts) > MaxTgts \/ Len(call.srcs) > MaxSrcs
  /\ st = "done" /\ Signature[call.op].more_tgts => Len(call.tgts) <= MaxTgts
  /\ st = "done" /\ Signature[call.op].more_srcs => Len(call.srcs) <= MaxSrcs

\* A plain int that the constructor takes is encoded without an assertion and
\* arrives with its sign; only the result of an expression may be too large.
LiteralsArrive ==
  /\ st = "AssertionError" =>
       \E c \in CellsOf(call.tgts) \cup CellsOf(call.srcs) : c.mode = "imm" /\ ~Encodable(c.v)
  /\ st = "done" =>
       \A j \in DOMAIN srcs :
         call.srcs[j][1].mode = "lit" => (srcs[j][1].v[32] = 1 <=> call.srcs[j][1].v.neg)

\* What Varint says of an operand's size, which is what the layout engine's
\* model computes with.
CellSize(c, as_src) ==
  IF c.mode \in {"lit", "imm"} THEN ImmSize(NumberOf(CastS32(c.v).mag))
  ELSE IF as_src THEN MemSize(NumberOf(c.v))
  ELSE VarintSize(LET a == NumberOf(c.v) IN IF a % 4 = 0 THEN a \div 4 ELSE a, 2)
OperandSize(o, as_src) == Total([k \in DOMAIN o |-> CellSize(o[k], as_src \/ k > 1)])
OperandSizes(os, as_src) == Total([j \in DOMAIN os |-> OperandSize(os[j], as_src)])
LaidOutSize(c) ==
  LET s == Signature[c.op]
  IN  1 + OperandSizes(c.tgts, FALSE) + OperandSizes(c.srcs, TRUE)
        - (IF IsRmw(c) THEN OperandSize(c.srcs[1], TRUE) ELSE 0)
        + (IF s.more_tgts THEN ImmSize(Len(c.tgts)) ELSE 0)
        + (IF s.more_srcs THEN ImmSize(Len(c.srcs)) ELSE 0)

\* The bytes of an instruction are as many as the layout was computed with, and
\* never more than max_size(), which the first pass takes.
SizeAsLaidOut == code # <<>> => Len(code) = LaidOutSize(call) /\ Len(code) <= MaxSize(call)
=============================================================================
