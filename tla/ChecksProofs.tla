----------------------------- MODULE ChecksProofs -----------------------------
(***************************************************************************)
(* Proofs about what the checks of build_inner let through and what they   *)
(* tell the client when they do not: packing, prefund, validity windows    *)
(* and error codes, for integers of any width, any operations and any      *)
(* answers of the node.  The first part is about the operators, the second *)
(* about the loop.                                                         *)
(***************************************************************************)
EXTENDS AdmissionProofs, SequenceTheorems

-----------------------------------------------------------------------------
\* Words made of halves and fields.

\* Quotient and remainder.
LEMMA DivMod ==
  ASSUME NEW x \in Nat, NEW T \in Nat \ {0}
  PROVE  /\ x \div T \in Nat /\ x % T \in 0 .. T - 1
         /\ x = T * (x \div T) + (x % T)
  OBVIOUS

\* Multiples of T are at least T apart.
LEMMA Multiples ==
  ASSUME NEW T \in Nat, NEW a \in Nat, NEW b \in Nat, a < b
  PROVE  T * a + T <= T * b
  OBVIOUS

\* A word of a high part and a low part below T is taken apart again.
LEMMA Unpack ==
  ASSUME NEW T \in Nat \ {0}, NEW hi \in Nat, NEW lo \in 0 .. T - 1
  PROVE  /\ (hi * T + lo) \div T = hi
         /\ (hi * T + lo) % T = lo
<1> DEFINE x == hi * T + lo
           q == x \div T
           r == x % T
<1>1. x \in Nat /\ x = T * hi + lo
  OBVIOUS
<1>2. x = T * q + r /\ r \in 0 .. T - 1 /\ q \in Nat
  BY <1>1, DivMod
<1> HIDE DEF x, q, r
<1>3. ~(q < hi) /\ ~(hi < q)
  BY <1>1, <1>2, Multiples
<1>4. q = hi /\ r = lo
  BY <1>1, <1>2, <1>3
<1> QED
  BY <1>4 DEF x, q, r

\* The EntryPoint reads both halves of a word of pack_pair_to_bytes32.
LEMMA PairReadBack ==
  ASSUME NEW hi \in U256, NEW lo \in U256, pack_pair_to_bytes32(hi, lo).ok
  PROVE  /\ EPHigh(pack_pair_to_bytes32(hi, lo).val) = hi
         /\ EPLow(pack_pair_to_bytes32(hi, lo).val) = lo
         /\ hi \in 0 .. U128Max /\ lo \in 0 .. U128Max
<1>1. hi \in Nat /\ lo \in Nat
  BY Widths DEF U256
<1>2. hi <= U128Max /\ lo <= U128Max
  BY <1>1, Widths DEF pack_pair_to_bytes32, Err
<1>3. pack_pair_to_bytes32(hi, lo).val = hi * Two128 + lo
  BY <1>1, <1>2, Widths DEF pack_pair_to_bytes32, Ok
<1>4. Two128 \in Nat \ {0} /\ lo \in 0 .. Two128 - 1
  BY <1>1, <1>2, Widths DEF Two128
<1>5. /\ (hi * Two128 + lo) \div Two128 = hi
      /\ (hi * Two128 + lo) % Two128 = lo
  BY <1>1, <1>4, Unpack
<1> QED
  BY <1>1, <1>2, <1>3, <1>5 DEF EPHigh, EPLow

\* What a window word is read as.
ReadWindow(w) ==
    [aggregator |-> w.aggregator,
     valid_until |-> IF w.valid_until = 0 THEN UINT48_MAX ELSE w.valid_until,
     valid_after |-> w.valid_after]

WindowType == [aggregator : 0 .. AddrSpace - 1, valid_until : 0 .. UINT48_MAX,
               valid_after : 0 .. UINT48_MAX]

\* parse_window finds the three fields of the word again.
LEMMA WindowReadBack ==
  ASSUME NEW w \in WindowType
  PROVE  parse_window(PackWindow(w)) = ReadWindow(w)
<1> DEFINE A == AddrSpace
           T == TimeSpace
           g == w.aggregator
           u == w.valid_until
           s == w.valid_after
           word == PackWindow(w)
<1>1. /\ A \in Nat \ {0} /\ T \in Nat \ {0}
      /\ g \in 0 .. A - 1 /\ u \in 0 .. T - 1 /\ s \in 0 .. T - 1
  BY SpaceAssumption DEF WindowType, UINT48_MAX
<1>2. word = g + A * (u + T * s)
  BY DEF PackWindow
<1> HIDE DEF A, T, g, u, s, word
<1>3. word = (s * T + u) * A + g /\ s * T + u \in Nat
  <2> DEFINE v == u + T * s
  <2>1. v \in Nat /\ v = s * T + u
    BY <1>1
  <2>2. word = g + A * v
    BY <1>2
  <2> HIDE DEF v
  <2>3. word = v * A + g
    BY <1>1, <2>1, <2>2
  <2> QED
    BY <2>1, <2>3
<1>4. word \div A = s * T + u /\ word % A = g
  BY <1>1, <1>3, Unpack
<1>5. (word \div A) % T = u
  <2>1. (s * T + u) % T = u
    BY <1>1, Unpack
  <2> QED
    BY <1>4, <2>1
<1>6. A * T \in Nat \ {0} /\ u * A + g \in 0 .. A * T - 1
  <2>1. A * T \in Nat \ {0} /\ u * A + g \in Nat
    BY <1>1
  <2>2. A * u + A <= A * T
    BY <1>1, Multiples
  <2> QED
    BY <1>1, <2>1, <2>2
<1>7. word = s * (A * T) + (u * A + g)
  BY <1>1, <1>3
<1>8. word \div (A * T) = s
  BY <1>1, <1>6, <1>7, Unpack
<1>9. s % T = s
  <2>1. (0 * T + s) % T = s
    BY <1>1, Unpack
  <2> QED
    BY <1>1, <2>1
<1> QED
  BY <1>4, <1>5, <1>8, <1>9 DEF parse_window, ReadWindow, A, T, g, u, s, word

(***************************************************************************)
(* The verdict of `simulate` is the contract's: "Ok" exactly for two open  *)
(* windows without aggregator, and each error names what is wrong.         *)
(***************************************************************************)
LEMMA Verdict ==
  ASSUME NEW a \in WindowType, NEW p \in WindowType, NEW now \in Nat
  PROVE  LET v == simulate(PackWindow(a), PackWindow(p), now)
         IN  /\ v \in ValidationErrors \cup {"Ok"}
             /\ v = "Ok" => /\ a.aggregator = 0 /\ p.aggregator = 0
                            /\ InWindow(a, now) /\ InWindow(p, now)
             /\ v = "AccountSignatureFailed" => a.aggregator = SIG_VALIDATION_FAILED
             /\ v = "PaymasterSignatureFailed" => p.aggregator = SIG_VALIDATION_FAILED
             /\ v = "UnsupportedAggregator" =>
                   a.aggregator > SIG_VALIDATION_FAILED \/ p.aggregator > SIG_VALIDATION_FAILED
             /\ v = "OutOfTimeRange" => ~InWindow(a, now) \/ ~InWindow(p, now)
<1> DEFINE x == ReadWindow(a)
           y == ReadWindow(p)
<1>1. parse_window(PackWindow(a)) = x /\ parse_window(PackWindow(p)) = y
  BY WindowReadBack
<1>2. /\ x.aggregator = a.aggregator /\ y.aggregator = p.aggregator
      /\ a.aggregator \in Nat /\ p.aggregator \in Nat
  BY SpaceAssumption DEF ReadWindow, WindowType
<1>3. /\ is_out_of_time_range(x, now) <=> ~InWindow(a, now)
      /\ is_out_of_time_range(y, now) <=> ~InWindow(p, now)
  BY SpaceAssumption DEF ReadWindow, WindowType, InWindow, is_out_of_time_range, UINT48_MAX
<1> HIDE DEF x, y
<1> QED
  BY <1>1, <1>2, <1>3 DEF simulate, signature_failed, requires_aggregator,
                          SIG_VALIDATION_FAILED, ValidationErrors

-----------------------------------------------------------------------------
\* Packing.

\* The fields of an operation.
LEMMA OpTypes ==
  ASSUME NEW o \in UserOps
  PROVE  /\ o.sender \in U256 /\ o.verification_gas_limit \in U256
         /\ o.call_gas_limit \in U256 /\ o.pre_verification_gas \in U256
         /\ o.max_fee_per_gas \in U256 /\ o.max_priority_fee_per_gas \in U256
         /\ o.paymaster \in U256 /\ o.paymaster_verification_gas_limit \in U256
         /\ o.paymaster_post_op_gas_limit \in U256
         /\ o.paymaster_data \in Cells /\ o.paymaster_and_data \in Cells
         /\ U256 \subseteq Nat
<1>1. o \in UserOpV07
  BY AdmissionAssumption
<1>2. U256 \subseteq Nat
  BY Widths DEF U256
<1> QED
  BY <1>1, <1>2 DEF UserOpV07

\* The three cells of a paymaster header, as the client wrote them.
FieldHeader(o) == <<o.paymaster, o.paymaster_verification_gas_limit,
                    o.paymaster_post_op_gas_limit>>

\* What follows a prefix.
LEMMA AfterPrefix ==
  ASSUME NEW S, NEW h \in Seq(S), NEW d \in Seq(S)
  PROVE  SubSeq(h \o d, Len(h) + 1, Len(h \o d)) = d
<1> DEFINE t == SubSeq(h \o d, Len(h) + 1, Len(h \o d))
<1>1. Len(h) \in Nat /\ Len(d) \in Nat /\ Len(h \o d) = Len(h) + Len(d)
  OBVIOUS
<1>2. t \in Seq(S) /\ Len(t) = Len(d)
  BY <1>1
<1>3. \A i \in 1 .. Len(d) : t[i] = d[i]
  BY <1>1
<1> HIDE DEF t
<1>4. t = d
  BY <1>2, <1>3
<1> QED
  BY <1>4 DEF t

\* A blob is the client's own, empty, or the three fields and the data.
LEMMA BlobShape ==
  ASSUME NEW o \in UserOps, paymaster_and_data(o).ok
  PROVE  LET blob == paymaster_and_data(o).val
         IN  /\ blob \in Cells
             /\ o.paymaster_and_data # <<>> => blob = o.paymaster_and_data
             /\ o.paymaster_and_data = <<>> /\ o.paymaster = 0 => blob = <<>>
             /\ o.paymaster_and_data = <<>> /\ o.paymaster # 0 =>
                   /\ Len(blob) >= 3 /\ SubSeq(blob, 1, 3) = FieldHeader(o)
                   /\ SubSeq(blob, 4, Len(blob)) = o.paymaster_data
<1> DEFINE blob == paymaster_and_data(o).val
<1>0. o.paymaster_and_data \in Cells /\ o.paymaster_data \in Cells
  BY OpTypes
<1>1. CASE o.paymaster_and_data # <<>>
  <2>1. blob = o.paymaster_and_data
    BY <1>1 DEF paymaster_and_data, Ok
  <2> QED
    BY <1>0, <1>1, <2>1
<1>2. CASE o.paymaster_and_data = <<>> /\ o.paymaster = 0
  <2>1. blob = <<>>
    BY <1>2 DEF paymaster_and_data, Ok
  <2>2. <<>> \in Cells
    BY DEF Cells
  <2> QED
    BY <1>2, <2>1, <2>2
<1>3. CASE o.paymaster_and_data = <<>> /\ o.paymaster # 0
  <2> DEFINE v == o.paymaster_verification_gas_limit
             p == o.paymaster_post_op_gas_limit
  <2>1. v \in Nat /\ p \in Nat /\ o.paymaster \in U256 /\ v \in U256 /\ p \in U256
    BY OpTypes
  <2>2. v <= U128Max /\ p <= U128Max
    BY <1>3, <2>1, Widths DEF paymaster_and_data, Err
  <2>3. blob = <<o.paymaster, v % Two128, p % Two128>> \o o.paymaster_data
    BY <1>3, <2>1, <2>2, Widths DEF paymaster_and_data, Ok
  <2>4. v % Two128 = v /\ p % Two128 = p
    <3>1. Two128 \in Nat \ {0} /\ v \in 0 .. Two128 - 1 /\ p \in 0 .. Two128 - 1
      BY <2>1, <2>2, Widths DEF Two128
    <3>2. (0 * Two128 + v) % Two128 = v /\ (0 * Two128 + p) % Two128 = p
      BY <3>1, Unpack
    <3>3. 0 * Two128 + v = v /\ 0 * Two128 + p = p
      BY <2>1, <3>1
    <3> QED
      BY <3>2, <3>3
  <2>5. blob = FieldHeader(o) \o o.paymaster_data
    BY <2>3, <2>4 DEF FieldHeader
  <2>6. FieldHeader(o) \in Seq(U256) /\ Len(FieldHeader(o)) = 3
    BY <2>1 DEF FieldHeader
  <2>7. o.paymaster_data \in Seq(U256) /\ Len(o.paymaster_data) \in Nat
    BY <1>0 DEF Cells
  <2> DEFINE h == FieldHeader(o)
             d == o.paymaster_data
  <2> HIDE DEF h, d
  <2>8. h \o d \in Seq(U256) /\ Len(h \o d) >= 3
    <3>1. h \in Seq(U256) /\ d \in Seq(U256) /\ Len(h) = 3 /\ Len(d) \in Nat
      BY <2>6, <2>7 DEF h, d
    <3>2. h \o d \in Seq(U256)
      BY <3>1, ConcatProperties, Zenon
    <3>3. Len(h \o d) = Len(h) + Len(d)
      BY <2>1, <2>7 DEF h, d, FieldHeader
    <3> QED
      BY <3>1, <3>2, <3>3
  <2>9. SubSeq(h \o d, 1, 3) = h
    <3>1. h \in Seq(U256) /\ d \in Seq(U256) /\ Len(h) = 3
      BY <2>6, <2>7 DEF h, d
    <3>2. 1 \in 1 .. Len(h) /\ 3 \in 1 .. Len(h)
      BY <3>1
    <3>3. SubSeq(h \o d, 1, 3) = SubSeq(h, 1, 3)
      BY <3>1, <3>2, SubSeqOfConcat1, Zenon
    <3>4. SubSeq(h, 1, Len(h)) = h
      BY <3>1, SubSeqFull, Zenon
    <3> QED
      BY <3>1, <3>3, <3>4
  <2>10. SubSeq(h \o d, 4, Len(h \o d)) = d
    <3>1. h \in Seq(U256) /\ d \in Seq(U256) /\ Len(h) + 1 = 4
      BY <2>6, <2>7 DEF h, d
    <3>2. SubSeq(h \o d, Len(h) + 1, Len(h \o d)) = d
      BY <3>1, AfterPrefix, Zenon
    <3> QED
      BY <3>1, <3>2
  <2> QED
    BY <1>3, <2>5, <2>8, <2>9, <2>10 DEF h, d, Cells
<1> QED
  BY <1>1, <1>2, <1>3

\* An operation packs exactly when its blob and its two words do.
LEMMA PackParts ==
  ASSUME NEW o \in UserOps
  PROVE  LET limits == pack_pair_to_bytes32(o.verification_gas_limit, o.call_gas_limit)
             caps == pack_pair_to_bytes32(o.max_priority_fee_per_gas, o.max_fee_per_gas)
         IN  /\ ~pack(o).ok => pack(o).err = "Pack"
             /\ pack(o).ok \in BOOLEAN
             /\ pack(o).ok =>
                   /\ paymaster_and_data(o).ok /\ limits.ok /\ caps.ok
                   /\ pack(o).val.sender = o.sender
                   /\ pack(o).val.opaque = o.opaque
                   /\ pack(o).val.initCode = init_code(o)
                   /\ pack(o).val.accountGasLimits = limits.val
                   /\ pack(o).val.preVerificationGas = o.pre_verification_gas
                   /\ pack(o).val.gasFees = caps.val
                   /\ pack(o).val.paymasterAndData = paymaster_and_data(o).val
<1> DEFINE blob == paymaster_and_data(o)
           limits == pack_pair_to_bytes32(o.verification_gas_limit, o.call_gas_limit)
           caps == pack_pair_to_bytes32(o.max_priority_fee_per_gas, o.max_fee_per_gas)
<1>1. CASE blob.ok /\ limits.ok /\ caps.ok
  <2>1. pack(o) = Ok([sender |-> o.sender, opaque |-> o.opaque,
                      initCode |-> init_code(o), accountGasLimits |-> limits.val,
                      preVerificationGas |-> o.pre_verification_gas,
                      gasFees |-> caps.val, paymasterAndData |-> blob.val])
    BY <1>1 DEF pack
  <2> HIDE DEF blob, limits, caps
  <2>2. /\ pack(o).ok = TRUE
        /\ pack(o).val.sender = o.sender
        /\ pack(o).val.opaque = o.opaque
        /\ pack(o).val.initCode = init_code(o)
        /\ pack(o).val.accountGasLimits = limits.val
        /\ pack(o).val.preVerificationGas = o.pre_verification_gas
        /\ pack(o).val.gasFees = caps.val
        /\ pack(o).val.paymasterAndData = blob.val
    BY <2>1 DEF Ok
  <2> QED
    BY <1>1, <2>2 DEF blob, limits, caps
<1>2. CASE ~(blob.ok /\ limits.ok /\ caps.ok)
  <2>1. pack(o) = Err("Pack")
    BY <1>2 DEF pack
  <2>2. Err("Pack").ok = FALSE /\ Err("Pack").err = "Pack"
    BY DEF Err
  <2> QED
    BY <2>1, <2>2
<1> QED
  BY <1>1, <1>2

\* What the EntryPoint reads of a packed operation.
LEMMA PackedFields ==
  ASSUME NEW o \in UserOps, pack(o).ok
  PROVE  LET p == pack(o).val
         IN  /\ p.sender = o.sender /\ p.opaque = o.opaque
             /\ p.initCode = init_code(o)
             /\ p.preVerificationGas = o.pre_verification_gas
             /\ EPHigh(p.accountGasLimits) = o.verification_gas_limit
             /\ EPLow(p.accountGasLimits) = o.call_gas_limit
             /\ EPHigh(p.gasFees) = o.max_priority_fee_per_gas
             /\ EPLow(p.gasFees) = o.max_fee_per_gas
             /\ paymaster_and_data(o).ok
             /\ p.paymasterAndData = paymaster_and_data(o).val
<1>1. /\ o.verification_gas_limit \in U256 /\ o.call_gas_limit \in U256
      /\ o.max_priority_fee_per_gas \in U256 /\ o.max_fee_per_gas \in U256
  BY OpTypes
<1> QED
  BY <1>1, PackParts, PairReadBack

\* The blob passes parse_paymaster_and_data.
Parses(o) == parse_paymaster_and_data(pack(o).val.paymasterAndData).ok

\* The header parse_paymaster_and_data returns.
Header(o) == parse_paymaster_and_data(pack(o).val.paymasterAndData).val

\* What CheckOp establishes about the form of an operation.
Admissible(o) == pack(o).ok /\ Parses(o)

\* The code and the EntryPoint read the same paymaster header.
LEMMA HeaderRead ==
  ASSUME NEW o \in UserOps, Admissible(o)
  PROVE  LET p == pack(o).val
             h == Header(o)
         IN  /\ h = EPPaymasterHeader(p)
             /\ h[1] \in Nat /\ h[2] \in Nat /\ h[3] \in Nat
             /\ p.paymasterAndData = <<>> => h = <<0, 0, 0>>
             /\ p.paymasterAndData # <<>> => h[1] = p.paymasterAndData[1]
             /\ o.paymaster_and_data = <<>> /\ o.paymaster # 0 => h = FieldHeader(o)
<1> DEFINE blob == pack(o).val.paymasterAndData
           h == Header(o)
<1>1. blob = paymaster_and_data(o).val /\ paymaster_and_data(o).ok
  BY PackedFields DEF Admissible
<1>2. /\ blob \in Seq(U256)
      /\ o.paymaster_and_data = <<>> /\ o.paymaster # 0 =>
             Len(blob) >= 3 /\ SubSeq(blob, 1, 3) = FieldHeader(o)
  BY <1>1, BlobShape DEF Cells
<1>3. parse_paymaster_and_data(blob).ok /\ h = parse_paymaster_and_data(blob).val
  BY DEF Admissible, Parses, Header
<1>4. EPPaymasterHeader(pack(o).val) =
          IF blob = <<>> THEN <<0, 0, 0>> ELSE SubSeq(blob, 1, 3)
  BY DEF EPPaymasterHeader, PAYMASTER_HEADER_LEN
<1> HIDE DEF blob, h
<1>5. CASE blob = <<>>
  <2>1. Len(blob) = 0
    BY <1>5
  <2>2. h = <<0, 0, 0>>
    BY <1>3, <2>1 DEF parse_paymaster_and_data, Ok
  <2> QED
    BY <1>2, <1>4, <1>5, <2>1, <2>2 DEF blob, h
<1>6. CASE blob # <<>>
  <2>1. Len(blob) \in Nat /\ Len(blob) # 0
    BY <1>2, <1>6
  <2>2. Len(blob) \notin 1 .. 2
    <3>1. Err("Pack").ok = FALSE
      BY DEF Err
    <3>2. Len(blob) \in 1 .. 3 - 1 => parse_paymaster_and_data(blob) = Err("Pack")
      BY <2>1 DEF parse_paymaster_and_data, PAYMASTER_HEADER_LEN
    <3> QED
      BY <1>3, <3>1, <3>2
  <2>3. Len(blob) >= 3
    <3>1. \A n \in Nat : n # 0 /\ n \notin 1 .. 2 => n >= 3
      OBVIOUS
    <3> QED
      BY <2>1, <2>2, <3>1, Zenon
  <2>4. h = SubSeq(blob, 1, 3)
    <3>1. parse_paymaster_and_data(blob) = Ok(SubSeq(blob, 1, 3))
      BY <2>1, <2>2 DEF parse_paymaster_and_data, PAYMASTER_HEADER_LEN
    <3> QED
      BY <1>3, <3>1 DEF Ok
  <2>5. /\ SubSeq(blob, 1, 3)[1] = blob[1]
        /\ SubSeq(blob, 1, 3)[2] = blob[2]
        /\ SubSeq(blob, 1, 3)[3] = blob[3]
        /\ blob[1] \in U256 /\ blob[2] \in U256 /\ blob[3] \in U256
    BY <1>2, <2>3
  <2>6. U256 \subseteq Nat
    BY OpTypes
  <2>7. h[1] \in Nat /\ h[2] \in Nat /\ h[3] \in Nat /\ h[1] = blob[1]
    BY <2>4, <2>5, <2>6
  <2> QED
    BY <1>2, <1>4, <1>6, <2>4, <2>7 DEF blob, h
<1> QED
  BY <1>5, <1>6

\* Only a blob the client wrote itself can be too short.
LEMMA ShortBlob ==
  ASSUME NEW o \in UserOps, pack(o).ok, ~Parses(o)
  PROVE  Len(o.paymaster_and_data) \in 1 .. PAYMASTER_HEADER_LEN - 1
<1> DEFINE blob == pack(o).val.paymasterAndData
<1>1. blob = paymaster_and_data(o).val /\ paymaster_and_data(o).ok
  BY PackedFields
<1>2. /\ blob \in Seq(U256)
      /\ o.paymaster_and_data # <<>> => blob = o.paymaster_and_data
      /\ o.paymaster_and_data = <<>> /\ o.paymaster = 0 => blob = <<>>
      /\ o.paymaster_and_data = <<>> /\ o.paymaster # 0 => Len(blob) >= 3
  BY <1>1, BlobShape DEF Cells
<1>3. ~parse_paymaster_and_data(blob).ok
  BY DEF Parses
<1> HIDE DEF blob
<1>4. Len(blob) \in Nat
  BY <1>2
<1>5. Len(blob) \in 1 .. PAYMASTER_HEADER_LEN - 1
  <2>1. Ok(<<0, 0, 0>>).ok = TRUE /\ Ok(SubSeq(blob, 1, PAYMASTER_HEADER_LEN)).ok = TRUE
    BY DEF Ok
  <2> QED
    BY <1>3, <2>1 DEF parse_paymaster_and_data
<1>6. Len(blob) # 0 /\ ~(Len(blob) >= 3)
  <2>1. \A n \in 1 .. PAYMASTER_HEADER_LEN - 1 : n # 0 /\ ~(n >= 3)
    BY DEF PAYMASTER_HEADER_LEN
  <2> QED
    BY <1>5, <2>1, Zenon
<1>7. blob # <<>>
  BY <1>6
<1> QED
  BY <1>2, <1>5, <1>6, <1>7

-----------------------------------------------------------------------------
\* The prefund.

\* A sum of five terms that saturates at every addition, saturates at the end.
LEMMA SaturatedSum ==
  ASSUME NEW a \in Nat, NEW b \in Nat, NEW c \in Nat, NEW d \in Nat, NEW e \in Nat
  PROVE  saturating_add(saturating_add(saturating_add(saturating_add(a, b), c), d), e)
             = min_u256(a + b + c + d + e, U256Max)
  BY Widths DEF saturating_add, min_u256

\* Products are monotone.
LEMMA ProductMonotone ==
  ASSUME NEW a \in Nat, NEW b \in Nat, NEW f \in Nat, a <= b
  PROVE  a * f \in Nat /\ b * f \in Nat /\ a * f <= b * f
<1>1. PICK n \in Nat : b = a + n
  <2>1. b - a \in Nat /\ b = a + (b - a)
    OBVIOUS
  <2> QED
    BY <2>1
<1>2. n * f \in Nat /\ a * f \in Nat /\ b * f = a * f + n * f
  BY <1>1
<1> QED
  BY <1>2

(***************************************************************************)
(* Saturation in the sum and in the product never lets a deposit below the *)
(* saturation value pass that is smaller than the exact product.           *)
(***************************************************************************)
LEMMA SaturationIsSafe ==
  ASSUME NEW s \in Nat, NEW f \in Nat, NEW deposit \in Nat, deposit < U256Max,
         deposit >= saturating_mul(min_u256(s, U256Max), f)
  PROVE  deposit >= s * f
<1> DEFINE t == min_u256(s, U256Max)
<1>1. t \in Nat /\ (t = s \/ t = U256Max)
  BY Widths DEF min_u256
<1>2. t * f \in Nat
  BY <1>1
<1>3. deposit >= saturating_mul(t, f)
  OBVIOUS
<1> HIDE DEF t
<1>4. deposit >= t * f /\ t * f < U256Max
  <2> DEFINE w == t * f
  <2>1. w \in Nat /\ deposit >= min_u256(w, U256Max)
    BY <1>2, <1>3 DEF saturating_mul
  <2> HIDE DEF w
  <2>2. deposit >= w /\ w < U256Max
    BY <2>1, Widths DEF min_u256
  <2> QED
    BY <2>2 DEF w
<1>5. CASE t = s
  BY <1>4, <1>5
<1>6. CASE t = U256Max
  <2>1. f = 0
    <3> SUFFICES ASSUME f # 0 PROVE FALSE
      OBVIOUS
    <3>1. 1 <= f /\ 1 * t <= f * t /\ 1 * t = t /\ f * t = t * f
      BY <1>1, ProductMonotone
    <3> QED
      BY <1>1, <1>2, <1>4, <1>6, <3>1
  <2> QED
    BY <2>1
<1> QED
  BY <1>1, <1>5, <1>6

\* The exact sum of the gas an operation may use, as the EntryPoint counts it.
LEMMA PrefundFormula ==
  ASSUME NEW o \in UserOps, Admissible(o)
  PROVE  EPRequiredPrefund(pack(o).val) =
            ( o.verification_gas_limit + o.call_gas_limit + Header(o)[2] + Header(o)[3]
              + o.pre_verification_gas ) * o.max_fee_per_gas
  BY PackedFields, HeaderRead DEF Admissible, EPRequiredPrefund

(***************************************************************************)
(* check_prefund asks the payer of the EntryPoint, and a deposit it finds  *)
(* too small is too small by the EntryPoint's formula.                     *)
(***************************************************************************)
LEMMA PrefundExact ==
  ASSUME NEW o \in UserOps, Admissible(o), NEW deposit \in Deposits
  PROVE  LET p == pack(o).val
             q == Prefund(o, Header(o))
         IN  /\ q.sponsor = EPPayer(p)
             /\ deposit < q.required => deposit < EPRequiredPrefund(p)
             /\ ~(deposit < q.required) =>
                   \/ deposit >= EPRequiredPrefund(p)
                   \/ p.paymasterAndData # <<>> /\ p.paymasterAndData[1] = 0
<1> DEFINE p == pack(o).val
           h == Header(o)
           v == o.verification_gas_limit
           c == o.call_gas_limit
           e == o.pre_verification_gas
           f == o.max_fee_per_gas
           pm == IF h[1] # 0 THEN h ELSE <<o.sender, 0, 0>>
           s == v + c + pm[2] + pm[3] + e
           S == v + c + h[2] + h[3] + e
<1>1. /\ h = EPPaymasterHeader(p)
      /\ h[1] \in Nat /\ h[2] \in Nat /\ h[3] \in Nat
      /\ p.paymasterAndData = <<>> => h = <<0, 0, 0>>
      /\ p.paymasterAndData # <<>> => h[1] = p.paymasterAndData[1]
  BY HeaderRead
<1>2. v \in Nat /\ c \in Nat /\ e \in Nat /\ f \in Nat
  BY OpTypes
<1>3. EPRequiredPrefund(p) = S * f /\ p.sender = o.sender
  BY PrefundFormula, PackedFields DEF Admissible
<1>4. deposit \in Nat /\ deposit < U256Max
  BY AdmissionAssumption, Widths
<1>5. Prefund(o, h) = [sponsor |-> pm[1],
                       required |-> saturating_mul(saturating_add(saturating_add(
                           saturating_add(saturating_add(v, c), pm[2]), pm[3]), e), f)]
  BY DEF Prefund
<1>6. Prefund(o, h).sponsor = EPPayer(p)
  BY <1>1, <1>3, <1>5 DEF EPPayer
<1> HIDE DEF h, v, c, e, f, p
<1>7. /\ pm[2] \in Nat /\ pm[3] \in Nat
      /\ h[1] # 0 => pm[2] = h[2] /\ pm[3] = h[3]
      /\ h[1] = 0 => pm[2] = 0 /\ pm[3] = 0
  BY <1>1
<1> HIDE DEF pm
<1>8. Prefund(o, h).required = saturating_mul(min_u256(s, U256Max), f)
  <2>1. saturating_add(saturating_add(saturating_add(saturating_add(v, c), pm[2]),
            pm[3]), e) = min_u256(s, U256Max)
    <3> DEFINE a == pm[2]
               b == pm[3]
    <3>1. a \in Nat /\ b \in Nat /\ s = v + c + a + b + e
      BY <1>7
    <3> HIDE DEF a, b, s
    <3>2. saturating_add(saturating_add(saturating_add(saturating_add(v, c), a), b), e)
              = min_u256(v + c + a + b + e, U256Max)
      BY <1>2, <3>1, SaturatedSum
    <3> QED
      BY <3>1, <3>2 DEF a, b
  <2> HIDE DEF s
  <2> QED
    BY <1>5, <2>1
<1>9. /\ s \in Nat /\ S \in Nat /\ s <= S
      /\ p.paymasterAndData = <<>> \/ h[1] # 0 => s = S
  <2>1. /\ pm[2] <= h[2] /\ pm[3] <= h[3]
        /\ p.paymasterAndData = <<>> \/ h[1] # 0 => pm[2] = h[2] /\ pm[3] = h[3]
    <3>1. p.paymasterAndData = <<>> => h[1] = 0 /\ h[2] = 0 /\ h[3] = 0
      BY <1>1
    <3> QED
      BY <1>1, <1>7, <3>1
  <2> DEFINE a == pm[2]
             b == pm[3]
             A == h[2]
             B == h[3]
  <2>2. /\ a \in Nat /\ b \in Nat /\ A \in Nat /\ B \in Nat /\ a <= A /\ b <= B
        /\ p.paymasterAndData = <<>> \/ h[1] # 0 => a = A /\ b = B
    BY <1>1, <1>7, <2>1
  <2>3. s = v + c + a + b + e /\ S = v + c + A + B + e
    OBVIOUS
  <2> HIDE DEF a, b, A, B, s, S
  <2> QED
    BY <1>2, <2>2, <2>3
<1> HIDE DEF s, S
<1>10. deposit < Prefund(o, h).required => deposit < EPRequiredPrefund(p)
  <2> DEFINE t == min_u256(s, U256Max)
  <2>1. t \in Nat /\ t <= S
    BY <1>9, Widths DEF min_u256
  <2>2. t * f \in Nat /\ S * f \in Nat /\ t * f <= S * f
    BY <1>2, <1>9, <2>1, ProductMonotone
  <2>3. Prefund(o, h).required = min_u256(t * f, U256Max)
    BY <1>8 DEF saturating_mul
  <2> DEFINE x == t * f
             y == S * f
  <2>4. x \in Nat /\ y \in Nat /\ x <= y /\ EPRequiredPrefund(p) = y
        /\ Prefund(o, h).required = min_u256(x, U256Max)
    BY <1>3, <2>2, <2>3
  <2> HIDE DEF t, x, y
  <2> QED
    BY <1>4, <2>4, Widths DEF min_u256
<1>11. ASSUME ~(deposit < Prefund(o, h).required)
       PROVE  \/ deposit >= EPRequiredPrefund(p)
              \/ p.paymasterAndData # <<>> /\ p.paymasterAndData[1] = 0
  <2>1. deposit >= saturating_mul(min_u256(s, U256Max), f)
    <3>1. min_u256(s, U256Max) \in Nat
      BY <1>9, Widths DEF min_u256
    <3>2. min_u256(s, U256Max) * f \in Nat
      BY <1>2, <3>1
    <3>3. saturating_mul(min_u256(s, U256Max), f) \in Nat
      BY <3>2, Widths DEF saturating_mul, min_u256
    <3> QED
      BY <1>4, <1>8, <1>11, <3>3
  <2>2. deposit >= s * f
    BY <1>2, <1>4, <1>9, <2>1, SaturationIsSafe
  <2> QED
    BY <1>1, <1>3, <1>9, <2>2
<1> QED
  BY <1>6, <1>10, <1>11 DEF p, h

\* The gas limit is a u64.
LEMMA GasType ==
  ASSUME NEW e \in 0 .. U64Max
  PROVE  GasWithMargin(e) \in 0 .. U64Max
<1> DEFINE w == e + ((e * GasMarginPct) % (U64Max + 1)) \div 100
<1>1. e \in Nat /\ U64Max \in Nat /\ GasMarginPct \in Nat
  BY GasMarginAssumption
<1>2. (e * GasMarginPct) % (U64Max + 1) \in Nat
  BY <1>1
<1>3. ((e * GasMarginPct) % (U64Max + 1)) \div 100 \in Nat
  <2> DEFINE m == (e * GasMarginPct) % (U64Max + 1)
  <2>1. m \in Nat
    BY <1>2
  <2> HIDE DEF m
  <2>2. m \div 100 \in Nat
    BY <2>1
  <2> QED
    BY <2>2 DEF m
<1>4. w \in Nat
  BY <1>1, <1>3
<1>5. GasWithMargin(e) = saturating_u64(w)
  BY DEF GasWithMargin
<1> HIDE DEF w
<1> QED
  BY <1>1, <1>4, <1>5 DEF saturating_u64

-----------------------------------------------------------------------------
\* The invariant of the loop.

\* What the node answers about an operation.
Answers == [sponsor : Nat, deposit : Deposits,
            windows : {<<>>} \cup (Windows \X Windows)]

\* The prefund check passed for operation o with answer a.
Covered(o, a) ==
    /\ a.sponsor = EPPayer(pack(o).val)
    /\ \/ a.deposit >= EPRequiredPrefund(pack(o).val)
       \/ /\ pack(o).val.paymasterAndData # <<>>
          /\ pack(o).val.paymasterAndData[1] = 0

\* simulate said "Ok" to the two windows of answer a.
Judged(a, now) ==
    \E account, paymaster \in Windows :
        /\ a.windows = <<account, paymaster>>
        /\ simulate(PackWindow(account), PackWindow(paymaster), now) = "Ok"

Prelude == {"sanity", "base_fee", "max_priority_fee"}

\* One answer per collected operation, and one for the operation in hand.
ChecksShape ==
    /\ asked \in Seq(Answers)
    /\ user_op_hashes = packed_ops
    /\ now_unix \in Nat
    /\ pc \in Prelude => Len(packed_ops) = 0
    /\ pc \in Prelude \cup {"check_op", "balance_of", "estimate_gas", "admitted"} =>
          Len(asked) = Len(packed_ops)
    /\ pc \in {"simulate_validation", "user_op_hash"} =>
          Len(asked) = Len(packed_ops) + 1
    /\ Len(asked) >= Len(packed_ops)
    /\ pc \notin {"sanity", "failed"} => Len(ops) <= MaxBatchSize

\* Operation o passed every check with answer a.
Passed(o, p, a) ==
    /\ Admissible(o) /\ p = pack(o).val
    /\ Covered(o, a) /\ Judged(a, now_unix)

\* Every collected operation passed; the one in hand passed the checks behind it.
ChecksDone ==
    \A j \in 1 .. Len(packed_ops) : Passed(ops[j], packed_ops[j], asked[j])

ChecksInHand ==
    LET k == Len(packed_ops) + 1
    IN  /\ pc \in {"balance_of", "simulate_validation", "user_op_hash"} =>
              Admissible(ops[k])
        /\ pc \in {"simulate_validation", "user_op_hash"} => Covered(ops[k], asked[k])
        /\ pc = "user_op_hash" => Judged(asked[k], now_unix)

\* The fee cap collected so far is that of some operation.
CapOfSome ==
    \A c \in min_user_fee_cap :
        \E j \in 1 .. Len(packed_ops) : c = ops[j].max_fee_per_gas

\* The operation in hand.
Hand == Len(packed_ops) + 1

\* What a parameter error says of the request.
BadParams ==
    \/ ~chain_ok \/ Len(ops) \notin 1 .. MaxBatchSize
    \/ /\ Hand <= Len(ops)
       /\ \/ check_per_op_fees(ops[Hand], base_fee) # "Ok"
          \/ ~pack(ops[Hand]).ok
          \/ Len(ops[Hand].paymaster_and_data) \in 1 .. PAYMASTER_HEADER_LEN - 1
    \/ /\ Hand > Len(ops)
       /\ \E j \in 1 .. Len(ops) :
             ops[j].max_fee_per_gas < base_fee + max_u256(MinPriorityFee, suggested_tip)

\* What each variant says of the operation in hand.
ErrorMeans ==
    LET a == asked[Hand]
    IN  /\ error.op \in {0, Hand}
        /\ error.kind \in ParamErrors => BadParams
        /\ error.kind = "InsufficientDeposit" =>
              /\ error.op = Hand
              /\ a.sponsor = EPPayer(pack(ops[Hand]).val)
              /\ a.deposit < EPRequiredPrefund(pack(ops[Hand]).val)
        /\ error.kind = "AccountSignatureFailed" =>
              a.windows[1].aggregator = SIG_VALIDATION_FAILED
        /\ error.kind = "PaymasterSignatureFailed" =>
              a.windows[2].aggregator = SIG_VALIDATION_FAILED
        /\ error.kind = "UnsupportedAggregator" =>
              \E i \in 1 .. 2 : a.windows[i].aggregator > SIG_VALIDATION_FAILED
        /\ error.kind = "OutOfTimeRange" =>
              \E i \in 1 .. 2 : ~InWindow(a.windows[i], now_unix)

ErrorTruth == pc = "failed" => error.kind \in BuildErrors /\ ErrorMeans

\* The inductive invariant.
ChecksInv ==
    /\ FeeInv /\ AdmissionTypeOK
    /\ ChecksShape /\ ChecksDone /\ ChecksInHand /\ CapOfSome
    /\ ErrorTruth

-----------------------------------------------------------------------------
\* The invariant gives the properties.

\* -32602 stands for the errors of the request itself.
LEMMA CodeOf ==
  ASSUME NEW e \in BuildErrors, classify(e) = INVALID_PARAMS
  PROVE  e \in ParamErrors
<1> SUFFICES ASSUME e \notin ParamErrors PROVE FALSE
  OBVIOUS
<1>1. e \in ValidationErrors \cup {"InsufficientDeposit", "Provider"}
  BY DEF BuildErrors
<1>2. classify(e) \in {SIMULATE_VALIDATION_REJECTED, PAYMASTER_REJECTED,
                       OUT_OF_TIME_RANGE, ACCOUNT_VALIDATION_REVERTED, INTERNAL_ERROR}
  BY <1>1 DEF classify, ValidationErrors, ParamErrors
<1> QED
  BY <1>2 DEF INVALID_PARAMS, SIMULATE_VALIDATION_REJECTED, PAYMASTER_REJECTED,
              OUT_OF_TIME_RANGE, ACCOUNT_VALIDATION_REVERTED, INTERNAL_ERROR

\* Rejections: every variant keeps its word, and -32602 stands for its variants.
LEMMA RejectionsFromInv == ChecksInv => RejectionsAreTrue
<1> SUFFICES ASSUME ChecksInv, pc = "failed" PROVE RejectionsAreTrue
  BY DEF RejectionsAreTrue
<1>1. error.kind \in BuildErrors /\ ErrorMeans
  BY DEF ChecksInv, ErrorTruth
<1>2. classify(error.kind) = INVALID_PARAMS => BadParams
  BY <1>1, CodeOf DEF ErrorMeans
<1> QED
  BY <1>1, <1>2 DEF RejectionsAreTrue, ErrorMeans, BadParams, Hand

\* Packing: the loop packed every operation, and packing loses nothing.
LEMMA PackedFromInv == ChecksInv => PackedFaithful
<1> SUFFICES ASSUME ChecksInv, pc \in {"estimate_gas", "admitted"}
             PROVE  PackedFaithful
  BY DEF PackedFaithful
<1>1. Len(packed_ops) = Len(ops) /\ user_op_hashes = packed_ops /\ ops \in Seq(UserOps)
  BY DEF ChecksInv, FeeInv, FeeTypes, LoopInv, ChecksShape
<1>2. ASSUME NEW j \in 1 .. Len(ops)
      PROVE  LET p == packed_ops[j]
                 o == ops[j]
             IN  /\ p.sender = o.sender /\ p.opaque = o.opaque
                 /\ InitCodeFaithful(p, o)
                 /\ EPHigh(p.accountGasLimits) = o.verification_gas_limit
                 /\ EPLow(p.accountGasLimits) = o.call_gas_limit
                 /\ p.preVerificationGas = o.pre_verification_gas
                 /\ EPHigh(p.gasFees) = o.max_priority_fee_per_gas
                 /\ EPLow(p.gasFees) = o.max_fee_per_gas
                 /\ PaymasterFaithful(p, o)
  <2> DEFINE o == ops[j]
             p == packed_ops[j]
  <2>1. o \in UserOps /\ Admissible(o) /\ p = pack(o).val
    BY <1>1 DEF ChecksInv, ChecksDone, Passed
  <2> HIDE DEF o, p
  <2>2. /\ p.sender = o.sender /\ p.opaque = o.opaque /\ p.initCode = init_code(o)
        /\ EPHigh(p.accountGasLimits) = o.verification_gas_limit
        /\ EPLow(p.accountGasLimits) = o.call_gas_limit
        /\ p.preVerificationGas = o.pre_verification_gas
        /\ EPHigh(p.gasFees) = o.max_priority_fee_per_gas
        /\ EPLow(p.gasFees) = o.max_fee_per_gas
        /\ paymaster_and_data(o).ok
        /\ p.paymasterAndData = paymaster_and_data(o).val
    BY <2>1, PackedFields DEF Admissible
  <2>3. InitCodeFaithful(p, o)
    BY <2>2 DEF InitCodeFaithful, init_code
  <2>4. o.paymaster_and_data = <<>> /\ o.paymaster # 0 =>
            EPPaymasterHeader(p) = FieldHeader(o)
    BY <2>1, HeaderRead
  <2>5. PaymasterFaithful(p, o)
    BY <2>1, <2>2, <2>4, BlobShape
       DEF PaymasterFaithful, FieldHeader, EPPaymasterData, PAYMASTER_HEADER_LEN
  <2> QED
    BY <2>2, <2>3, <2>5 DEF o, p
<1> QED
  BY <1>1, <1>2 DEF PackedFaithful

\* Prefund: what was covered when it was asked is what the EntryPoint will read.
LEMMA PrefundFromInv == ChecksInv => PrefundCovered
  BY DEF ChecksInv, ChecksDone, Passed, Covered, PrefundCovered

\* Windows: simulate's "Ok" means what the contracts mean.
LEMMA WindowsFromInv == ChecksInv => WindowsHonoured
<1> SUFFICES ASSUME ChecksInv, NEW j \in 1 .. Len(packed_ops), NEW k \in 1 .. 2
             PROVE  LET w == asked[j].windows[k]
                    IN  w.aggregator = 0 /\ InWindow(w, now_unix)
  BY DEF WindowsHonoured
<1>1. PICK a \in Windows, p \in Windows :
         /\ asked[j].windows = <<a, p>>
         /\ simulate(PackWindow(a), PackWindow(p), now_unix) = "Ok"
  BY DEF ChecksInv, ChecksDone, Passed, Judged
<1>2. a \in WindowType /\ p \in WindowType /\ now_unix \in Nat
  BY AdmissionAssumption DEF WindowType, ChecksInv, ChecksShape
<1>3. /\ a.aggregator = 0 /\ p.aggregator = 0
      /\ InWindow(a, now_unix) /\ InWindow(p, now_unix)
  BY <1>1, <1>2, Verdict
<1>4. k = 1 \/ k = 2
  OBVIOUS
<1>5. asked[j].windows[1] = a /\ asked[j].windows[2] = p
  BY <1>1
<1> QED
  BY <1>3, <1>4, <1>5

-----------------------------------------------------------------------------
\* The steps preserve the invariant.

\* The initial states satisfy it.
LEMMA InitChecksInv == AdmissionInit => ChecksInv
<1> SUFFICES ASSUME AdmissionInit PROVE ChecksInv
  OBVIOUS
<1>1. FeeInv
  BY InitFeeInv
<1>2. /\ ops \in Seq(UserOps) /\ Len(ops) \in Nat
      /\ packed_ops = <<>> /\ Len(packed_ops) = 0 /\ user_op_hashes = <<>>
      /\ asked = <<>> /\ asked \in Seq(Answers) /\ Len(asked) = 0
      /\ pc = "sanity" /\ min_user_tip = {} /\ min_user_fee_cap = {}
  BY <1>1 DEF FeeInv, FeeTypes, AdmissionInit
<1>3. AdmissionTypeOK
  <2>1. error.kind = "none" /\ error.op = 0
    BY DEF AdmissionInit, NoError
  <2>2. U256Max \in Nat /\ U64Max \in Nat /\ MaxBatchSize \in Nat
    BY Widths, GasMarginAssumption, AdmissionAssumption
  <2>3. 0 \in 0 .. U256Max /\ 0 \in 0 .. U64Max /\ 0 \in 0 .. Len(ops)
    BY <1>2, <2>2
  <2>4. fees \in [tip : 0 .. U256Max, fee_cap : 0 .. U256Max]
    BY <2>3 DEF AdmissionInit
  <2> QED
    BY <1>2, <2>1, <2>2, <2>3, <2>4 DEF AdmissionInit, AdmissionTypeOK
<1>4. ChecksShape /\ ChecksDone
  BY <1>2 DEF AdmissionInit, ChecksShape, ChecksDone, Prelude
<1>5. ChecksInHand /\ CapOfSome /\ ErrorTruth
  BY <1>2 DEF ChecksInHand, CapOfSome, ErrorTruth
<1> QED
  BY <1>1, <1>3, <1>4, <1>5 DEF ChecksInv

\* The operation in the loop.
LEMMA InLoop ==
  ASSUME ChecksInv, pc \in LoopPCs
  PROVE  LET k == Len(packed_ops) + 1
         IN  /\ Index = k /\ Op = ops[k] /\ ops[k] \in UserOps
             /\ k \in 1 .. Len(ops) /\ Len(packed_ops) \in Nat /\ Len(ops) \in Nat
<1>1. /\ ops \in Seq(UserOps) /\ Len(packed_ops) \in Nat /\ Len(ops) \in Nat
      /\ Len(packed_ops) < Len(ops)
  BY DEF ChecksInv, FeeInv, FeeTypes, LoopInv
<1>2. Index = Len(packed_ops) + 1
  BY DEF Index, LoopPCs
<1> QED
  BY <1>1, <1>2 DEF Op

\* A block, or a step that changes nothing.
LEMMA NodeStep ==
  ASSUME ChecksInv, FeeInv', NodeMoves \/ UNCHANGED adm_vars
  PROVE  ChecksInv'
<1>1. UNCHANGED <<ops, chain_ok, pc, base_fee, suggested_tip, now_unix, packed_ops,
                  user_op_hashes, min_user_tip, min_user_fee_cap, gas, fees, error,
                  asked>>
  BY DEF NodeMoves, request, snapshot, collected, outer, adm_vars
<1>2. AdmissionTypeOK' /\ ChecksShape'
  BY <1>1 DEF ChecksInv, AdmissionTypeOK, ChecksShape
<1>3. ChecksDone' /\ ChecksInHand'
  BY <1>1 DEF ChecksInv, ChecksDone, ChecksInHand, Passed, Covered, Judged
<1>4. CapOfSome'
  BY <1>1 DEF ChecksInv, CapOfSome
<1>5. ErrorTruth'
  BY <1>1 DEF ChecksInv, ErrorTruth, ErrorMeans, BadParams, Hand, InWindow
<1> QED
  BY <1>2, <1>3, <1>4, <1>5 DEF ChecksInv

\* The request fails: what it collected stays, and the error tells the truth.
LEMMA FailStep ==
  ASSUME ChecksInv, FeeInv', pc' = "failed",
         UNCHANGED <<ops, chain_ok, base_fee, suggested_tip, now_unix, packed_ops,
                     user_op_hashes, min_user_tip, min_user_fee_cap, fees>>,
         gas' \in 0 .. U64Max,
         asked' \in Seq(Answers), Len(asked') >= Len(packed_ops),
         \A j \in 1 .. Len(packed_ops) : asked'[j] = asked[j],
         error'.kind \in BuildErrors, error'.op \in 0 .. Len(ops), ErrorMeans'
  PROVE  ChecksInv'
<1>1. AdmissionTypeOK'
  BY DEF ChecksInv, AdmissionTypeOK
<1>2. ChecksShape'
  BY DEF ChecksInv, ChecksShape, Prelude
<1>3. ChecksDone'
  <2> SUFFICES ASSUME NEW j \in 1 .. Len(packed_ops)
               PROVE  Passed(ops[j], packed_ops[j], asked[j])'
    BY DEF ChecksDone
  <2>1. Passed(ops[j], packed_ops[j], asked[j])
    BY DEF ChecksInv, ChecksDone
  <2>2. asked'[j] = asked[j]
    OBVIOUS
  <2> QED
    BY <2>1, <2>2 DEF Passed, Covered, Judged
<1>4. ChecksInHand' /\ CapOfSome' /\ ErrorTruth'
  BY DEF ChecksInv, ChecksInHand, CapOfSome, ErrorTruth
<1> QED
  BY <1>1, <1>2, <1>3, <1>4 DEF ChecksInv

\* A step that only moves on: before the loop, or to the prefund of an operation.
LEMMA MoveOn ==
  ASSUME ChecksInv, FeeInv',
         UNCHANGED <<ops, packed_ops, user_op_hashes, min_user_tip, min_user_fee_cap,
                     gas, fees, error, asked>>,
         base_fee' \in 0 .. U256Max, suggested_tip' \in 0 .. U256Max,
         now_unix' \in Nat, now_unix' = now_unix \/ Len(packed_ops) = 0,
         Len(ops) <= MaxBatchSize,
         pc \in Prelude \cup {"check_op"},
         pc' \in {"base_fee", "max_priority_fee", "check_op", "balance_of"},
         pc' \in Prelude => Len(packed_ops) = 0,
         pc' = "balance_of" => Admissible(ops[Len(packed_ops) + 1])
  PROVE  ChecksInv'
<1>1. AdmissionTypeOK'
  BY DEF ChecksInv, AdmissionTypeOK, Calls
<1>2. ChecksShape'
  BY DEF ChecksInv, ChecksShape, Prelude
<1>3. ChecksDone'
  <2>1. CASE now_unix' = now_unix
    BY <2>1 DEF ChecksInv, ChecksDone, Passed, Covered, Judged
  <2>2. CASE Len(packed_ops) = 0
    BY <2>2 DEF ChecksDone
  <2> QED
    BY <2>1, <2>2
<1>4. ChecksInHand'
  BY DEF ChecksInHand, Admissible, Parses
<1>5. CapOfSome'
  BY DEF ChecksInv, CapOfSome
<1>6. ErrorTruth'
  BY DEF ErrorTruth
<1> QED
  BY <1>1, <1>2, <1>3, <1>4, <1>5, <1>6 DEF ChecksInv

\* An error of the provider is answered with the internal code.
LEMMA ProviderFails ==
  ASSUME ChecksInv, FeeInv', CallFails \/ SimulateReverts
  PROVE  ChecksInv'
<1>1. /\ pc' = "failed" /\ error'.kind = "Provider" /\ error'.op = 0
      /\ UNCHANGED <<ops, chain_ok, base_fee, suggested_tip, now_unix, packed_ops,
                     user_op_hashes, min_user_tip, min_user_fee_cap, gas, fees, asked>>
  BY DEF CallFails, SimulateReverts, Fail, IndexedErrors, request, snapshot, collected,
         outer
<1>2. error'.op \in 0 .. Len(ops)
  BY <1>1 DEF ChecksInv, FeeInv, FeeTypes
<1>3. gas' \in 0 .. U64Max /\ asked' \in Seq(Answers) /\ Len(asked') >= Len(packed_ops)
  BY <1>1 DEF ChecksInv, AdmissionTypeOK, ChecksShape
<1>4. error'.kind \in BuildErrors /\ ErrorMeans'
  BY <1>1 DEF BuildErrors, ErrorMeans, ParamErrors
<1> QED
  BY <1>1, <1>2, <1>3, <1>4, FailStep

\* Chain id and batch size.
LEMMA SanityStep ==
  ASSUME ChecksInv, FeeInv', Sanity
  PROVE  ChecksInv'
<1>1. /\ pc = "sanity" /\ Index = 0
      /\ UNCHANGED <<ops, chain_ok, base_fee, suggested_tip, now_unix, packed_ops,
                     user_op_hashes, min_user_tip, min_user_fee_cap, gas, fees, asked>>
  BY DEF Sanity, Index, request, snapshot, collected, outer
<1>2. /\ gas' \in 0 .. U64Max /\ asked' \in Seq(Answers) /\ Len(asked') >= Len(packed_ops)
      /\ Len(packed_ops) = 0 /\ Len(ops) \in Nat /\ MaxBatchSize \in Nat
      /\ base_fee' \in 0 .. U256Max /\ suggested_tip' \in 0 .. U256Max /\ now_unix' \in Nat
  BY <1>1, AdmissionAssumption
     DEF ChecksInv, AdmissionTypeOK, ChecksShape, FeeInv, FeeTypes, Prelude
<1>3. CASE pc' = "failed"
  <2>1. /\ error'.kind \in {"WrongChainId", "InvalidBatch", "BatchTooLarge"}
        /\ error'.op = 0
        /\ ~chain_ok \/ Len(ops) = 0 \/ Len(ops) > MaxBatchSize
    BY <1>1, <1>3 DEF Sanity, Step, Fail, IndexedErrors
  <2>2. ~chain_ok' \/ Len(ops') \notin 1 .. MaxBatchSize
    BY <1>1, <1>2, <2>1
  <2>3. BadParams'
    BY <2>2 DEF BadParams
  <2>4. error'.kind \in BuildErrors /\ ErrorMeans'
    BY <2>1, <2>3 DEF BuildErrors, ErrorMeans, ParamErrors
  <2>5. error'.op \in 0 .. Len(ops)
    BY <1>2, <2>1
  <2> QED
    BY <1>1, <1>2, <1>3, <2>4, <2>5, FailStep
<1>4. CASE pc' # "failed"
  <2>1. pc' = "base_fee" /\ UNCHANGED error /\ Len(ops) <= MaxBatchSize
    BY <1>2, <1>4 DEF Sanity, Step, Fail
  <2> QED
    BY <1>1, <1>2, <2>1, MoveOn DEF Prelude
<1> QED
  BY <1>3, <1>4

\* The snapshot of the fees and the clock.
LEMMA SnapshotStep ==
  ASSUME ChecksInv, FeeInv', ReadBaseFee \/ ReadTip
  PROVE  ChecksInv'
<1>1. /\ UNCHANGED <<ops, packed_ops, user_op_hashes, min_user_tip, min_user_fee_cap,
                     gas, fees, error, asked>>
      /\ pc \in {"base_fee", "max_priority_fee"} /\ pc' \in {"max_priority_fee", "check_op"}
  BY DEF ReadBaseFee, ReadTip, request, collected, outer
<1>2. Len(packed_ops) = 0 /\ Len(ops) <= MaxBatchSize
  BY <1>1 DEF ChecksInv, ChecksShape, Prelude
<1>3. /\ el_base_fee \in 0 .. U256Max /\ el_tip \in 0 .. U256Max
      /\ base_fee \in 0 .. U256Max /\ suggested_tip \in 0 .. U256Max /\ now_unix \in Nat
  BY AdmissionAssumption
     DEF ChecksInv, AdmissionTypeOK, ChecksShape, FeeInv, FeeTypes, U256
<1>4. base_fee' \in 0 .. U256Max /\ suggested_tip' \in 0 .. U256Max /\ now_unix' \in Nat
  BY <1>3, AdmissionAssumption DEF ReadBaseFee, ReadTip
<1> QED
  BY <1>1, <1>2, <1>4, MoveOn DEF Prelude

\* Fee policy, packing and the paymaster header.
LEMMA CheckOpStep ==
  ASSUME ChecksInv, FeeInv', CheckOp
  PROVE  ChecksInv'
<1> DEFINE k == Len(packed_ops) + 1
           o == ops[k]
<1>1. /\ pc = "check_op"
      /\ UNCHANGED <<ops, chain_ok, base_fee, suggested_tip, now_unix, packed_ops,
                     user_op_hashes, min_user_tip, min_user_fee_cap, gas, fees, asked>>
  BY DEF CheckOp, request, snapshot, collected, outer
<1>2. /\ Index = k /\ Op = o /\ o \in UserOps
      /\ k \in 1 .. Len(ops) /\ Len(ops) \in Nat
  BY <1>1, InLoop DEF LoopPCs
<1>3. /\ gas' \in 0 .. U64Max /\ asked' \in Seq(Answers) /\ Len(asked') >= Len(packed_ops)
      /\ base_fee' \in 0 .. U256Max /\ suggested_tip' \in 0 .. U256Max /\ now_unix' \in Nat
      /\ Len(ops) <= MaxBatchSize
  BY <1>1 DEF ChecksInv, AdmissionTypeOK, ChecksShape
<1>4. /\ check_per_op_fees(o, base_fee)
             \in {"Ok", "InvalidUserOp", "PriorityFeeTooLow", "FeeCapTooLow"}
      /\ ~pack(o).ok => pack(o).err = "Pack"
  BY <1>2, PackParts DEF check_per_op_fees
<1>5. Step(IF check_per_op_fees(o, base_fee) # "Ok" THEN check_per_op_fees(o, base_fee)
           ELSE IF ~pack(o).ok THEN pack(o).err
           ELSE IF ~Parses(o) THEN "Pack"
           ELSE "Ok", "balance_of")
  BY <1>2 DEF CheckOp, Parses
<1> HIDE DEF k, o
<1>6. CASE pc' = "failed"
  <2>1. /\ error'.op \in {0, k}
        /\ error'.kind \in {"InvalidUserOp", "PriorityFeeTooLow", "FeeCapTooLow", "Pack"}
        /\ \/ check_per_op_fees(o, base_fee) # "Ok"
           \/ ~pack(o).ok
           \/ pack(o).ok /\ ~Parses(o)
    BY <1>2, <1>4, <1>5, <1>6 DEF Step, Fail
  <2>2. \/ check_per_op_fees(o, base_fee) # "Ok"
        \/ ~pack(o).ok
        \/ Len(o.paymaster_and_data) \in 1 .. PAYMASTER_HEADER_LEN - 1
    BY <1>2, <2>1, ShortBlob
  <2>3. BadParams'
    BY <1>1, <1>2, <2>2 DEF BadParams, Hand, o, k
  <2>4. error'.kind \in BuildErrors /\ ErrorMeans'
    BY <1>1, <2>1, <2>3 DEF BuildErrors, ErrorMeans, ParamErrors, Hand, k
  <2>5. error'.op \in 0 .. Len(ops)
    BY <1>2, <2>1
  <2> QED
    BY <1>1, <1>3, <1>6, <2>4, <2>5, FailStep
<1>7. CASE pc' # "failed"
  <2>1. pc' = "balance_of" /\ UNCHANGED error /\ pack(o).ok /\ Parses(o)
    BY <1>4, <1>5, <1>7 DEF Step, Fail
  <2>2. Admissible(ops[Len(packed_ops) + 1])
    BY <2>1 DEF Admissible, o, k
  <2> QED
    BY <1>1, <1>3, <2>1, <2>2, MoveOn DEF Prelude
<1> QED
  BY <1>6, <1>7

\* The prefund.
LEMMA PrefundStep ==
  ASSUME ChecksInv, FeeInv', CheckPrefund
  PROVE  ChecksInv'
<1> DEFINE k == Len(packed_ops) + 1
           o == ops[k]
           q == Prefund(o, Header(o))
<1>1. /\ pc = "balance_of"
      /\ UNCHANGED <<ops, chain_ok, base_fee, suggested_tip, now_unix, packed_ops,
                     user_op_hashes, min_user_tip, min_user_fee_cap, gas, fees>>
  BY DEF CheckPrefund, request, snapshot, collected, outer
<1>2. /\ Index = k /\ Op = o /\ o \in UserOps
      /\ k \in 1 .. Len(ops) /\ Len(packed_ops) \in Nat /\ Len(ops) \in Nat
  BY <1>1, InLoop DEF LoopPCs
<1>3. /\ asked \in Seq(Answers) /\ Len(asked) = Len(packed_ops) /\ Admissible(o)
      /\ gas \in 0 .. U64Max
  BY <1>1 DEF ChecksInv, ChecksShape, ChecksInHand, AdmissionTypeOK
<1>4. Asked = q
  BY <1>2 DEF Asked, Packed, Header
<1>5. PICK deposit \in Deposits :
         /\ asked' = Append(asked, [sponsor |-> q.sponsor, deposit |-> deposit,
                                    windows |-> <<>>])
         /\ Step(IF deposit < q.required THEN "InsufficientDeposit" ELSE "Ok",
                 "simulate_validation")
  BY <1>4 DEF CheckPrefund
<1>6. /\ q.sponsor = EPPayer(pack(o).val)
      /\ deposit < q.required => deposit < EPRequiredPrefund(pack(o).val)
      /\ ~(deposit < q.required) =>
            \/ deposit >= EPRequiredPrefund(pack(o).val)
            \/ pack(o).val.paymasterAndData # <<>> /\ pack(o).val.paymasterAndData[1] = 0
  BY <1>2, <1>3, PrefundExact
<1>7. q.sponsor \in Nat
  <2>1. EPPaymasterHeader(pack(o).val)[1] \in Nat /\ pack(o).val.sender = o.sender
    BY <1>2, <1>3, HeaderRead, PackedFields DEF Admissible
  <2>2. o.sender \in Nat
    BY <1>2, OpTypes
  <2> QED
    BY <1>6, <2>1, <2>2 DEF EPPayer
<1> DEFINE r == [sponsor |-> q.sponsor, deposit |-> deposit, windows |-> <<>>]
<1>8. r \in Answers /\ r.sponsor = q.sponsor /\ r.deposit = deposit
  BY <1>7 DEF Answers
<1> HIDE DEF k, o, q, r
<1>9. /\ asked' \in Seq(Answers) /\ Len(asked') = Len(packed_ops) + 1
      /\ asked'[k] = r
      /\ \A j \in 1 .. Len(packed_ops) : asked'[j] = asked[j]
  <2>1. asked' = Append(asked, r)
    BY <1>5 DEF r
  <2> QED
    BY <1>2, <1>3, <1>8, <2>1 DEF k
<1>10. CASE pc' = "failed"
  <2>1. error'.op = k /\ error'.kind = "InsufficientDeposit" /\ deposit < q.required
    BY <1>2, <1>5, <1>10 DEF Step, Fail, IndexedErrors
  <2>2. /\ Hand' = k
        /\ asked'[k].sponsor = EPPayer(pack(ops'[k]).val)
        /\ asked'[k].deposit < EPRequiredPrefund(pack(ops'[k]).val)
    BY <1>1, <1>6, <1>8, <1>9, <2>1 DEF o, k, Hand
  <2>3. error'.kind \in BuildErrors /\ ErrorMeans'
    BY <2>1, <2>2 DEF BuildErrors, ErrorMeans, ParamErrors
  <2>4. error'.op \in 0 .. Len(ops) /\ Len(asked') >= Len(packed_ops)
    BY <1>2, <1>9, <2>1
  <2> QED
    BY <1>1, <1>3, <1>9, <1>10, <2>3, <2>4, FailStep
<1>11. CASE pc' # "failed"
  <2>1. pc' = "simulate_validation" /\ UNCHANGED error /\ ~(deposit < q.required)
    BY <1>5, <1>11 DEF Step, Fail
  <2>2. Covered(o, r)
    BY <1>6, <1>8, <2>1 DEF Covered
  <2>3. AdmissionTypeOK'
    BY <1>1, <2>1 DEF ChecksInv, AdmissionTypeOK, Calls
  <2>4. ChecksShape'
    BY <1>1, <1>2, <1>9, <2>1 DEF ChecksInv, ChecksShape, Prelude
  <2>5. ChecksDone'
    <3> SUFFICES ASSUME NEW j \in 1 .. Len(packed_ops)
                 PROVE  Passed(ops[j], packed_ops[j], asked[j])'
      BY <1>1 DEF ChecksDone
    <3>1. Passed(ops[j], packed_ops[j], asked[j]) /\ asked'[j] = asked[j]
      BY <1>9 DEF ChecksInv, ChecksDone
    <3> QED
      BY <1>1, <3>1 DEF Passed, Covered, Judged
  <2>6. ChecksInHand'
    BY <1>1, <1>3, <1>9, <2>1, <2>2 DEF ChecksInHand, o, k
  <2>7. CapOfSome' /\ ErrorTruth'
    BY <1>1, <2>1 DEF ChecksInv, CapOfSome, ErrorTruth
  <2> QED
    BY <2>3, <2>4, <2>5, <2>6, <2>7 DEF ChecksInv
<1> QED
  BY <1>10, <1>11

\* The validation result.
LEMMA SimulateStep ==
  ASSUME ChecksInv, FeeInv', Simulate
  PROVE  ChecksInv'
<1> DEFINE k == Len(packed_ops) + 1
           o == ops[k]
<1>1. /\ pc = "simulate_validation"
      /\ UNCHANGED <<ops, chain_ok, base_fee, suggested_tip, now_unix, packed_ops,
                     user_op_hashes, min_user_tip, min_user_fee_cap, gas, fees>>
  BY DEF Simulate, request, snapshot, collected, outer
<1>2. /\ Index = k /\ k \in 1 .. Len(ops) /\ Len(packed_ops) \in Nat /\ Len(ops) \in Nat
  BY <1>1, InLoop DEF LoopPCs
<1>3. /\ asked \in Seq(Answers) /\ Len(asked) = k /\ now_unix \in Nat
      /\ Admissible(o) /\ Covered(o, asked[k]) /\ gas \in 0 .. U64Max
  BY <1>1 DEF ChecksInv, ChecksShape, ChecksInHand, AdmissionTypeOK
<1>4. PICK account \in Windows, paymaster \in Windows :
         /\ asked' = [asked EXCEPT ![k].windows = <<account, paymaster>>]
         /\ Step(simulate(PackWindow(account), PackWindow(paymaster), now_unix),
                 "user_op_hash")
  BY <1>2 DEF Simulate
<1> DEFINE r == [asked[k] EXCEPT !.windows = <<account, paymaster>>]
           v == simulate(PackWindow(account), PackWindow(paymaster), now_unix)
<1>5. account \in WindowType /\ paymaster \in WindowType
  BY AdmissionAssumption DEF WindowType
<1>6. /\ v \in ValidationErrors \cup {"Ok"}
      /\ v = "AccountSignatureFailed" => account.aggregator = SIG_VALIDATION_FAILED
      /\ v = "PaymasterSignatureFailed" => paymaster.aggregator = SIG_VALIDATION_FAILED
      /\ v = "UnsupportedAggregator" =>
            \/ account.aggregator > SIG_VALIDATION_FAILED
            \/ paymaster.aggregator > SIG_VALIDATION_FAILED
      /\ v = "OutOfTimeRange" =>
            ~InWindow(account, now_unix) \/ ~InWindow(paymaster, now_unix)
  BY <1>3, <1>5, Verdict
<1>7. asked[k] \in Answers
  BY <1>2, <1>3
<1>8. /\ r \in Answers /\ r.windows = <<account, paymaster>>
      /\ r.sponsor = asked[k].sponsor /\ r.deposit = asked[k].deposit
  BY <1>7 DEF Answers
<1>9. asked' = [asked EXCEPT ![k] = r]
  BY <1>4
<1>10. Step(v, "user_op_hash")
  BY <1>4
<1>11. v = "Ok" => Judged(r, now_unix)
  BY <1>8 DEF Judged
<1> HIDE DEF k, o, r, v
<1>12. /\ asked' \in Seq(Answers) /\ Len(asked') = k
       /\ asked'[k] = r
       /\ \A j \in 1 .. Len(packed_ops) : asked'[j] = asked[j]
  BY <1>2, <1>3, <1>8, <1>9 DEF k
<1>13. Len(asked') >= Len(packed_ops)
  BY <1>2, <1>12 DEF k
<1>14. CASE pc' = "failed"
  <2>1. error'.op = 0 /\ Hand' = k /\ error'.kind = v /\ v # "Ok"
    BY <1>1, <1>2, <1>6, <1>10, <1>14
       DEF Step, Fail, IndexedErrors, ValidationErrors, Hand, k
  <2>2. /\ asked'[k].windows[1] = account
        /\ asked'[k].windows[2] = paymaster
    BY <1>8, <1>12, <2>1
  <2>3. error'.kind \in BuildErrors
    BY <1>6, <2>1 DEF BuildErrors
  <2>4. error'.kind \in ValidationErrors
    BY <1>6, <2>1
  <2>5. error'.kind \notin ParamErrors /\ error'.kind # "InsufficientDeposit"
    BY <2>4 DEF ValidationErrors, ParamErrors
  <2>6. /\ error'.kind = "AccountSignatureFailed" =>
              asked'[k].windows[1].aggregator = SIG_VALIDATION_FAILED
        /\ error'.kind = "PaymasterSignatureFailed" =>
              asked'[k].windows[2].aggregator = SIG_VALIDATION_FAILED
        /\ error'.kind = "UnsupportedAggregator" =>
              \E i \in 1 .. 2 :
                 asked'[k].windows[i].aggregator > SIG_VALIDATION_FAILED
        /\ error'.kind = "OutOfTimeRange" =>
              \E i \in 1 .. 2 : ~InWindow(asked'[k].windows[i], now_unix')
    <3>1. 1 \in 1 .. 2 /\ 2 \in 1 .. 2
      OBVIOUS
    <3> QED
      BY <1>1, <1>6, <2>1, <2>2, <3>1
  <2>7. ErrorMeans'
    BY <2>1, <2>5, <2>6 DEF ErrorMeans, InWindow
  <2>8. error'.op \in 0 .. Len(ops)
    BY <1>2, <2>1
  <2> QED
    BY <1>1, <1>3, <1>12, <1>13, <1>14, <2>3, <2>7, <2>8, FailStep
<1>15. CASE pc' # "failed"
  <2>1. pc' = "user_op_hash" /\ UNCHANGED error /\ v = "Ok"
    BY <1>10, <1>15 DEF Step, Fail
  <2>2. AdmissionTypeOK'
    BY <1>1, <2>1 DEF ChecksInv, AdmissionTypeOK, Calls
  <2>3. ChecksShape'
    BY <1>1, <1>2, <1>12, <1>13, <2>1 DEF ChecksInv, ChecksShape, Prelude, k
  <2>4. ChecksDone'
    <3> SUFFICES ASSUME NEW j \in 1 .. Len(packed_ops)
                 PROVE  Passed(ops[j], packed_ops[j], asked[j])'
      BY <1>1 DEF ChecksDone
    <3>1. Passed(ops[j], packed_ops[j], asked[j]) /\ asked'[j] = asked[j]
      BY <1>12 DEF ChecksInv, ChecksDone
    <3> QED
      BY <1>1, <3>1 DEF Passed, Covered, Judged
  <2>5. Covered(o, r) /\ Judged(r, now_unix)
    BY <1>3, <1>8, <1>11, <2>1 DEF Covered
  <2>6. ChecksInHand'
    BY <1>1, <1>3, <1>12, <2>1, <2>5 DEF ChecksInHand, o, k
  <2>7. CapOfSome' /\ ErrorTruth'
    BY <1>1, <2>1 DEF ChecksInv, CapOfSome, ErrorTruth
  <2> QED
    BY <2>2, <2>3, <2>4, <2>6, <2>7 DEF ChecksInv
<1> QED
  BY <1>14, <1>15

\* The operation in hand joins the collected ones.
LEMMA CollectStep ==
  ASSUME ChecksInv, FeeInv', CollectOp
  PROVE  ChecksInv'
<1> DEFINE k == Len(packed_ops) + 1
           o == ops[k]
<1>1. /\ pc = "user_op_hash" /\ pc' \in {"estimate_gas", "check_op"}
      /\ UNCHANGED <<ops, chain_ok, base_fee, suggested_tip, now_unix, gas, fees, error,
                     asked>>
  BY DEF CollectOp, request, snapshot, outer
<1>2. /\ Op = o /\ o \in UserOps
      /\ k \in 1 .. Len(ops) /\ Len(packed_ops) \in Nat /\ Len(ops) \in Nat
  BY <1>1, InLoop DEF LoopPCs
<1>3. /\ Len(asked) = k /\ Passed(o, pack(o).val, asked[k])
      /\ user_op_hashes = packed_ops /\ packed_ops \in Seq(PackedOps)
      /\ Len(ops) <= MaxBatchSize
  BY <1>1 DEF ChecksInv, ChecksShape, ChecksInHand, FeeInv, FeeTypes, Passed
<1>4. /\ packed_ops' = Append(packed_ops, pack(o).val)
      /\ user_op_hashes' = Append(user_op_hashes, pack(o).val)
      /\ min_user_fee_cap' = update_min(min_user_fee_cap, o.max_fee_per_gas)
  BY <1>2 DEF CollectOp, Packed
<1>5. pack(o).val \in PackedOps
  BY <1>2 DEF PackedOps
<1> HIDE DEF o
<1>6. /\ Len(packed_ops') = k /\ packed_ops'[k] = pack(o).val
      /\ \A j \in 1 .. Len(packed_ops) : packed_ops'[j] = packed_ops[j]
  BY <1>2, <1>3, <1>4, <1>5
<1>7. AdmissionTypeOK'
  <2>1. MinInv' /\ U128Max \in Nat /\ U256Max \in Nat /\ U128Max < U256Max
    BY Widths DEF FeeInv
  <2>2. min_user_fee_cap' \subseteq 0 .. U256Max
    BY <2>1 DEF MinInv
  <2>3. min_user_tip' \subseteq 0 .. U256Max
    <3> SUFFICES ASSUME NEW m \in min_user_tip' PROVE m \in 0 .. U256Max
      OBVIOUS
    <3>1. PICK c \in min_user_fee_cap' : m <= c /\ c \in Nat /\ c <= U128Max
      BY <2>1 DEF MinInv
    <3>2. m \in Nat
      BY <2>1 DEF MinInv
    <3> QED
      BY <2>1, <3>1, <3>2
  <2>4. Len(packed_ops') <= MaxBatchSize
    BY <1>2, <1>3, <1>6, AdmissionAssumption
  <2> QED
    BY <1>1, <2>2, <2>3, <2>4 DEF ChecksInv, AdmissionTypeOK, Calls
<1>8. ChecksShape'
  <2>1. user_op_hashes' = packed_ops'
    BY <1>3, <1>4
  <2> QED
    BY <1>1, <1>2, <1>3, <1>6, <2>1 DEF ChecksInv, ChecksShape, Prelude
<1>9. ChecksDone'
  <2> SUFFICES ASSUME NEW j \in 1 .. k
               PROVE  Passed(ops[j], packed_ops[j], asked[j])'
    BY <1>6 DEF ChecksDone
  <2>1. CASE j = k
    BY <1>1, <1>3, <1>6, <2>1 DEF Passed, Covered, Judged, o
  <2>2. CASE j # k
    <3>1. j \in 1 .. Len(packed_ops)
      BY <1>2, <2>2
    <3>2. Passed(ops[j], packed_ops[j], asked[j]) /\ packed_ops'[j] = packed_ops[j]
      BY <1>6, <3>1 DEF ChecksInv, ChecksDone
    <3> QED
      BY <1>1, <3>2 DEF Passed, Covered, Judged
  <2> QED
    BY <2>1, <2>2
<1>10. ChecksInHand' /\ ErrorTruth'
  BY <1>1 DEF ChecksInHand, ErrorTruth
<1>11. CapOfSome'
  <2> SUFFICES ASSUME NEW c \in min_user_fee_cap'
               PROVE  \E j \in 1 .. k : c = ops[j].max_fee_per_gas
    BY <1>1, <1>6 DEF CapOfSome
  <2>1. c \in min_user_fee_cap \/ c = o.max_fee_per_gas
    BY <1>4 DEF update_min
  <2>2. CASE c \in min_user_fee_cap
    <3>1. PICK j \in 1 .. Len(packed_ops) : c = ops[j].max_fee_per_gas
      BY <2>2 DEF ChecksInv, CapOfSome
    <3>2. j \in 1 .. k
      BY <1>2
    <3> QED
      BY <3>1, <3>2
  <2>3. CASE c = o.max_fee_per_gas
    <3>1. k \in 1 .. k
      BY <1>2
    <3> QED
      BY <2>3, <3>1 DEF o
  <2> QED
    BY <2>1, <2>2, <2>3
<1> QED
  BY <1>7, <1>8, <1>9, <1>10, <1>11 DEF ChecksInv

\* The outer fees, or a fee cap that does not reach them.
LEMMA OuterFeesStep ==
  ASSUME ChecksInv, FeeInv', ChooseFees
  PROVE  ChecksInv'
<1>1. /\ pc = "estimate_gas" /\ Index = 0
      /\ UNCHANGED <<ops, chain_ok, base_fee, suggested_tip, now_unix, packed_ops,
                     user_op_hashes, min_user_tip, min_user_fee_cap, asked>>
  BY DEF ChooseFees, Index, request, snapshot, collected
<1>2. gas' \in 0 .. U64Max
  BY AdmissionAssumption, GasType DEF ChooseFees
<1>3. /\ asked \in Seq(Answers) /\ Len(asked) = Len(packed_ops)
      /\ Len(packed_ops) = Len(ops) /\ Len(ops) \in Nat
      /\ base_fee \in Nat /\ suggested_tip \in Nat
  BY <1>1 DEF ChecksInv, ChecksShape, FeeInv, FeeTypes, LoopInv
<1>4. PICK m \in min_user_tip, c \in min_user_fee_cap :
         LET chosen == choose_outer_fees(base_fee, suggested_tip, m, c)
         IN  IF chosen.ok
             THEN fees' = chosen.val /\ pc' = "admitted" /\ UNCHANGED error
             ELSE UNCHANGED fees /\ Fail(chosen.err)
  BY DEF ChooseFees
<1>5. /\ m \in Nat /\ MinPriorityFee <= m /\ m <= c /\ c \in Nat /\ c <= U128Max
      /\ MinPriorityFee \in Nat
  BY FeeAssumption DEF ChecksInv, FeeInv, MinInv
<1> DEFINE want == max_u256(MinPriorityFee, suggested_tip)
           tip == min_u256(want, m)
           chosen == choose_outer_fees(base_fee, suggested_tip, m, c)
<1>6. want \in Nat /\ tip \in Nat /\ tip <= want /\ tip <= m
  BY <1>3, <1>5 DEF max_u256, min_u256
<1>7. \/ chosen = Err("FeeCapTooLow") /\ c < saturating_add(base_fee, tip)
      \/ chosen = Ok([tip |-> tip, fee_cap |-> c])
  BY DEF choose_outer_fees
<1> HIDE DEF want, tip
<1>8. CASE chosen = Err("FeeCapTooLow") /\ c < saturating_add(base_fee, tip)
  <2>1. Err("FeeCapTooLow").ok = FALSE /\ Err("FeeCapTooLow").err = "FeeCapTooLow"
    BY DEF Err
  <2>2. ~chosen.ok /\ chosen.err = "FeeCapTooLow"
    BY <1>8, <2>1
  <2>3. /\ pc' = "failed" /\ UNCHANGED fees
        /\ error'.kind = "FeeCapTooLow" /\ error'.op = 0
    BY <1>1, <1>4, <2>2 DEF Fail, IndexedErrors
  <2>4. PICK j \in 1 .. Len(packed_ops) : c = ops[j].max_fee_per_gas
    BY DEF ChecksInv, CapOfSome
  <2>5. c < base_fee + want
    BY <1>3, <1>5, <1>6, <1>8, Widths DEF saturating_add, min_u256
  <2>6. BadParams'
    BY <1>1, <1>3, <2>3, <2>4, <2>5 DEF BadParams, Hand, want
  <2>7. error'.kind \in BuildErrors /\ ErrorMeans'
    BY <2>3, <2>6 DEF BuildErrors, ErrorMeans, ParamErrors
  <2>8. error'.op \in 0 .. Len(ops) /\ Len(asked') >= Len(packed_ops)
    BY <1>1, <1>3, <2>3
  <2> QED
    BY <1>1, <1>2, <1>3, <2>3, <2>7, <2>8, FailStep
<1>9. CASE chosen = Ok([tip |-> tip, fee_cap |-> c])
  <2>1. chosen.ok /\ chosen.val = [tip |-> tip, fee_cap |-> c]
    BY <1>9 DEF Ok
  <2>2. /\ pc' = "admitted" /\ UNCHANGED error
        /\ fees' = [tip |-> tip, fee_cap |-> c]
    BY <1>4, <2>1
  <2>3. tip \in 0 .. U256Max /\ c \in 0 .. U256Max
    BY <1>5, <1>6, Widths
  <2>4. AdmissionTypeOK'
    BY <1>1, <1>2, <2>2, <2>3 DEF ChecksInv, AdmissionTypeOK
  <2>5. ChecksShape'
    BY <1>1, <1>3, <2>2 DEF ChecksInv, ChecksShape, Prelude
  <2>6. ChecksDone'
    BY <1>1 DEF ChecksInv, ChecksDone, Passed, Covered, Judged
  <2>7. ChecksInHand' /\ CapOfSome' /\ ErrorTruth'
    BY <1>1, <2>2 DEF ChecksInv, ChecksInHand, CapOfSome, ErrorTruth
  <2> QED
    BY <2>4, <2>5, <2>6, <2>7 DEF ChecksInv
<1> QED
  BY <1>7, <1>8, <1>9

\* Every step of the checks preserves the invariant.
LEMMA NextChecksInv == ChecksInv /\ [AdmissionNext]_adm_vars => ChecksInv'
<1> SUFFICES ASSUME ChecksInv, [AdmissionNext]_adm_vars PROVE ChecksInv'
  OBVIOUS
<1>1. FeeInv'
  BY NextFeeInv DEF ChecksInv
<1>2. CASE Sanity
  BY <1>1, <1>2, SanityStep
<1>3. CASE ReadBaseFee \/ ReadTip
  BY <1>1, <1>3, SnapshotStep
<1>4. CASE CheckOp
  BY <1>1, <1>4, CheckOpStep
<1>5. CASE CheckPrefund
  BY <1>1, <1>5, PrefundStep
<1>6. CASE Simulate
  BY <1>1, <1>6, SimulateStep
<1>7. CASE SimulateReverts \/ CallFails
  BY <1>1, <1>7, ProviderFails
<1>8. CASE CollectOp
  BY <1>1, <1>8, CollectStep
<1>9. CASE ChooseFees
  BY <1>1, <1>9, OuterFeesStep
<1>10. CASE NodeMoves \/ Answered \/ UNCHANGED adm_vars
  BY <1>1, <1>10, NodeStep DEF Answered
<1> QED
  BY <1>2, <1>3, <1>4, <1>5, <1>6, <1>7, <1>8, <1>9, <1>10 DEF AdmissionNext

\* The invariant holds of every execution of build_inner.
LEMMA ChecksInvHolds == AdmissionSpec => []ChecksInv
  BY InitChecksInv, NextChecksInv, PTL DEF AdmissionSpec

(***************************************************************************)
(* Types: in particular the gas limit is a u64, the fees are u256, the     *)
(* batch is within cfg.max_batch_size and an error names an operation of   *)
(* the request.                                                            *)
(***************************************************************************)
THEOREM AdmissionTypes == AdmissionSpec => []AdmissionTypeOK
<1>1. ChecksInv => AdmissionTypeOK
  BY DEF ChecksInv
<1> QED
  BY <1>1, ChecksInvHolds, PTL

(***************************************************************************)
(* Packing (packing.rs and the loop of build_inner): the EntryPoint reads  *)
(* every field as the client wrote it, pre-packed or not, for halves and   *)
(* blobs of any size.                                                      *)
(***************************************************************************)
THEOREM PackedFaithfulHolds == AdmissionSpec => []PackedFaithful
  BY PackedFromInv, ChecksInvHolds, PTL

(***************************************************************************)
(* check_prefund asks the deposit of the EntryPoint's payer, and its       *)
(* saturating arithmetic lets no deposit pass that the exact formula       *)
(* refuses (blobs naming the zero address excepted).                       *)
(***************************************************************************)
THEOREM PrefundCoveredHolds == AdmissionSpec => []PrefundCovered
  BY PrefundFromInv, ChecksInvHolds, PTL

(***************************************************************************)
(* simulate lets an operation through only when both contracts signed, no  *)
(* aggregator is asked for and both windows hold the clock of the request. *)
(***************************************************************************)
THEOREM WindowsHonouredHolds == AdmissionSpec => []WindowsHonoured
  BY WindowsFromInv, ChecksInvHolds, PTL

(***************************************************************************)
(* A refused request is told the truth (errors.rs): -32602 only for what   *)
(* the request itself says, any other rejection only if the node answered  *)
(* just that for the operation in hand, which an opIndex names.            *)
(***************************************************************************)
THEOREM RejectionsAreTrueHolds == AdmissionSpec => []RejectionsAreTrue
  BY RejectionsFromInv, ChecksInvHolds, PTL
=============================================================================
