-------------------------- MODULE InstructionWire ---------------------------
(***************************************************************************)
(* The bytes between the client's serializer and the program: what         *)
(* serializeInstruction puts together for a request, and what the program  *)
(* makes of it with NftInstruction::try_from_slice.  A behaviour is one    *)
(* request on its way from the caller of the serializer to the handler.    *)
(*                                                                         *)
(* A request is [variant, fields].  Bytes are numbers below 256; a key is  *)
(* its 32 bytes, a string its bytes, an optional field the sequence of its *)
(* value or of nothing.                                                    *)
(***************************************************************************)
EXTENDS Integers, SequencesExt

CONSTANTS
  ScriptRequests,  \* what initCollection.ts and mintNfts.ts ask for
  OtherRequests    \* what other users of the serializer may ask for

VARIABLES
  request,  \* what is asked for
  wire,     \* the instruction's data, empty until they are written
  answered, \* whether the program has read them
  taken     \* what it took them for

vars == <<request, wire, answered, taken>>

Plain(type) == [type |-> type, optional |-> FALSE]
Option(type) == [type |-> type, optional |-> TRUE]

-----------------------------------------------------------------------------
(* The program's side.                                                     *)

\* The variants in the order of the enum: Borsh's tag is the place, from 0.
Enum ==
  <<"InitializeCollection", "MintNft", "SplitFraction", "ProxyForward",
    "ClaimFractionShare", "ClaimParentShare", "Withdraw", "WithdrawTokens",
    "ClaimCloneRewards", "UpdateFractions", "AutoMint", "Transfer", "BurnNft",
    "UpdateNft", "TransferCollection">>

\* The fields of a variant, in order.
Layout(variant) ==
  LET Fields(types) == [i \in DOMAIN types |-> Plain(types[i])]
  IN  CASE variant = "InitializeCollection" ->
             Fields(<<"u64", "u64", "string", "u64", "u64">>)
        [] variant = "MintNft" ->
             Fields(<<"string", "string", "string", "u16", "kind", "key", "u16", "shares">>)
        [] variant = "SplitFraction" -> Fields(<<"string", "string", "string", "u16">>)
        [] variant = "UpdateFractions" -> Fields(<<"shares">>)
        [] variant = "AutoMint" -> Fields(<<"kind", "key">>)
        [] variant \in {"Transfer", "TransferCollection"} -> Fields(<<"key">>)
        [] variant = "UpdateNft" ->
             <<Option("string"), Option("string"), Option("string"),
               Option("u16"), Option("key"), Option("u16")>>
        [] OTHER -> <<>>

\* The kinds in the order of enum NftKind.
KindOrder ==
  <<"Default", "SBT", "Address", "AddressV2", "AddressV3", "AddressV3j",
    "AddressV4Fraction", "AddressV5", "AddressV6", "Clone", "CloneV2">>

-----------------------------------------------------------------------------
(* The client's side.                                                      *)

\* variantMap.
ClientTag ==
  [InitializeCollection |-> 0, MintNft |-> 1, ProxyForward |-> 2, Withdraw |-> 3,
   WithdrawTokens |-> 4, ClaimCloneRewards |-> 5, UpdateFractions |-> 6,
   AutoMint |-> 7, Transfer |-> 8, BurnNft |-> 9, UpdateNft |-> 10,
   TransferCollection |-> 11]

ClientKindFault ==
  LET swapped == [KindOrder EXCEPT ![5] = KindOrder[6], ![6] = KindOrder[5]]
  IN  [kind \in Range(KindOrder) |-> SelectInSeq(swapped, LAMBDA k : k = kind) - 1]

\* kindMap.
ClientKind ==
  [Default |-> 0, SBT |-> 1, Address |-> 2, AddressV2 |-> 3, AddressV3 |-> 4,
   AddressV3j |-> 5, AddressV4Fraction |-> 6, AddressV5 |-> 7, AddressV6 |-> 8,
   Clone |-> 9, CloneV2 |-> 10]

\* The fields the client writes.  Those of a transfer are written for
\* "TransferNft" and those of a clone for "CloneNft", which have no tag.
ClientLayout(variant) ==
  CASE variant = "Withdraw" -> <<Plain("u64")>>
    [] variant = "WithdrawTokens" -> <<Plain("u64")>>
    [] variant = "Transfer" -> <<>>
    [] OTHER -> Layout(variant)

-----------------------------------------------------------------------------
(* Writing and reading a field.                                            *)

Byte == 0 .. 255

\* What is left of n without its lowest i bytes, for i up to w.
Shifts(n, w) ==
  LET rest[i \in 0 .. w] == IF i = 0 THEN n ELSE rest[i - 1] \div 256
  IN  rest

FitsIn(n, w) == n \in Nat /\ Shifts(n, w)[w] = 0

\* n as w bytes, lowest first.
LittleEndian(n, w) ==
  LET rest == Shifts(n, w)
  IN  [i \in 1 .. w |-> rest[i - 1] % 256]

Number(bytes) ==
  LET w == Len(bytes)
      upper[i \in 0 .. w] ==
        IF i = 0 THEN 0 ELSE upper[i - 1] * 256 + bytes[w + 1 - i]
  IN  upper[w]

PutType(type, v) ==
  CASE type = "u16" -> LittleEndian(v, 2)
    [] type = "u64" -> LittleEndian(v, 8)
    [] type = "kind" -> <<ClientKind[v]>>
    [] type = "key" -> v
    [] type = "string" -> LittleEndian(Len(v), 4) \o v
    [] type = "shares" ->
         LittleEndian(Len(v), 4)
           \o FlattenSeq([i \in DOMAIN v |-> v[i].pda \o LittleEndian(v[i].bps, 2)])

Put(field, v) ==
  IF ~ field.optional THEN PutType(field.type, v)
  ELSE IF v = <<>> THEN <<0>>
  ELSE <<1>> \o PutType(field.type, v[1])

\* The first n of the bytes and the others, or nothing if there are fewer.
\* Reads are sets of such pairs, <<value, bytes left>>, empty when refused.
Bytes(n, bytes) ==
  IF Len(bytes) < n THEN {}
  ELSE {<<SubSeq(bytes, 1, n), SubSeq(bytes, n + 1, Len(bytes))>>}

ReadNumber(w, bytes) == {<<Number(r[1]), r[2]>> : r \in Bytes(w, bytes)}

\* The list of n shares in 34 * n bytes.
Shares(n, bytes) ==
  [i \in 1 .. n |-> [pda |-> SubSeq(bytes, 34 * i - 33, 34 * i - 2),
                     bps |-> Number(SubSeq(bytes, 34 * i - 1, 34 * i))]]

ReadType(type, bytes) ==
  CASE type = "u16" -> ReadNumber(2, bytes)
    [] type = "u64" -> ReadNumber(8, bytes)
    [] type = "kind" ->
         {<<KindOrder[r[1] + 1], r[2]>> :
            r \in {q \in ReadNumber(1, bytes) : q[1] < Len(KindOrder)}}
    [] type = "key" -> Bytes(32, bytes)
    [] type = "string" -> UNION {Bytes(r[1], r[2]) : r \in ReadNumber(4, bytes)}
    [] type = "shares" ->
         UNION {{<<Shares(r[1], q[1]), q[2]>> : q \in Bytes(34 * r[1], r[2])} :
                  r \in {p \in ReadNumber(4, bytes) : p[1] <= Len(bytes)}}

ReadField(field, bytes) ==
  IF ~ field.optional THEN ReadType(field.type, bytes)
  ELSE UNION {CASE r[1] = 0 -> {<<<<>>, r[2]>>}
                [] r[1] = 1 -> {<<<<q[1]>>, q[2]>> : q \in ReadType(field.type, r[2])}
                [] OTHER -> {} : r \in ReadNumber(1, bytes)}

-----------------------------------------------------------------------------
(* What can be asked for.                                                  *)

KeyBytes == [1 .. 32 -> Byte]

IsA(type, v) ==
  CASE type = "u16" -> FitsIn(v, 2)
    [] type = "u64" -> FitsIn(v, 8)
    [] type = "kind" -> v \in DOMAIN ClientKind
    [] type = "key" -> v \in KeyBytes
    [] type = "string" -> v \in Seq(Byte) /\ FitsIn(Len(v), 4)
    [] type = "shares" ->
         /\ v \in Seq([pda: KeyBytes, bps: Nat]) /\ FitsIn(Len(v), 4)
         /\ \A i \in DOMAIN v : FitsIn(v[i].bps, 2)

Holds(field, v) ==
  IF field.optional THEN v = <<>> \/ (v = <<v[1]>> /\ IsA(field.type, v[1]))
  ELSE IsA(field.type, v)

\* The request with what is written in the place of a kind that AutoMint does
\* not know.
Filled(r) ==
  IF r.variant = "AutoMint" /\ r.fields[1] \notin DOMAIN ClientKind
  THEN [variant |-> "AutoMint", fields |-> <<"Default", r.fields[2]>>]
  ELSE r

\* With the defaults of the fields left out filled in.  The serializer throws
\* for a variant without a tag, a number its field has no room for, a key that
\* is none and, in a mint, a kind it does not know.
Serializable(r) ==
  LET layout == ClientLayout(r.variant)
  IN  /\ r.variant \in DOMAIN ClientTag
      /\ \A i \in DOMAIN layout : Holds(layout[i], r.fields[i])

\* It has the fields of the program's variant and no others.
Whole(r) ==
  r = [variant |-> r.variant,
       fields |-> [i \in DOMAIN Layout(r.variant) |-> r.fields[i]]]

ASSUME WireScriptsAssumption ==
  \A r \in ScriptRequests :
    /\ r.variant \in {"InitializeCollection", "MintNft"}
    /\ Serializable(r) /\ Whole(r)
ASSUME WireOthersAssumption == \A r \in OtherRequests : Serializable(Filled(r))

-----------------------------------------------------------------------------
(* Writing and reading an instruction.                                     *)

Encode(r) ==
  LET layout == ClientLayout(r.variant)
  IN  <<ClientTag[r.variant]>>
        \o FlattenSeq([i \in DOMAIN layout |-> Put(layout[i], r.fields[i])])

\* The fields of the layout in the bytes.
ReadAll(layout, bytes) ==
  LET reads[i \in 0 .. Len(layout)] ==
        IF i = 0 THEN {<<<<>>, bytes>>}
        ELSE UNION {{<<Append(r[1], q[1]), q[2]>> : q \in ReadField(layout[i], r[2])} :
                      r \in reads[i - 1]}
  IN  reads[Len(layout)]

DecodeFault(data) ==
  LET variant == Enum[Head(data) + 1]
  IN  {[variant |-> variant, fields |-> r[1]] : r \in ReadAll(Layout(variant), Tail(data))}

\* What the program dispatches on: a set of one instruction, or of none when
\* it answers InvalidInstructionData, which it also does to bytes left over.
Decode(data) ==
  LET variant == Enum[Head(data) + 1]
  IN  {[variant |-> variant, fields |-> r[1]] :
         r \in {q \in ReadAll(Layout(variant), Tail(data)) : q[2] = <<>>}}

\* serializeInstruction.
Serialize ==
  /\ wire = <<>>
  /\ wire' = Encode(Filled(request))
  /\ UNCHANGED <<request, answered, taken>>

\* process_instruction decodes what it is given, and dispatches on it.
Process ==
  /\ wire # <<>> /\ ~ answered
  /\ answered' = TRUE
  /\ taken' = Decode(wire)
  /\ UNCHANGED <<request, wire>>

Init ==
  /\ request \in ScriptRequests \cup OtherRequests
  /\ wire = <<>>
  /\ answered = FALSE
  /\ taken = {}

Next == Serialize \/ Process

Spec == Init /\ [][Next]_vars

-----------------------------------------------------------------------------
(* What the bytes must preserve.                                           *)

\* What the two scripts ask for reaches its handler with every field as it
\* was asked for: the kind, the supply, the fee, the list of children.
ScriptsUnderstood ==
  answered /\ request \in ScriptRequests => taken = {request}

\* The tags of the client name other instructions from the third on; but the
\* decoder refuses what it finds behind them, save in these cases, none of
\* which carries an amount.
MisreadsKnown ==
  answered =>
    \A d \in taken : d.variant # request.variant =>
      <<request.variant, d.variant>> \in
        {<<"ClaimCloneRewards", "ClaimParentShare">>,
         <<"Transfer", "ClaimCloneRewards">>,
         <<"UpdateNft", "AutoMint">>,
         <<"TransferCollection", "Transfer">>}

-----------------------------------------------------------------------------
(* What a comment of the code says, and the code does not do.              *)

\* serializer.ts: the order must be that of enum NftInstruction.
LibraryArrives == answered => taken = {request}
=============================================================================
