------------------------- MODULE MCInstructionWire --------------------------
(***************************************************************************)
(* Requests for InstructionWire: every variant the serializer has a tag    *)
(* for, with fields of every shape and texts up to MaxText long.           *)
(***************************************************************************)
EXTENDS InstructionWire

MaxText == 24

Key(b) == [i \in 1 .. 32 |-> b]
Text(n) == [i \in 1 .. n |-> 65]
Lists == {<<>>, <<[pda |-> Key(7), bps |-> 3000]>>,
          <<[pda |-> Key(7), bps |-> 300], [pda |-> Key(9), bps |-> 9700]>>}
Optional(values) == {<<>>} \cup {<<v>> : v \in values}

Requests(variant, fields) == {[variant |-> variant, fields |-> f] : f \in fields}

\* Whatever their arguments.
RunScriptRequests ==
  Requests("InitializeCollection",
    {<<id, supply, Text(3), 0, 0>> : id \in {0, 2, 300}, supply \in {0, 1000}})
  \cup
  Requests("MintNft",
    {<<Text(4), Text(3), Text(0), 10, kind, Key(7), bps, list>> :
       kind \in DOMAIN ClientKind, bps \in {0, 5000}, list \in Lists})

RunOtherRequests ==
  UNION {Requests(v, {<<>>}) : v \in {"ProxyForward", "ClaimCloneRewards", "BurnNft"}}
  \cup UNION {Requests(v, {<<0>>, <<70000>>}) : v \in {"Withdraw", "WithdrawTokens"}}
  \cup Requests("UpdateFractions", {<<list>> : list \in Lists})
  \cup Requests("AutoMint",
         {<<kind, Key(7)>> : kind \in DOMAIN ClientKind \cup {"Unknown"}})
  \cup Requests("UpdateNft",
         {<<name, symbol, <<>>, fee, target, bps>> :
            name \in Optional({Text(n) : n \in 0 .. MaxText}),
            symbol \in Optional({Text(3)}), fee \in Optional({10}),
            target \in Optional({Key(7)}), bps \in Optional({500})})
  \cup UNION {Requests(v, {<<Key(7)>>}) : v \in {"Transfer", "TransferCollection"}}
=============================================================================
