--------------------------- MODULE MintExecution ----------------------------
(***************************************************************************)
(* One MintNft as the runtime executes it: the handler's checks and its    *)
(* eight steps, most of them calls of other programs, on working copies of *)
(* the accounts.  Any step may fail; the runtime then drops the copies.    *)
(* Only an instruction that comes to its end changes the ledger.           *)
(*                                                                         *)
(* The accounts an instruction writes are locked while it runs, so that no *)
(* other instruction on this collection runs in between.  SplitFraction    *)
(* takes the same steps, with one more that never succeeds (FractionPool). *)
(***************************************************************************)
EXTENDS NftTypes, Naturals

CONSTANTS
  Keys, Creators, CollectionIds, Mints, MintKinds, MaxSupply, Lens,
  MetadataUpdates, NoHolder,  \* as in NftRegistry
  NoInstruction               \* in place of the instruction when none runs

VARIABLES
  coll, nft, token, deposits,  \* the ledger, as in NftRegistry
  spl,   \* SPL mints that exist -> what the token program and Metaplex keep
  exec   \* the instruction that runs, its next step and its working copies

ledger == <<coll, nft, token, deposits>>

\* As built: what accounts the callers give is theirs to choose.
Registry == INSTANCE NftRegistry WITH OwnAccounts <- FALSE

\* authority tells whether more tokens can be made, minted how many were.
SplMint == [authority: BOOLEAN, minted: Nat, metadata: BOOLEAN, account: BOOLEAN]

\* A mint that is what an NFT should be: one token and never another.
Finished == [authority |-> FALSE, minted |-> 1, metadata |-> TRUE, account |-> TRUE]

Running == exec # NoInstruction

-----------------------------------------------------------------------------
(* The checks before the first step.                                       *)

AdmittedFault(r) ==
  /\ r.collection \in DOMAIN coll
  /\ Registry!HasRoom(r.collection)
  /\ coll[r.collection].authority = r.payer

\* The request r is signed by the collection's authority, the collection is
\* not full, and the address r names is that of the next index.
Admitted(r) ==
  /\ r.collection \in DOMAIN coll
  /\ Registry!HasRoom(r.collection)
  /\ coll[r.collection].authority = r.payer
  /\ <<r.collection, r.index>> = Registry!NextPda(r.collection)

Begin(r) ==
  /\ ~ Running
  /\ Admitted(r)
  /\ exec' = [request |-> r, step |-> 1,
              coll |-> coll, nft |-> nft, token |-> token, spl |-> spl]
  /\ UNCHANGED <<ledger, spl>>

-----------------------------------------------------------------------------
(* The steps.                                                              *)

Address == <<exec.request.collection, exec.request.index>>
Mint == exec.request.mint

\* Step n is next.
AtStep(n) == Running /\ exec.step = n

\* The step is taken and leaves the working copies w.
Take(w) ==
  /\ exec' = [w EXCEPT !.step = @ + 1]
  /\ UNCHANGED <<ledger, spl>>

\* The record of the NFT that r asks for.
RecordOf(r) ==
  [kind |-> r.kind, mint |-> r.mint, owner |-> r.owner,
   fee_recipient |-> Registry!FeeRecipientAtMint(r.payer, r.collection, r.kind),
   can_fraction |-> (r.kind = "AddressV4Fraction"), len |-> r.len, room |-> r.len]

CreatePda ==
  /\ AtStep(1)
  /\ Address \notin DOMAIN exec.nft /\ Address \notin deposits
  /\ Take([exec EXCEPT !.nft = Create(@, Address, RecordOf(exec.request))])

\* The account of the mint must not exist, and its keypair signs.
CreateMintAccount ==
  /\ AtStep(2)
  /\ Mint \notin DOMAIN exec.spl
  /\ Take([exec EXCEPT !.spl = Create(@, Mint,
       [authority |-> FALSE, minted |-> 0, metadata |-> FALSE, account |-> FALSE])])

\* The record's address becomes the mint authority.
InitializeMint ==
  /\ AtStep(3)
  /\ Take([exec EXCEPT !.spl[Mint].authority = TRUE])

\* Metaplex wants the signature of the mint authority.
CreateMetadata ==
  /\ AtStep(4)
  /\ exec.spl[Mint].authority
  /\ Take([exec EXCEPT !.spl[Mint].metadata = TRUE])

CreateTokenAccount ==
  /\ AtStep(5)
  /\ Take([exec EXCEPT !.spl[Mint].account = TRUE])

\* One token for the owner; the token program wants the account and the
\* authority's signature.
MintTo ==
  /\ AtStep(6)
  /\ exec.spl[Mint].authority /\ exec.spl[Mint].account
  /\ Take([exec EXCEPT !.spl[Mint].minted = @ + 1,
                       !.token = Create(@, Mint, exec.request.owner)])

RevokeAuthorityFault ==
  /\ AtStep(7)
  /\ Take(exec)

RevokeAuthority ==
  /\ AtStep(7)
  /\ exec.spl[Mint].authority
  /\ Take([exec EXCEPT !.spl[Mint].authority = FALSE])

CountFault ==
  /\ AtStep(8)
  /\ coll' = exec.coll
  /\ nft' = exec.nft
  /\ token' = exec.token
  /\ spl' = exec.spl
  /\ exec' = NoInstruction
  /\ UNCHANGED deposits

\* The last step counts the NFT, and the instruction commits.
Count ==
  /\ AtStep(8)
  /\ coll' = [exec.coll EXCEPT ![exec.request.collection].minted_count = @ + 1]
  /\ nft' = exec.nft
  /\ token' = exec.token
  /\ spl' = exec.spl
  /\ exec' = NoInstruction
  /\ UNCHANGED deposits

Advance ==
  \/ CreatePda \/ CreateMintAccount \/ InitializeMint \/ CreateMetadata
  \/ CreateTokenAccount \/ MintTo \/ RevokeAuthority

\* A step fails, for want of lamports, an account that exists, or a program's
\* refusal: everything is as it was before the first step.
Abort ==
  /\ Running
  /\ exec' = NoInstruction
  /\ UNCHANGED <<ledger, spl>>
=============================================================================
