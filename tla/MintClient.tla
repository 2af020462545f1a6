----------------------------- MODULE MintClient -----------------------------
(***************************************************************************)
(* The mint script, run again and again by several operators, against the  *)
(* program, over a network that delays and loses requests.                 *)
(*                                                                         *)
(* A run of the script reads the collection's counter, derives the address *)
(* of the next NFT from it, and sends one request with a new mint keypair. *)
(* It ends when the request is confirmed, refused, or not heard of for too *)
(* long; in the last case the request may still be on its way.  A run that *)
(* failed is repeated until the NFT that was asked for, the job, is there. *)
(*                                                                         *)
(* That a request arrives as it was sent is InstructionWire's subject.     *)
(***************************************************************************)
EXTENDS MintExecution, FiniteSets

CONSTANTS
  Scripts,    \* operators who run the script
  Wallet,     \* the key in wallet.json, which all of them use
  Target,     \* the collection the script names
  NoMint,     \* in place of the keypair between two runs
  MaxFlight   \* bound on the requests in flight

ASSUME ClientAssumption ==
  /\ Wallet \in Creators /\ Creators \subseteq Keys
  /\ Target \in Registry!CollPdas
  /\ MintKinds \subseteq NftKind /\ Lens \subseteq Nat
  /\ MaxSupply \in Nat
  /\ NoMint \notin Mints

VARIABLES
  script,  \* of every operator: where the present run is, the counter it
           \* read, the keypair it made; history: the number of the job, how
           \* many NFTs it got so far, whether a run of it gave up waiting
  flight   \* requests sent, and neither begun nor lost

vars == <<ledger, spl, exec, script, flight>>
chain == <<ledger, spl, exec>>

Request ==
  [script: Scripts, job: Nat, collection: {Target}, payer: {Wallet}, owner: {Wallet},
   index: 0 .. MaxSupply, mint: Mints, kind: MintKinds, len: Lens]

ScriptState ==
  [at: {"idle", "read", "waiting"}, index: 0 .. MaxSupply, mint: Mints \cup {NoMint},
   job: Nat, got: Nat, gaveUp: BOOLEAN]

\* The requests sent that still may change the ledger.
Pending == flight \cup (IF Running THEN {exec.request} ELSE {})

\* The keypairs that nobody made yet.  A new one is the first of them: which
\* one it is makes no difference.
Unused ==
  {m \in Mints :
     Registry!Fresh(m) /\ (\A r \in Pending : r.mint # m) /\ (\A s \in Scripts : script[s].mint # m)}
NewKeypair == CHOOSE m \in Unused : TRUE

\* The script's state between two runs for the job j.
Between(j, got, gaveUp) ==
  [at |-> "idle", index |-> 0, mint |-> NoMint, job |-> j, got |-> got, gaveUp |-> gaveUp]

-----------------------------------------------------------------------------
(* The script.                                                             *)

ReadFault(s) ==
  /\ script[s].at = "idle"
  /\ Target \in DOMAIN coll
  /\ script' = [script EXCEPT ![s].at = "read", ![s].index = coll[Target].total_supply]
  /\ UNCHANGED <<chain, flight>>

\* The run reads minted_count from the collection's account.
Read(s) ==
  /\ script[s].at = "idle"
  /\ Target \in DOMAIN coll
  /\ script' = [script EXCEPT ![s].at = "read", ![s].index = coll[Target].minted_count]
  /\ UNCHANGED <<chain, flight>>

\* It sends its request, for the address of the index it read.
Submit(s) ==
  /\ script[s].at = "read"
  /\ Cardinality(flight) < MaxFlight
  /\ Unused # {}
  /\ \E kind \in MintKinds, len \in Lens :
       flight' = flight \cup
         {[script |-> s, job |-> script[s].job, collection |-> Target,
           payer |-> Wallet, owner |-> Wallet, index |-> script[s].index,
           mint |-> NewKeypair, kind |-> kind, len |-> len]}
  /\ script' = [script EXCEPT ![s].at = "waiting", ![s].mint = NewKeypair]
  /\ UNCHANGED chain

Waiting(s) == script[s].at = "waiting"

\* It hears that its mint is there: the job is done.
Confirm(s) ==
  /\ Waiting(s)
  /\ script[s].mint \in DOMAIN spl
  /\ script' = [script EXCEPT ![s] = Between(@.job + 1, 0, FALSE)]
  /\ UNCHANGED <<chain, flight>>

FailFault(s) ==
  /\ Waiting(s)
  /\ script[s].mint \notin DOMAIN spl
  /\ script' = [script EXCEPT ![s] = Between(@.job, @.got, @.gaveUp)]
  /\ UNCHANGED <<chain, flight>>

\* It hears that its request failed.
Fail(s) ==
  /\ Waiting(s)
  /\ script[s].mint \notin DOMAIN spl
  /\ \A r \in Pending : r.mint # script[s].mint
  /\ script' = [script EXCEPT ![s] = Between(@.job, @.got, @.gaveUp)]
  /\ UNCHANGED <<chain, flight>>

\* It hears nothing: the connection fails, the time is up, or its operator
\* stops it.
GiveUp(s) ==
  /\ Waiting(s)
  /\ script' = [script EXCEPT ![s] = Between(@.job, @.got, TRUE)]
  /\ UNCHANGED <<chain, flight>>

Return(s) == Confirm(s) \/ Fail(s) \/ GiveUp(s)

-----------------------------------------------------------------------------
(* The network and the program.                                            *)

\* The request r is lost, or refused by the handler's checks.
Drop(r) ==
  /\ flight' = flight \ {r}
  /\ UNCHANGED <<chain, script>>

Start(r) ==
  /\ Begin(r)
  /\ flight' = flight \ {r}
  /\ UNCHANGED script

Step(A) == A /\ UNCHANGED <<script, flight>>

\* The mint commits; the history counts it for the job it was sent for.
Land ==
  /\ Count
  /\ LET s == exec.request.script
     IN  script' = [script EXCEPT ![s].got =
                      IF exec.request.job = script[s].job THEN @ + 1 ELSE @]
  /\ UNCHANGED flight

\* The other instructions, and what wallets do without the program; mints are
\* the scripts' only.
Others ==
  /\ ~ Running
  /\ Registry!Others
  /\ UNCHANGED <<spl, exec, script, flight>>

-----------------------------------------------------------------------------
Init ==
  /\ Registry!Init
  /\ spl = NoAccounts
  /\ exec = NoInstruction
  /\ script = [s \in Scripts |-> Between(0, 0, FALSE)]
  /\ flight = {}

Next ==
  \/ \E s \in Scripts : Read(s)
  \/ \E s \in Scripts : Submit(s)
  \/ \E s \in Scripts : Confirm(s)
  \/ \E s \in Scripts : Fail(s)
  \/ \E s \in Scripts : GiveUp(s)
  \/ \E r \in flight : Drop(r)
  \/ \E r \in flight : Start(r)
  \/ Step(Advance)
  \/ Land
  \/ Step(Abort)
  \/ Others

Spec == Init /\ [][Next]_vars

\* The script is run again and again and always comes to an end; requests do
\* not block the way for ever; an instruction comes to an end.  The network
\* does not lose every request, and from some time on an instruction that may
\* be carried out is: it fails only when its address is blocked.
Fairness ==
  /\ \A s \in Scripts : WF_vars(Read(s)) /\ WF_vars(Submit(s)) /\ WF_vars(Return(s))
  /\ WF_vars(\E r \in flight : Drop(r))
  /\ SF_vars(\E r \in flight : Start(r))
  /\ WF_vars(Land \/ Step(Advance \/ Abort))
  /\ <>[][Step(Abort) => Address \in deposits]_vars

FairSpec == Spec /\ Fairness
-----------------------------------------------------------------------------
(* Type correctness.                                                       *)

\* What is kept of an instruction while it runs; CopiesSound tells the copies.
Execution ==
  [request: Request, step: 1 .. 8, coll: {exec.coll}, nft: {exec.nft},
   token: {exec.token}, spl: {exec.spl}]

TypeOK ==
  /\ Registry!TypeOK
  /\ DOMAIN spl \subseteq Mints
  /\ spl \in [DOMAIN spl -> SplMint]
  /\ script \in [Scripts -> ScriptState]
  /\ flight \subseteq Request
  /\ Running => exec \in Execution

-----------------------------------------------------------------------------
(* Safety.                                                                 *)

\* On the ledger every SPL mint has one token, no authority that could make
\* another, and its metadata: no half of a mint was ever committed.
WholeMints ==
  /\ DOMAIN spl = DOMAIN token
  /\ \A m \in DOMAIN spl : spl[m] = Finished

\* The SPL mint of the instruction as the steps before step n leave it.
MintBefore(n) ==
  [authority |-> n \in 4 .. 7, minted |-> IF n > 6 THEN 1 ELSE 0,
   metadata |-> n > 4, account |-> n > 5]

\* What an instruction found when it began it finds until it ends, and its
\* copies are the ledger with what its steps so far have done.
CopiesSound ==
  Running =>
    LET r == exec.request
        n == exec.step
    IN  /\ Admitted(r)
        /\ exec.coll = coll
        /\ n > 1 => Address \notin DOMAIN nft /\ Address \notin deposits
        /\ exec.nft = IF n > 1 THEN Create(nft, Address, RecordOf(r)) ELSE nft
        /\ exec.spl = IF n > 2 THEN Create(spl, Mint, MintBefore(n)) ELSE spl
        /\ exec.token = IF n > 6 THEN Create(token, Mint, r.owner) ELSE token

\* A keypair belongs to one request, until its mint is there.
KeypairsSound ==
  /\ \A r \in Pending : r.mint \notin DOMAIN token
  /\ \A r, q \in Pending : r.mint = q.mint => r = q
  /\ Running => exec.request \notin flight

\* The inductive invariant of the execution.
IInv == TypeOK /\ WholeMints /\ CopiesSound /\ KeypairsSound

\* A mint that takes effect is asked for by the present run's job: when a job
\* is done, the requests of its runs that were given up are too late to land.
NothingLandsLate ==
  Running => exec.request.job = script[exec.request.script].job

\* With all its steps, failures and retries this is the registry, where a mint
\* is one step.
ImplementsRegistry == Registry!Spec

-----------------------------------------------------------------------------
(* What a step may never do.                                               *)

\* A script ends a job only when the job got its NFT, and a job gets a second
\* one only if a run of it gave up waiting.
OneNftForAJob ==
  [][\A s \in Scripts : script'[s].job # script[s].job =>
       /\ script[s].got >= 1
       /\ script[s].got > 1 => script[s].gaveUp]_vars

-----------------------------------------------------------------------------
(* Liveness.                                                               *)

\* The scripts fill their collection, unless someone pays its next address or
\* its authority is handed on.
ScriptsFill ==
  Target \in DOMAIN coll ~>
    /\ Target \in DOMAIN coll
    /\ \/ ~ Registry!HasRoom(Target)
       \/ Registry!Blocked(Target)
       \/ coll[Target].authority # Wallet
=============================================================================
