# A TLA+ verification of psy_american

`psy_american` is a Solana program (Rust, Anchor) for American covered options;
`psyoptions-ts` is its TypeScript client. This directory holds TLA+ models of
the program, the TLC configurations that check them on small instances, and
TLAPS proofs of what matters most for every instance. Paths below are relative
to the repository; `lib.rs`, `fees.rs`, `errors.rs` and `serum_proxy.rs` are in
`programs/psy_american/src/`, the client's files in
`packages/psyoptions-ts/src/`.

## 1. The system

An option market sells contracts of a fixed number of tokens of an underlying
asset against a fixed number of tokens of a quote asset, until a fixed second.
A *writer* locks the underlying of a contract in the market's pool and gets an
option token and a writer token. Whoever holds the option token may, until
expiration, pay the quote into the market's second pool and take the
underlying. Whoever holds the writer token may take quote that exercises have
left or, after expiration, underlying that nobody exercised for; with both
tokens, a contract can be undone at any time. Neither pool is divided among
writers: each takes from whichever pool still pays.

| Component | State | Operations | Interacts with | What makes it correct |
|---|---|---|---|---|
| Option markets (`lib.rs`) | `OptionMarket` accounts, two pools and two mints per market | `initialize_market`, `mint_option`, `mint_option_v2`, `exercise_option`, `exercise_option_v2`, `close_post_expiration`, `close_option_position`, `burn_writer_for_quote` | calls the token program, as the market's PDA or with the user's signature; reads the clock; fees; called by wallets and, as a CPI, by other programs | options covered until expiration, writers covered for ever, no payout without a burn, nothing of another market accepted, nobody stuck |
| Fees (`fees.rs`, `fees.ts`, `mintOption.ts`) | none | `fee_bps`, `fee_amount`, `feeAmountPerContract` | program and client both decide from it whether a fee account is passed | rounding, no overflow, agreement of the two |
| SPL token program (external) | balances, supplies | `transfer`, `mint_to`, `burn` | called by all the above | a failed call undoes the transaction |
| Solana runtime (external) | none | executes a message, or refuses it | every client, the program | privileges of a message cover what its calls need |
| Client calls (`psy_american.ts`, `mintOption.ts`, `utils/helpers.ts`) | none | one helper per instruction: account flags from the IDL, fee accounts, signers | the program | whatever the program would do for a wallet, the client can ask for |
| Client: setup (`initializeMarket.ts`, `utils/helpers.ts`) | the accounts it creates | look up or create fee accounts, create mints, a market, a minter's and an exerciser's accounts | RPC requests and transactions; other clients, the clock, the program's upgrade | what it returns is there; it is refused for a reason |
| Client: finding markets (`market.ts`, `layout.ts`, `utils/getOptionMarketData.ts`) | none | list by account size, filter by mints, fetch by derived address | RPC requests | what is read has the terms its address was made from |
| Client: V1 builders (`exerciseCoveredCall.ts`, `closePosition.ts`, `closePostExpirationCoveredCall.ts`, `exchangeWriterTokenForQuoteAsset.ts`) | unsigned transactions | build a transaction for the first version of the program | that program, which is not in the repository | a transaction does what it was built for, when it is executed |
| Serum market initialisation (`init_serum_market`, `utils/serum.ts`) | the DEX's accounts | allocate queues and books, search a nonce, create the DEX market | the DEX; other clients that list the pair, or take the queues | one wins and keeps its books; who is refused is for a reason |
| Serum proxy (`entry`, `serum_proxy.rs`, `utils/serum.ts`) | orders and open orders in the DEX | two layers of middlewares on each side; `prune` after expiration | the DEX, option markets (the expiration) | only expired markets are pruned; every order goes in the end |
| CPI example (`programs/cpi_examples`) | option vaults, vault authorities | `initialize`, `exercise`, `init_mint_vault`, `mint_vault_mint`, order placing and settling | calls the program and the DEX with its own signature | its calls are the program's instructions, with a PDA as the user |
| Client: types, errors, constants | none | declarations | | |
| Integration tests (`tests`) | | | read for what they say of the program and how they use the client | |

What is hard here:

* Every token is transferable and every market has many writers and holders, so
  the life of a contract is an arbitrary interleaving of everybody's
  instructions. The pools are shared, and what makes the last writer whole is a
  relation between two pools and two supplies that no instruction checks.
* Each instruction is handed its accounts by the caller. Whether it reaches
  into its own market's pools only depends on one validator per instruction, each
  of which compares a different set of keys. Markets share asset mints.
* Time: issuing and exercising stop, and redeeming for underlying starts, at the
  same second.
* Anybody may send tokens to a pool, or burn their own tokens outside the
  program, so pool balances need not be multiples of anything.
* Amounts are `u64`, sizes are the caller's, and fees are fixed-point fractions
  rounded by a trick.
* The issuing instructions of this commit panic. Contracts issued before that
  build must still be exercised and redeemed.
* The client looks at the chain in one request and acts on what it saw in another.
  A request or its answer may get lost, and a helper of a dozen requests stops
  where that happens. The expiration chosen at the start may have passed when the
  market is created, and all its addresses can be derived, and created, by others.
* The client decides by its own arithmetic which fee accounts to pass, and its
  account flags are written down apart from the handlers.
* The addresses of a DEX market follow from the pair, its queues and books are
  each client's own: two clients that list one pair race in two steps each. Queues
  and books sign nothing, so others may use them up in between.
* A request to the DEX is framed by two layers of the client and stripped by two
  of the program; a mistake in the frame of `prune` shows only after expiration.

Concurrency *inside* an instruction does not exist: the runtime locks the
writable accounts of a transaction and undoes it whole if anything in it fails.
The program retries nothing, and nothing of it outlives a transaction but
accounts. On the client's side requests and answers get lost, and neither the
helpers nor the builders retry; their callers may build a transaction again.

## 2. The modules

| Module | What it is |
|---|---|
| `SplToken` | the token program as the handlers use it: sets of ledgers, transfer, mint, burn, `checked_mul` |
| `Fees` | the fixed-point fee of the program and the client's whole-number fee |
| `PsyAmerican` | the option markets: every instruction but those of the DEX (`init_serum_market`, the proxy's), what wallets do around the program, the clock, the upgrade |
| `CoveredOptions` | the abstract market: contracts counted, without accounts, amounts, signatures, fees |
| `PsyAmericanRefinement` | the mapping under which the first implements the second |
| `FeeQuotes` | the fee of every quantity against exact arithmetic and against the client |
| `Messages` | the runtime's rule for signers and writable accounts (external) |
| `ClientCalls` | `PsyAmerican` as the client reaches it: one action per helper, with the message it sends |
| `ClientSetup` | setting up a market and its accounts, one request per step, among other clients |
| `SerumListing` | listing a pair on the DEX, by any number of clients |
| `SerumProxy` | trading a listed pair through the proxy, and pruning it |
| `V1Builders` | building, sending and rebuilding transactions for the first version |
| `MarketLookup` | layouts, listing and fetching of markets |
| `MCPsyAmerican`, `MCClientCalls`, `MCSerumProxy`, `MCV1Builders`, `MCMarketLookup` | the instances TLC checks |
| `ArithmeticLemmas` | division, rates, and counting things that come in numbers: the lemmas all proofs share |
| `PsyAmericanProofs`, `RefinementProofs` (with the client's calls), `FeesProofs`, `ClientSetupProofs`, `SerumProofs`, `MarketLookupProofs`, `V1BuildersProofs` | theorems, with their lemmas |

`PsyAmerican` EXTENDS `Fees` and `SplToken`; `PsyAmericanRefinement` EXTENDS it
and instantiates `CoveredOptions`. `ClientCalls` EXTENDS `PsyAmerican` and
`Messages`: a client's call is an instruction whose message also has what it
takes. `SerumProxy` EXTENDS `SerumListing`, so the listing and the trading of
several pairs interleave. `ClientSetup` EXTENDS `Fees`, whose two fee functions
it lets disagree if they can. `V1Builders` and `MarketLookup` stand alone. The
proof modules extend the module they are about. No operator is recursive.

### The option markets: state

* `markets`: addresses at which an `OptionMarket` exists. Such an address is a
  PDA of the market's terms (`lib.rs`, seeds of `InitializeMarket`), and no
  instruction writes the account after `init`; so an address determines the
  terms, and they are the constant `Terms`. `TermsAssumption` says that two
  addresses never have the same terms.
* `ledger`: `balance` of each token account and `supply` of each option and
  writer mint. There is one account per owner and mint, written
  `<<owner, mint>>`. Pools belong to their market; lamports are kept as one more
  mint, `Sol`.
* `now`: the clock sysvar. `blocked`: whether the build with the panics is
  deployed. The repository's README ("Deploying the program") describes the
  upgrade of one program id in place. This commit's build alone could never
  issue anything, so the model starts with one that issues, from the same source
  without the `panic!` lines, and `Upgrade` may put this commit's in its place at any time.

### The option markets: actions

One action per instruction, with the names of the code in TLA+'s case, and the
validator of each as a set of account lists: `MintAccounts(m)` is what
`MintOption::accounts` lets pass for market `m`, field by field. A field the
validator ties to the market is a singleton; a field it leaves to the caller
ranges over all accounts of the mint it must have.

A transaction either succeeds or leaves nothing behind. Operators of `SplToken`
therefore take and return *sets* of ledgers: a call that fails (funds, owner,
overflow) yields the empty set, and so does everything after it. The ledgers that an
instruction can end in, over the account lists it takes, are its `...Results`; the action
is the conditions it checks first, and a ledger out of them. The order of the calls is the order of the code: the
fee is charged before a mint and after an exercise, writer tokens are burnt
before option tokens, and so on. Which error a refused transaction reports
is left out. So is a panic's difference from an error: `checked_mul(..).unwrap()`
fails like `?` does.

Around the program: `TokenTransfer` and `TokenBurn` are what the token program
lets every holder do (donations to a pool included), `Tick` is the clock,
`Upgrade` the deployment.

### The client

`ClientCalls` has no variables of its own. An account list says which accounts
sign, may be written and are read, as the IDL does; `Message` adds the payer, who
signs and is writable, and the remaining accounts; each handler's calls are
written down as what they need (`MintToNeeds`, `LamportNeeds`, ...), by the
branch the state takes. What the program's own account structs ask for, Anchor
checks in every branch: where that is more than the calls need (the fee owner and the writer of
`MintOption`, the fee owner and the options' owner of `ExerciseOption`, all `mut`), it is a need of
its own, `MintOptionFields` and `ExerciseOptionFields`. `MintOptionsGoesThrough` and the like say that the client's message
gets a result of the instruction past the runtime: it is `Accepted`, and by
`ChangesOnly` nothing changes that it did not mark writable. An action is the
instruction whose result goes through.

In `ClientSetup` each request of `initSetup` and its callers is a step, in
their order. `Send` has the three outcomes of a transaction that is `valid` (confirmed;
executed but not confirmed; lost) and the two of one that is not. `chain` is
the set of accounts, `missing` what the client remembers of its lookups, `stoppedAt` the
request that threw. The caller chooses amounts, expiration and fee accounts: `feeKey` is any of the fee owner's or
somebody else's, of the asset or of another token, as the helper's options allow.
Between any two requests others create or fund a fee account
(`OthersCreateFeeAccount`, `OthersSendLamports`) or the market itself (`OthersInitOptionMarket`: its
address follows from the mints and terms), the clock passes the expiration (`Expire`), and the
blocking build is deployed (`Upgrade`). `InitializeMarket` has the instruction's conditions, whoever asks.
The helpers' token amounts only matter for being zero or not. That the keys a
client generates are nobody else's is built in; that the associated accounts are
anybody's is what the module is about.

`V1Builders` keeps one market of the first version in contracts and, for each wallet, the
transaction it had built. `Land` executes it, `Fail` is a refusal or a blockhash that is
too old. Of the program it has four handlers, external, read off what the
builders pass and what their comments say.

`MarketLookup` lays both versions' accounts out field by field, so that an offset or
a size is what the code computes. Numbers above `MaxSafe` (2^53 in the code) lose their last
bit when a double holds them. A listing records, in `asOf`, the markets that existed
then. How the first version stores a market is known from the client's layout alone, as its program is
not in the repository: that its accounts have that layout, and so are all found, is an assumption.

### The DEX

In `SerumListing` a run of `listMarket` is a *lister*. It sends two transactions, either of
which may be lost before or after it took effect; `stage` is where the run is, `serum`
the queues each DEX market uses. Anybody else may list a pair with any queues that are allocated and
free, a run's included (`OthersInitSerumMarket`), or have a DEX market outside the program take one
(`OthersUseQueue`, into `elsewhere`): the program takes queues and books of any caller, unsigned. `init_serum_market` is modelled as the code
after its `panic!`; `Upgrade` deploys the panic, as in `PsyAmerican`.

In `SerumProxy`, `Frame` is what the client's middlewares put around a
request, `ValidationInstruction` and `OpenOrdersPdaInstruction` what the
program's take off, and a request does something only if the DEX finds its own tag
in what remains (`Entry`). A *loader* is a proxy that a client built by `marketLoader`: an
option market, a bump and a DEX market, which nothing compares. `signer` records who signed
the last step as a trader.

The DEX behind is external: bids of one lot at one price which nobody fills. An
order is on the book, then (cancelled by its owner or by a prune) its lot
is free and its slot waits for the event to be consumed. Real prunes are limited to 65,535
orders of an account, which holds at most 128; with a limit below what a trader keeps
placing a book need never be empty, and `DefaultLimit` keeps the code's order: above `Slots`.

### What is abstracted

* One account per owner and mint. A wallet's second account of a mint would
  behave as a second user's.
* No delegates, freezing or closing of token accounts: no handler uses
  them.
* Accounts that are not there. A wallet's and the fee owner's accounts all exist with
  balance 0; creating them is the client's (`ClientSetup`).
* Rent, compute budget, transaction fees, Anchor's discriminators.
* The check of the token program's and rent sysvar's address: one token program
  exists.
* Only sizes in `Sizes` are tried; the proofs allow any set of `u64`s.

In every module some operators have a variant in front
of them that leaves a check out or rounds otherwise (`ExpiredMarketAlways`,
`MintAccountsAnyPool`, `LoadUnchecked`, ...). No specification uses the
variants; they are put in place of the operator that follows them to see the
properties fail, which shows that each property depends on the code it is about.

## 3. Properties

In `PsyAmerican`:

* `OptionsCovered`: until expiration, a market's option supply is at most the
  contracts of underlying in its pool.
* `WritersCovered`: at any time, the writer supply is at most the contracts in
  both pools together.
* `WriterCanExit`: after expiration, for every holder of a writer token at least
  one of `close_post_expiration` and `burn_writer_for_quote` pays into the holder's
  own account, whatever the other writers took. It needs `WritersCovered`
  *and* that the check of `quotes_in_pool`, the arithmetic, the pools' authority and the
  sizes let the payment through.
* `PayoutsMatchBurns`: no step takes anything from a market's pool but against
  that market's tokens burnt in the same step, with the strike, which is not zero,
  paid in where the burnt token is an option.
* `LiabilitiesOnlyShrink`: once a market has expired, or the blocked build is deployed, no
  supply grows.
* `MarketsWindDown` (liveness): writer tokens do not stay in circulation for ever, if
  writers redeem through the client's helpers (`FairSpec` of `ClientCalls`).
* `ImplementsCoveredOptions`: a refinement, in `PsyAmericanRefinement`. Whole
  contracts in each pool stand for the abstract market's contracts. The
  abstract pools may grow by themselves (donations) but give up only what the
  transaction is due, in the market it names.

In `FeeQuotes`, for the quantity being quoted:

* `FeeWithinOneToken`, `FeeExactForCommonSizes`: `fees.rs` rounds the rate down
  and adds one unit; the fee is the nominal 5 bps, or one token more, and exactly
  the nominal one for quantities below `One / 2000` (9.2e15 tokens).
* `ClientPassesFeeAccountWhenRequired`: `mintOption.ts` passes a fee account
  exactly for the markets whose mint asks for one.
* `ProductFitsU128`: the unchecked multiplication does not overflow.

In `ClientCalls`:

* `ClientIssues`, `ClientExercisesAndCloses`: wherever the program would create a
  market, issue, exercise, redeem or close for a wallet, with any accounts, the client's own
  message for it goes through with that wallet's: some result over the wallet's own token accounts is reached, the fee
  accounts are those the program wants, in its order, and the
  IDL's flags cover the branch the fees take. Two exceptions are part of the statement, in
  `ExerciseHasPrivileges`: an exerciser who pays a lamport fee without paying for the
  transaction or owning the options, and an owner of the options who is
  neither exerciser nor payer.

In `ClientSetup`:

* `SetupRefusedForAReason`: a setup that nothing was lost of is refused at no request but
  the creation of its market, and there for one of five reasons (`Reason`), which last: an empty
  contract, a fee account of another owner or token (`tests/initialize.ts` tries these), an
  expiration that has passed, the blocked build, or a market or fee account that somebody else
  created meanwhile. What it excludes: that lamports sent ahead, an amount at which
  the client's fee and the program's disagree, or the order of the fee accounts has a setup refused, and that
  anything can be in the way of the accounts made after the market.
* `ReturnedIsComplete`: what the helpers return is there and funded.
* `SetupReturns` (liveness): every setup ends, and one whose requests are answered and that has no such
  reason ends with its market and accounts.

In `SerumListing` and `SerumProxy`:

* `MarketsKeepTheirQueues`: a listed DEX market never changes its queues and books.
* `RefusedForAReason`: a listing refused, and not lost, has a reason still there: the pair is
  listed, its queues or books were used up by others, no tried nonce gives the vaults an owner, or
  the build blocks.
* `PairsGetListed` (liveness): competitors do not all lose: but for lost requests and those
  reasons, a pair gets listed.
* `OrdersInListedMarkets`: orders and lots are in listed markets and open accounts only.
* `ActiveMarketsNotPruned`: an order of a live market leaves the book only if its owner
  signed. It holds for clients whose loaders pair a DEX market with its own
  option market, and not otherwise (section 5).
* `TradersGetOut` (liveness): after expiration books empty, lots return, slots become free,
  while traders go on placing orders.

In `V1Builders`:

* `BuiltCallsAreAccepted`: a transaction executed while the program would pay for it is accepted
  and runs the handler it was built for, unless a position's options belong to
  somebody who neither writes nor pays (`closePosition.ts` asks that owner for no
  signature).
* `WritersLeave` (liveness): after expiration both redemptions together get everybody out.

In `MarketLookup`:

* `ListedMarketsAreTrue`: for either program, an entry of a listing is a market with the terms
  its address was made from.
* `FetchedIsTrue`: what is fetched by its terms has those terms while doubles hold them.

## 4. Runs

| Run | Instance | States | Result |
|---|---|---|---|
| `one_market` | 2 wallets, 1 market: 2 tokens for 1, expires at 1; sizes 0, 1, 2, 4; `MaxU64` 7; clock to 2 | 83,604 | all six properties hold |
| `two_markets` | 2 wallets, a call and its mirrored put, expiring at 0 and 1, two invalid markets | 67,878 | three properties and the refinement hold |
| `wind_down` | 1 market, fair, redemptions by the client | 6,918 | holds |
| `fee_quotes` | `One` = 4096, rate 3/60, all quantities | 4,096 | hold |
| `client_calls` | 2 wallets as users and as payers, a call and its mirrored put with opposite fee branches, a third market with both fees in tokens | 64,160 | hold |
| `client_setup` | six amounts (zero included) on either side of both fees' rounding, fee accounts of either owner and token, expiration and upgrade at any time, others who create the market or a fee account | 788,862 | hold |
| `serum` | a client that competes for a pair with anybody and one that lists a pair without a vault owner, one queue each; 2 traders, 1 lot, 1 slot; expiration at 0, clock to 1 | 183,064 | seven properties hold |
| `v1_builders` | 2 writers, 3 contracts, each as anybody's payer | 12,675 | hold |
| `market_lookup` | 5 markets, two of which a double takes for one, and both programs | 2,106 | hold |
| `minting_blocked` | 1 market | | `MintingAvailable` violated |
| `expiration_now` | 1 market | | `ExpirationInTheFuture` violated |
| `prune_any_market` | 2 listed pairs, loaders of any option market; 2 lots | | `ActiveMarketsNotPruned` violated |

Why these bounds. Two wallets give a writer and a holder who are not the same,
two writers of one market once a token is sent, and an exerciser who is not the
payer. With `MaxU64` 7 and two tokens per contract a size of 4 overflows
`checked_mul`, and in a wrapping multiplication would come out as 0 tokens, so an
unchecked product is noticed at once. The market of `one_market` has an underlying
amount whose fee is one token and a quote amount whose fee is lamports, so both
branches of both fee payments run. Three values of the clock put the market
before, in and after its last second. With `TwoMarketTerms` the pools of `m1`
and `m2` hold the same two mints in opposite roles, and one market is expired
while the other is alive; `m3` has a zero strike, `m4` one asset. In
`fee_quotes`, quantities below 204 (`One / ClientDivisor`) get the exact fee and
some above one token more, so both parts of the rounding are met. The
assumption `ClientDivisor^2 <= One` needs at least 2^22 for the program's own
rate.

In `client_setup`, with `One` 64 and a rate of 1/4, amounts 0, 1, 3 have no fee, 4 and
above have one, so that every pair of fee accounts is missing, created or not
needed, and both may be asked for at one address. In `serum`, the nonces tried are 0 and 1: the traded pair gets an owner at
0, the other only at 2. One account, the event queue, stands for the three that a run
allocates: two kinds of them exceed what TLC does in minutes, `prune_any_market`'s instance has all three, and
the theorems any set. Somebody else lists a pair with a queue
of his own (none of the runs', to the model), with the run's or with the other run's, before or between
the two steps of a run. One slot and one lot let a trader use up his slots by
cancelling once, and be stuck until the event is consumed; two traders pass
the lot on. What a second lot and slot add, two traders with orders at a time, is in `prune_any_market`'s instance
and in the theorems. The second pair is in the run for its refusal;
for loaders that match, the markets do not interact, which `ActiveNotPruned`
(section 6) shows for any number. In `v1_builders` one writer wrote two contracts and sold
an option to the other, so that exercises drain the pool of somebody who can
no longer close. In `market_lookup`, `MaxSafe` is 8, and 8 and 9 are one double.

Invariants about one market need no third wallet in the proofs either, and
the theorems of section 6 hold without any of the bounds.

Deadlock is not checked: the clock stops at `MaxTime`, and a system with no
market, no contract and the blocked build has nothing left to do.

Fairness. In `wind_down` (`FairSpec` of `ClientCalls`) everybody may call the
program in any way. The clock advances (weak fairness of `Tick`). For every market
and wallet the redemption of one writer token through a helper is strongly
fair: a wallet that is again and again in a position to redeem does so once. Strong fairness
is the right strength because a redemption can be enabled and disabled for ever by
others (tokens sent to and fro). Solana's scheduler promises inclusion of a
transaction that is resubmitted, and nothing more; nothing is assumed of
which pool a wallet picks, that anybody stops trading, or that options are ever
exercised or closed. The assumption about wallets is about their
interest, not about code: writers who never redeem keep their tokens.

In `client_setup` the client's script is weakly fair: it is one process, and each
request ends, be it by an error. So are the listers' steps in `serum`. There, besides
the clock, the referral account gets created, somebody prunes each account (`prune` needs no signature), somebody
consumes its events (anybody may), its owner settles, all weakly: none of these
is disabled again by others for good while the property fails, since traders can only add
orders, and nobody else takes what is free. No fairness makes a trader stop or cancel. In
`v1_builders` the market expires and a blockhash grows too old (weak);
building either redemption, and executing one that stays possible to execute again and again, are
strongly fair, as a transaction may always fail before.

The liveness properties of `serum` are stated with `[]<>`: a book that is empty
again and again is one on which no order stays.

## 5. Where the repository and the program disagree

* `lib.rs:158` (and `:75`, `:27`): minting and creating markets panic with
  "Blocked instruction", while `tests/mint_v2.ts:131` says "should mint size
  OptionTokens" of a live market and a funded wallet. Run `minting_blocked`.
* `lib.rs:29` refuses `expiration < clock`; `errors.rs:5` says "Expiration must be
  in the future". A market can be created in the second it expires in, and even
  be minted in and exercised in that second. Run `expiration_now`.
* `serum_proxy.rs:36` checks the expiration of the option market it is handed and never that
  the DEX market after it belongs to that one; `tests/serum/prune.ts:2-3` says "only the
  permissioned OptionMarket can prune the order book", `errors.rs:57` "Cannot prune the
  market while it's still active". With an expired option market anybody can have the
  orders of another's live market cancelled. Run `prune_any_market`; for
  callers that pass the right one the theorem `ActiveNotPruned` holds.

Seen while modelling, and without a run of their own, since each can be read off the lines named:

* `fees.rs:9-10` speaks of contracts too small "to warrent a 3bps fee"; the
  rate is 5 bps, so contracts of 2,000 to 3,333 tokens pay the fee in tokens.
* `lib.rs:1192-1193` says the `expired` flag is set when Serum markets are closed and
  expiration is validated; `initialize_market` clears it and nothing sets it.
* `initializeMarket.ts:23-25` calls the lookup and creation of a fee account
  "guaranteed idempotent"; an account created in between fails the transaction, as
  `SetupRefusedForAReason` has to admit.
* `exerciseCoveredCall.ts:90` says 3 is the tag of `ExerciseCoveredCall`; the code
  encodes 2, and 3 is `ClosePostExpiration`'s.
* `market.ts:105`, "Get all the Markets the program has created", filters by the
  size of the first version's account; of psy_american it returns none, whose accounts
  have a discriminator and spare room.

## 6. What is proved

All theorems hold for any wallets, markets, assets, terms, endowment, set of sizes, and any
integer width, from the named assumptions of the modules: wallets, markets, fee
owner and mints are distinct (`PartiesAssumption`), an address determines the
terms and the terms are `u64`s (`TermsAssumption`), sizes and the lamport fee are numbers
(`AmountsAssumption`), pools and program mints start empty, and what there is of an asset is
the supply its mint records, a `u64` (`EndowmentAssumption`), and the fee parameters are sane
(`FeesAssumption`, `QuantityAssumption`). Those of the other modules are named in the same
way: what the constants of a setup, of listings, of traders, of builders and of lookups
range over (`SetupAssumption`, `ListingAssumption`, `ProxyAssumption`,
`BuildersAssumption`, `LookupAssumption`).

`PsyAmericanProofs`:

* `TypeCorrect`, `Covered`, `WritersBacked`: `Spec` implies always `TypeOK`,
  `OptionsCovered`, `WritersCovered`; `Invariance` the whole of `IInv` below.
* `LiabilitiesShrink`, `PayoutsBurn`: `Spec` implies the two action properties.
* `SupplyCounted`, `WritersExit`: supplies are what accounts hold, and `WriterCanExit`.

The inductive invariant is

    IInv == TypeOK /\ MarketsWellFormed /\ NothingUnlisted /\ OptionsCovered /\ WritersCovered

`Covered` and `WritersBacked` need each other (closing a position takes away
from both), a division by the amount per contract, and a strike that is not zero, need
`MarketsWellFormed` (positive amounts and two assets in every market that exists),
and a market that has just been created is covered because, by
`NothingUnlisted`, no market that does not exist has tokens in circulation.

The argument has three layers. The section on token operations says what transfer, mint and
burn do to each balance and supply. The instructions are then summed up
as *pool effects*: by how much, at least or at most, each moves the two pools
and two supplies of one market, and that it leaves every other market's alone (a
donation can only raise a pool). `DivShift` turns token
amounts into whole contracts, and coverage follows by arithmetic, one case per
instruction. The pools of two markets over the same mints are told apart by their
owner, which is where `PartiesAssumption` is used.

`WritersExit` needs a second invariant, `SuppliesCounted`: of every option and writer mint
the supply is the number of tokens in all accounts, and of every asset there are
never more than a `u64`. A holder's balance is then part of the supply, so that
`WritersCovered` finds a contract in one of the pools for it (`PoolHoldsContract`); and his own account
has room for what is paid, because both belong to one supply (`RoomForPayment`). A sum over
all accounts would take an induction over them. The proof counts instead: a token is a pair
of an account and a number (`TokensOf`), and a transfer, a mint or a burn changes the set of these
pairs by as many as it moves, creates or destroys (`UnitsMoved`, `UnitsAdded`, `UnitsRemoved` in
`ArithmeticLemmas`, by the library's theorems on cardinality).

`RefinementProofs`: `Implements`, that `Spec` implies `ImplementsCoveredOptions`. The pool
effects are the steps of the abstract market once tokens are counted in whole contracts. An
instruction moves its market by what the transaction is due, and every
other market's pools only grow. Creating a market must not create contracts, so the invariant is joined
by `NothingBefore` (`PoolsStartEmpty`): nothing was sent to a pool that did not exist.
Then, of the client: `ClientImplements`, that what it can do is a part of what
`PsyAmerican` allows, and with it coverage, `PayoutsMatchBurns` and `WriterCanExit` of the program
as used through the client, whoever pays. The other direction is `ClientIssuesAll` and
`ClientExercisesAll`, `ClientIssues` and `ClientExercisesAndCloses` for all wallets, terms and sizes:
what the program would do for a wallet with some accounts, the client's message gets with the
wallet's own. They have room for what arrives, by `SuppliesCounted`; each token operation
changes only accounts the IDL marks writable, one instruction after the other
(`AllKeep`); and the fees find their accounts by `FeesAgree`. An exercise takes its fee from the
exerciser after delivering to him: the delivery is in another asset than the fee, so the fee can still
be paid when it goes to his account instead of the caller's choice (`FeeStillPaid`), which is where `AssetsDiffer`
is needed.

`FeesProofs`: `QuantityCorrect`, `FeeWithinOne`, `FeeExact`, `ClientAgrees`,
`NoOverflow`, for any width and rate that satisfy `FeesAssumption`. The program's
own values do: 10,000 = 5 * 2,000 and 2,000^2 <= 2^64. The argument rests on
`FeeTimesDivisor`, the bracket of the rounded rate between `One / ClientDivisor`
and that plus one, and on `FeesAgree`.

`ClientSetupProofs`: `SetupTypes`, `SetupRefusals` (that is `SetupRefusedForAReason`),
`ReturnedComplete`, for any fee rate, amounts, fee accounts and interference. The inductive invariant is

    Inv == TypeOK /\ Whole /\ Placed /\ SetupRefusedForAReason
    Placed == Fresh /\ There /\ LookedUp /\ Minted

`Whole`: a market and its mints and pools are there together or not at all, whoever created them;
`Fresh`: what later requests create is not there yet; `There`: what earlier ones
created is; `LookedUp`: a fee account that the market needs was found or is about to
be created, and after the market's transaction it is there; `Minted`: the tokens asked for so
far are minted. That the
program then wants exactly the accounts passed is `FeesAgree`.

`SerumProofs`: `QueuesKept` and `RefusalsHaveReasons` of listings by themselves, and
`QueuesKeptTrading`, `RefusalsHaveReasonsTrading` of the same while their options trade.
The second needs `Ready`: a run between its two transactions has its queues allocated and its quote
mint there; and that every reason to be refused stays, whatever anybody does (`ReasonsLast`). `OrdersListed` and `ActiveNotPruned` hold under `LoadersMatch`
(clients that load a DEX market with its own option market), for any number of
markets, listers, traders, lots and slots; their invariant is

    IInv == ListingTypeOK /\ OrdersType /\ OrdersInListedMarkets

`TradingCorrect` is `TypeOK` with its bounds, that no wallet or account ever holds more lots than the
vault and no account uses more slots than it has, for all loaders. Its invariant
`TradingInv` says that the lots of a mint in wallets, on books and free are together
those in the vault, counted as tokens are above.

`MarketLookupProofs`: `ListedAreTrue`, `FetchedTrue`, for any set of terms
and any `MaxSafe`. Listings and what is fetched are in variables, so what needs proving is the step that reads:
where the client's layout is the account's, field by field, each is read where it lies; an account of
`psy_american` has more bytes than anything the client looks for.

`V1BuildersProofs`: `BuiltAccepted`, for any wallets and positions. Its invariant says that
a wallet has built one of the four transactions, for wallets; each is then
compared with what its handler needs.

## 7. What is only model-checked

* `MarketsWindDown`, `SetupReturns`, `PairsGetListed`, `TradersGetOut`, `WritersLeave`:
  liveness under fairness, which is out of the prover's reach. So is `ENABLED`, of which the
  refuted `MintingAvailable` speaks.
* Nothing else: every invariant and every safety property of a passing run is a theorem's.

What the checks depend on, and do not show:

* `PartiesAssumption` keeps assets and the program's own mints apart: a market whose asset is the option
  or writer token of another market is left out, although nothing in the program forbids it.
* The first version's program is not in the repository. The handlers and tags of `V1Builders` are read off the
  builders: that the tags of the four agree with each other and with the handlers' accounts is
  checked, that they are the deployed program's is not. For `MarketLookup` see section 2.
* The bounds in `TypeOK` (a supply is a `u64`, an account has no more orders than slots) are kept by the token program and
  by the DEX, which are external.

## 8. Not modelled, and why

* `programs/cpi_examples`. Example callers: a PDA of theirs signs the program's and the DEX's
  instructions as a user would. The theorems hold for any `Users`, so for those PDAs; the
  examples' own account, an option vault, only fixes its address.
* Matching, fills, fees and rebates inside the Serum DEX. It is another program,
  and the proxy leaves all requests but `prune`'s as they are. `SerumProxy` is therefore
  listed as partly modelled.
* `types.ts`, `error.ts`, `index.ts`, `utils/ids.ts`: declarations, addresses, a table of error texts.
* Error codes, logs, rent, compute budgets.
* The integration tests, except for what they say of the program (section 5), and how they use
  the client, which `ClientCalls` and `SerumProxy` have from them where no
  helper does it.

## 9. Running

    tlc -config OneMarket.cfg MCPsyAmerican
    tlc -config MCFeeQuotes.cfg FeeQuotes
    tlc -config Serum.cfg MCSerumProxy
    tlapm PsyAmericanProofs.tla

`PROJECT.json` lists the runs and maps every definition to the lines it models.
