-------------------------- MODULE BundleSubmission --------------------------
(***************************************************************************)
(* What search() does with the bundles of the generators (lib.rs):         *)
(* simulate each, keep the best, and submit it to two relays at once;      *)
(* Bundle::submit (flashbots.rs) with sign_transactions (wallet.rs), which *)
(* reads the executor's nonce afresh for every submission; and the relays  *)
(* and the chain that the bundles end up in, which are external.           *)
(*                                                                         *)
(* A bundle holds one transaction.  It names the block it is for (the one  *)
(* after the block the iteration started from), and the chain includes it  *)
(* in that block only, and only with the account's next nonce.             *)
(***************************************************************************)
EXTENDS Integers, Sequences, FiniteSets

CONSTANTS
    Relays,         \* the relays a bundle is sent to
    NumGenerators,  \* bundle generators that are asked
    MaxScore,       \* bound: the highest effective gas price of a bundle
    MaxHeight       \* bound: blocks mined in a behaviour

ASSUME SubmissionAssumption ==
    /\ IsFiniteSet(Relays)
    /\ NumGenerators \in Nat
    /\ MaxScore \in Nat
    /\ MaxHeight \in Nat

VARIABLES
    blocks,    \* our transactions in each block of the chain
    nonce,     \* transaction_count of the executor's account at the head
    inbox,     \* the signed bundles that each relay holds
    mode,      \* operation_mode: "send" or "simulate"
    pc,        \* "idle", "generate", "simulate", "submit", "hung" or "exited"
    number,    \* block_number, the block the iteration started from
    bundles,   \* the scores of the generators' bundles, in their order
    next,      \* the bundle that is simulated next
    best,      \* index of best_bundle
    bestScore, \* best_score
    passed,    \* history: the bundles whose simulation returned Ok
    submits    \* the submission to each relay: its step and the nonce it signed

chainVars == <<blocks, nonce>>
searchVars == <<number, bundles, next, best, bestScore, passed>>
vars == <<chainVars, inbox, mode, pc, searchVars, submits>>

Height == Len(blocks)

NotSubmitted == [r \in Relays |-> [step |-> "sign", nonce |-> 0]]

Init ==
    /\ blocks = <<>>
    /\ nonce = 0
    /\ inbox = [r \in Relays |-> {}]
    /\ mode \in {"send", "simulate"}
    /\ pc = "idle"
    /\ number = 0
    /\ bundles = <<>>
    /\ next = 1
    /\ best = 1
    /\ bestScore = 0
    /\ passed = {}
    /\ submits = NotSubmitted

\* An iteration is over, or its process: the locals of search() are dropped.
Leave(pcNext) ==
    /\ pc' = pcNext
    /\ number' = 0
    /\ bundles' = <<>>
    /\ next' = 1
    /\ best' = 1
    /\ bestScore' = 0
    /\ passed' = {}
    /\ submits' = NotSubmitted

-----------------------------------------------------------------------------
\* The bundles that some relay offers for the next block.
Offered == {b \in UNION {inbox[r] : r \in Relays} : b.target = Height + 1}

\* A block that includes the bundles in B is valid if their nonces are the next
\* ones of the account, each once.
ValidBlock(B) ==
    /\ \A b, c \in B : b.nonce = c.nonce => b = c
    /\ \A b \in B : b.nonce >= nonce
    /\ \A b \in B : \A n \in nonce .. b.nonce : \E c \in B : c.nonce = n

\* A block is mined with some of the bundles offered for it, and with up to one
\* other transaction of the account; the relays forget bundles for past blocks.
Mine(B, others) ==
    /\ Height < MaxHeight
    /\ ValidBlock(B)
    /\ blocks' = Append(blocks, B)
    /\ nonce' = nonce + Cardinality(B) + others
    /\ inbox' = [r \in Relays |-> {b \in inbox[r] : b.target > Height + 1}]
    /\ UNCHANGED <<mode, pc, searchVars, submits>>

-----------------------------------------------------------------------------
\* An iteration of loop_blocks: the client answers with its latest block.
BeginIteration ==
    /\ pc = "idle"
    /\ pc' = "generate"
    /\ number' = Height
    /\ UNCHANGED <<chainVars, inbox, mode, bundles, next, best, bestScore, passed, submits>>

\* join_all of the generators: each answers None or a bundle, whose effective gas
\* price is above the lowest of the pool.  scores are those of the bundles, in order.
GenerateNone ==
    /\ pc = "generate"
    /\ Leave("idle")
    /\ UNCHANGED <<chainVars, inbox, mode>>

Generate(scores) ==
    /\ pc = "generate"
    /\ scores # <<>>
    /\ bundles' = scores
    /\ pc' = "simulate"
    /\ UNCHANGED <<chainVars, inbox, mode, number, next, best, bestScore, passed, submits>>

\* Mutant of Better: a bundle of the same score replaces the best one.
NotWorse(score) == score >= bestScore

Better(score) == score > bestScore

\* One simulation returns: an error moves on to the next bundle.
Simulate(ok) ==
    /\ pc = "simulate"
    /\ next <= Len(bundles)
    /\ next' = next + 1
    /\ IF ok /\ Better(bundles[next])
         THEN best' = next /\ bestScore' = bundles[next]
         ELSE UNCHANGED <<best, bestScore>>
    /\ passed' = IF ok THEN passed \union {next} ELSE passed
    /\ UNCHANGED <<chainVars, inbox, mode, pc, number, bundles, submits>>

\* Mutant of MaySend: the operation mode is not looked at.
AlwaysSend == TRUE

MaySend == mode = "send"

\* match run_data.operation_mode, after the last simulation.
StartSubmit ==
    /\ pc = "simulate"
    /\ next > Len(bundles)
    /\ MaySend
    /\ pc' = "submit"
    /\ UNCHANGED <<chainVars, inbox, mode, searchVars, submits>>

SimulatedOnly ==
    /\ pc = "simulate"
    /\ next > Len(bundles)
    /\ ~MaySend
    /\ Leave("idle")
    /\ UNCHANGED <<chainVars, inbox, mode>>

\* Mutant of SignedNonce: the nonce is counted up over the relays' copies of the
\* one transaction.
CountedNonce(r) == nonce + Cardinality({q \in Relays \ {r} : submits[q].step # "sign"})

\* utilities::nonce: the transaction count at the client's head.
SignedNonce(r) == nonce

\* sign_transactions of one of the two concurrent submissions.
Sign(r) ==
    /\ pc = "submit"
    /\ submits[r].step = "sign"
    /\ submits' = [submits EXCEPT ![r] = [step |-> "post", nonce |-> SignedNonce(r)]]
    /\ UNCHANGED <<chainVars, inbox, mode, pc, searchVars>>

\* Mutant of Bundle: the block before the one the iteration started from.
BundleForPast(r) ==
    [relay |-> r, target |-> number - 1, nonce |-> submits[r].nonce]

\* eth_sendBundle: the signed transaction, for self.block + 1.
Bundle(r) == [relay |-> r, target |-> number + 1, nonce |-> submits[r].nonce]

\* Mutant of Post: a rejected bundle is posted again.
PostUntilAccepted(r, accepted) ==
    /\ pc = "submit"
    /\ submits[r].step = "post"
    /\ submits' = [submits EXCEPT ![r].step = IF accepted THEN "done" ELSE "sign"]
    /\ inbox' = IF accepted THEN [inbox EXCEPT ![r] = @ \union {Bundle(r)}] ELSE inbox
    /\ UNCHANGED <<chainVars, mode, pc, searchVars>>

\* The relay answers the post: with 200 it holds the bundle, else it does not.
Post(r, accepted) ==
    /\ pc = "submit"
    /\ submits[r].step = "post"
    /\ submits' = [submits EXCEPT ![r].step = "done"]
    /\ inbox' = IF accepted THEN [inbox EXCEPT ![r] = @ \union {Bundle(r)}] ELSE inbox
    /\ UNCHANGED <<chainVars, mode, pc, searchVars>>

\* join! of the two submissions has returned; their results are only logged.
EndSubmit ==
    /\ pc = "submit"
    /\ \A r \in Relays : submits[r].step = "done"
    /\ Leave("idle")
    /\ UNCHANGED <<chainVars, inbox, mode>>

-----------------------------------------------------------------------------
\* A generator never answers: the bisection that its amounts are found with does not
\* leave its loop for some pools (CrossedMarkets says for which), so join_all waits.
GeneratorHangs ==
    /\ pc = "generate"
    /\ pc' = "hung"
    /\ UNCHANGED <<chainVars, inbox, mode, searchVars, submits>>

\* A request of the process fails and the unwrap() of its result ends it.
RequestFails ==
    /\ pc \in {"generate", "simulate", "submit"}
    /\ Leave("exited")
    /\ UNCHANGED <<chainVars, inbox, mode>>

\* The answer of a relay is lost after the relay took the bundle.
AnswerLost(r) ==
    /\ pc = "submit"
    /\ submits[r].step = "post"
    /\ inbox' = [inbox EXCEPT ![r] = @ \union {Bundle(r)}]
    /\ Leave("exited")
    /\ UNCHANGED <<chainVars, mode>>

Restart ==
    /\ pc = "exited"
    /\ Leave("idle")
    /\ UNCHANGED <<chainVars, inbox, mode>>

-----------------------------------------------------------------------------
Environment ==
    \/ \E B \in SUBSET Offered, others \in 0 .. 1 : Mine(B, others)
    \/ BeginIteration
    \/ GeneratorHangs
    \/ RequestFails
    \/ \E r \in Relays : AnswerLost(r)
    \/ Restart

Search ==
    \/ GenerateNone
    \/ \E n \in 1 .. NumGenerators : \E scores \in [1 .. n -> 1 .. MaxScore] : Generate(scores)
    \/ \E ok \in BOOLEAN : Simulate(ok)
    \/ StartSubmit
    \/ SimulatedOnly
    \/ \E r \in Relays : Sign(r)
    \/ \E r \in Relays, accepted \in BOOLEAN : Post(r, accepted)
    \/ EndSubmit

Next == Environment \/ Search

Spec == Init /\ [][Next]_vars

\* The client and the relays answer (or the request fails), and the async runtime
\* polls every future that is ready.  That the generators answer is not part of it:
\* GeneratorHangs may come before Generate and GenerateNone.
FairSpec == Spec /\ WF_vars(Search)

-----------------------------------------------------------------------------
SignedBundle == [relay : Relays, target : Nat, nonce : Nat]

TypeOK ==
    /\ blocks \in Seq(SUBSET SignedBundle)
    /\ nonce \in Nat
    /\ inbox \in [Relays -> SUBSET SignedBundle]
    /\ mode \in {"send", "simulate"}
    /\ pc \in {"idle", "generate", "simulate", "submit", "hung", "exited"}
    /\ number \in Nat
    /\ bundles \in Seq(Nat)
    /\ next \in Nat
    /\ best \in Nat
    /\ bestScore \in Nat
    /\ passed \subseteq Nat
    /\ submits \in [Relays -> [step : {"sign", "post", "done"}, nonce : Nat]]

\* However the two submissions, the searches that start from the same block, the
\* restarts and the blocks interleave, no block includes more than one of the
\* bundles: the copies for one block are all signed with the same nonce.
OneBundlePerBlock ==
    \A h \in 1 .. Height : \A b, c \in blocks[h] : b = c

\* The inductive invariant behind OneBundlePerBlock: what can still be included
\* in the next block, held by a relay or about to be posted, is signed with the
\* account's nonce at the head.
NonceInv ==
    /\ number <= Height
    /\ \A r \in Relays : \A b \in inbox[r] :
          b.target <= Height + 1 /\ (b.target = Height + 1 => b.nonce = nonce)
    /\ \A r \in Relays : submits[r].step = "post" =>
          /\ pc = "submit"
          /\ number = Height => submits[r].nonce = nonce

\* The inductive invariant behind the next two: what is passed, best and bestScore are
\* those of the bundles simulated so far, and nothing gets to the relays in simulation
\* mode because the submission is never begun.
ChoiceInv ==
    /\ \A i \in DOMAIN bundles : bundles[i] > 0
    /\ passed \subseteq {i \in DOMAIN bundles : i < next}
    /\ passed = {} => best = 1 /\ bestScore = 0
    /\ passed # {} => best \in passed /\ bestScore = bundles[best]
    /\ \A i \in passed : bundles[i] <= bestScore /\ (i < best => bundles[i] < bestScore)
    /\ pc \notin {"simulate", "submit"} => bundles = <<>> /\ next = 1
    /\ mode = "simulate" => pc # "submit"

\* A bundle that is submitted is the first of the best among those whose
\* simulation returned Ok, if there is one.
BestPassedIsSubmitted ==
    pc = "submit" /\ passed # {} =>
        /\ best \in passed
        /\ \A i \in passed :
              /\ bundles[i] <= bundles[best]
              /\ i < best => bundles[i] < bundles[best]

\* With SIMULATE_ONLY set no relay ever holds a bundle, and no block includes one.
SimulateOnly ==
    mode = "simulate" =>
        /\ \A r \in Relays : inbox[r] = {}
        /\ \A h \in 1 .. Height : blocks[h] = {}

\* "I.E. if error, continue" (lib.rs:201), "Drop bundle on error" (lib.rs:185):
\* a bundle is submitted only if its simulation returned Ok.
FailedIsDropped == pc = "submit" => best \in passed

Running == pc \in {"generate", "simulate", "submit"}

\* The steps that a search has still to make, at most.
StepsLeft ==
    LET Unsent   == {r \in Relays : submits[r].step # "done"}
        Unsigned == {r \in Relays : submits[r].step = "sign"}
    IN  CASE pc = "generate" -> NumGenerators + 2 * Cardinality(Relays) + 3
          [] pc = "simulate" -> (Len(bundles) + 1 - next) + 2 * Cardinality(Relays) + 2
          [] pc = "submit"   -> Cardinality(Unsent) + Cardinality(Unsigned) + 1
          [] OTHER           -> 0

\* Every answer brings a search nearer to its end, by one of a number of steps that is
\* known when it begins: none is asked for again, whatever fails and is mined meanwhile.
SearchAdvances ==
    [][Running /\ <<pc, searchVars, submits>>' # <<pc, searchVars, submits>>
           => StepsLeft' \in 0 .. StepsLeft - 1]_vars

\* Once the generators have answered, the simulations and the submission come to an end,
\* whatever the order of the answers: no submission waits for the other or is made again
\* until its relay accepts it, and no bundle is simulated twice.
SubmissionEnds == pc \in {"simulate", "submit"} ~> pc \in {"idle", "exited"}
=============================================================================
