----------------------- MODULE BundleSubmissionProofs -----------------------
(***************************************************************************)
(* Proofs about BundleSubmission, for any number of relays, generators,    *)
(* blocks and restarts.                                                    *)
(***************************************************************************)
EXTENDS BundleSubmission, FiniteSetTheorems, SequenceTheorems, TLAPS

\* The part of TypeOK that the nonces depend on.
NonceTypes ==
    /\ blocks \in Seq(SUBSET SignedBundle)
    /\ nonce \in Nat
    /\ inbox \in [Relays -> SUBSET SignedBundle]
    /\ number \in Nat
    /\ best \in Nat
    /\ next \in Nat
    /\ submits \in [Relays -> [step : {"sign", "post", "done"}, nonce : Nat]]

IInv == NonceTypes /\ NonceInv /\ OneBundlePerBlock

LEMMA NonceInit == Init => IInv
<1> SUFFICES ASSUME Init PROVE IInv
  OBVIOUS
<1> USE DEF Init, NotSubmitted
<1>1. blocks \in Seq(SUBSET SignedBundle) /\ Len(blocks) = 0
  BY EmptySeq
<1>2. NonceTypes
  BY <1>1 DEF NonceTypes
<1>3. NonceInv
  BY <1>1 DEF NonceInv, Height
<1>4. OneBundlePerBlock
  BY <1>1 DEF OneBundlePerBlock, Height
<1> QED
  BY <1>2, <1>3, <1>4 DEF IInv

\* All the bundles that can be included next have the same nonce, so a valid
\* block includes at most one of them.
LEMMA AtMostOneIncluded ==
    ASSUME IInv, NEW B \in SUBSET Offered, ValidBlock(B)
    PROVE  /\ \A b, c \in B : b = c
           /\ Cardinality(B) \in Nat
           /\ B \in SUBSET SignedBundle
<1>1. \A b \in B : b \in SignedBundle /\ b.nonce = nonce
  BY DEF IInv, NonceTypes, NonceInv, Offered
<1>2. \A b, c \in B : b = c
  BY <1>1 DEF ValidBlock
<1>3. CASE B = {}
  BY <1>1, <1>3, FS_EmptySet
<1>4. CASE B # {}
  <2>1. PICK b \in B : TRUE
    BY <1>4
  <2>2. B = {b}
    BY <2>1, <1>2
  <2>3. Cardinality({b}) = 1
    BY FS_Singleton
  <2> QED
    BY <2>2, <2>3, <1>1, <1>2
<1> QED
  BY <1>3, <1>4, <1>1, <1>2

LEMMA MineStep ==
    ASSUME IInv, NEW B \in SUBSET Offered, NEW others \in 0 .. 1, Mine(B, others)
    PROVE  IInv'
<1>1. NonceTypes /\ NonceInv /\ OneBundlePerBlock
  BY DEF IInv
<1>2. (\A b, c \in B : b = c) /\ Cardinality(B) \in Nat /\ B \in SUBSET SignedBundle
  BY AtMostOneIncluded DEF Mine
<1>3. /\ blocks' \in Seq(SUBSET SignedBundle)
      /\ Len(blocks') = Len(blocks) + 1
      /\ \A h \in 1 .. Len(blocks) : blocks'[h] = blocks[h]
      /\ blocks'[Len(blocks) + 1] = B
  BY <1>1, <1>2, AppendProperties DEF Mine, NonceTypes
<1>4. Len(blocks) \in Nat
  BY <1>1 DEF NonceTypes
<1>5. UNCHANGED <<number, best, next, submits>>
  BY DEF Mine, searchVars
<1>6. \A r \in Relays : inbox'[r] = {b \in inbox[r] : b.target > Height + 1}
  BY DEF Mine
<1>7. NonceTypes'
  <2>1. nonce' \in Nat
    BY <1>1, <1>2 DEF Mine, NonceTypes
  <2>2. inbox' \in [Relays -> SUBSET SignedBundle]
    BY <1>1 DEF Mine, NonceTypes
  <2> QED
    BY <2>1, <2>2, <1>1, <1>3, <1>5 DEF NonceTypes
<1>8. NonceInv'
  <2>1. \A r \in Relays : inbox'[r] = {}
    <3>1. \A r \in Relays : \A b \in inbox[r] : b.target <= Height + 1 /\ b.target \in Nat
      BY <1>1 DEF NonceInv, NonceTypes, SignedBundle
    <3> QED
      BY <3>1, <1>4, <1>6 DEF Height
  <2>2. number <= Height /\ number \in Nat
    BY <1>1 DEF NonceInv, NonceTypes
  <2>3. pc' = pc /\ \A r \in Relays : submits[r].step = "post" => pc = "submit"
    BY <1>1 DEF NonceInv, Mine
  <2> QED
    BY <2>1, <2>2, <2>3, <1>3, <1>4, <1>5 DEF NonceInv, Height
<1>9. OneBundlePerBlock'
  BY <1>1, <1>2, <1>3, <1>4 DEF OneBundlePerBlock, Height
<1> QED
  BY <1>7, <1>8, <1>9 DEF IInv

\* A relay takes the bundle of a posted submission.
LEMMA AcceptStep ==
    ASSUME IInv, NEW r \in Relays, submits[r].step = "post",
           inbox' = [inbox EXCEPT ![r] = @ \union {Bundle(r)}],
           UNCHANGED chainVars
    PROVE  /\ inbox' \in [Relays -> SUBSET SignedBundle]
           /\ \A q \in Relays : \A b \in inbox'[q] :
                 b.target <= Height' + 1 /\ (b.target = Height' + 1 => b.nonce = nonce')
<1>1. NonceTypes /\ NonceInv
  BY DEF IInv
<1>2. Len(blocks) \in Nat /\ blocks' = blocks /\ nonce' = nonce
  BY <1>1 DEF NonceTypes, chainVars
<1>3. /\ Bundle(r) \in SignedBundle
      /\ Bundle(r).target = number + 1
      /\ Bundle(r).nonce = submits[r].nonce
  BY <1>1 DEF Bundle, SignedBundle, NonceTypes
<1>4. Bundle(r).target <= Height + 1 /\ (Bundle(r).target = Height + 1 => Bundle(r).nonce = nonce)
  BY <1>1, <1>2, <1>3 DEF NonceInv, NonceTypes, Height
<1>5. \A q \in Relays : inbox'[q] = IF q = r THEN inbox[q] \union {Bundle(r)} ELSE inbox[q]
  BY <1>1 DEF NonceTypes
<1>6. inbox' \in [Relays -> SUBSET SignedBundle]
  BY <1>1, <1>3 DEF NonceTypes
<1> HIDE DEF Bundle
<1> QED
  BY <1>1, <1>2, <1>4, <1>5, <1>6 DEF NonceInv, Height

LEMMA NonceStep ==
    ASSUME IInv, [Next]_vars
    PROVE  IInv'
<1>1. NonceTypes /\ NonceInv /\ OneBundlePerBlock /\ Len(blocks) \in Nat
  BY DEF IInv, NonceTypes
<1>2. CASE \E B \in SUBSET Offered, others \in 0 .. 1 : Mine(B, others)
  BY <1>2, MineStep
\* The chain and the relays stay as they are when an iteration begins or ends.
<1>3. ASSUME UNCHANGED <<blocks, nonce>>
      PROVE  OneBundlePerBlock'
  BY <1>1, <1>3 DEF OneBundlePerBlock, Height
<1>4. ASSUME UNCHANGED <<blocks, nonce, inbox, number, submits>>,
             best' \in Nat, next' \in Nat,
             pc = "submit" => pc' = "submit"
      PROVE  IInv'
  BY <1>1, <1>3, <1>4 DEF IInv, NonceTypes, NonceInv, Height
<1>5. ASSUME NEW pcNext, Leave(pcNext), UNCHANGED <<blocks, nonce, inbox>>
      PROVE  IInv'
  BY <1>1, <1>3, <1>5 DEF Leave, NotSubmitted, IInv, NonceTypes, NonceInv, Height
<1>6. CASE BeginIteration
  <2>1. /\ UNCHANGED <<blocks, nonce, inbox, best, next, submits>>
        /\ number' = Len(blocks) /\ pc = "idle"
    BY <1>6 DEF BeginIteration, chainVars, Height
  <2>2. \A r \in Relays : submits[r].step # "post"
    BY <1>1, <2>1 DEF NonceInv
  <2>3. NonceTypes' /\ NonceInv'
    BY <1>1, <2>1, <2>2 DEF NonceTypes, NonceInv, Height
  <2> QED
    BY <2>1, <2>3, <1>3 DEF IInv
<1>7. CASE \/ GenerateNone \/ SimulatedOnly \/ EndSubmit
           \/ RequestFails \/ Restart
  BY <1>5, <1>7 DEF GenerateNone, SimulatedOnly, EndSubmit, RequestFails, Restart, chainVars
<1>8. CASE \/ \E n \in 1 .. NumGenerators : \E scores \in [1 .. n -> 1 .. MaxScore] : Generate(scores)
           \/ StartSubmit \/ GeneratorHangs
  <2>1. /\ UNCHANGED <<blocks, nonce, inbox, number, submits, best, next>>
        /\ pc # "submit"
    BY <1>8 DEF Generate, StartSubmit, GeneratorHangs, chainVars, searchVars
  <2> QED
    BY <2>1, <1>1, <1>4 DEF NonceTypes
<1>9. CASE \E ok \in BOOLEAN : Simulate(ok)
  <2>1. /\ UNCHANGED <<blocks, nonce, inbox, number, submits>>
        /\ next' = next + 1 /\ (best' = best \/ best' = next)
        /\ pc # "submit"
    BY <1>9 DEF Simulate, chainVars
  <2> QED
    BY <2>1, <1>1, <1>4 DEF NonceTypes
<1>10. CASE \E r \in Relays : Sign(r)
  <2>1. PICK r \in Relays : Sign(r)
    BY <1>10
  <2>2. /\ UNCHANGED <<blocks, nonce, inbox, number, best, next>>
        /\ pc = "submit" /\ pc' = "submit"
        /\ submits' = [submits EXCEPT ![r] = [step |-> "post", nonce |-> nonce]]
    BY <2>1 DEF Sign, SignedNonce, chainVars, searchVars
  <2>3. NonceTypes'
    BY <2>2, <1>1 DEF NonceTypes
  <2>4. NonceInv'
    BY <2>2, <1>1 DEF NonceTypes, NonceInv, Height
  <2> QED
    BY <2>2, <2>3, <2>4, <1>3 DEF IInv
<1>11. CASE \E r \in Relays, accepted \in BOOLEAN : Post(r, accepted)
  <2>1. PICK r \in Relays, accepted \in BOOLEAN : Post(r, accepted)
    BY <1>11
  <2>2. /\ UNCHANGED <<blocks, nonce, number, best, next, pc>>
        /\ submits' = [submits EXCEPT ![r].step = "done"]
        /\ submits[r].step = "post"
    BY <2>1 DEF Post, chainVars, searchVars
  <2>3. /\ inbox' \in [Relays -> SUBSET SignedBundle]
        /\ \A q \in Relays : \A b \in inbox'[q] :
              b.target <= Height' + 1 /\ (b.target = Height' + 1 => b.nonce = nonce')
    <3>1. CASE inbox' = inbox
      BY <3>1, <2>2, <1>1 DEF NonceTypes, NonceInv, Height
    <3>2. CASE inbox' = [inbox EXCEPT ![r] = @ \union {Bundle(r)}]
      BY <3>2, <2>2, AcceptStep DEF chainVars
    <3> QED
      BY <2>1, <3>1, <3>2 DEF Post
  <2>4. NonceTypes'
    BY <2>2, <2>3, <1>1 DEF NonceTypes
  <2>5. \A q \in Relays : submits'[q].step = "post" => submits[q].step = "post" /\ submits'[q] = submits[q]
    BY <2>2, <1>1 DEF NonceTypes
  <2>6. NonceInv'
    BY <2>2, <2>3, <2>5, <1>1 DEF NonceInv, Height
  <2> QED
    BY <2>2, <2>4, <2>6, <1>3 DEF IInv
<1>12. CASE \E r \in Relays : AnswerLost(r)
  <2>1. PICK r \in Relays : AnswerLost(r)
    BY <1>12
  <2>2. /\ UNCHANGED <<blocks, nonce>> /\ Leave("exited")
        /\ submits[r].step = "post"
        /\ inbox' = [inbox EXCEPT ![r] = @ \union {Bundle(r)}]
    BY <2>1 DEF AnswerLost, chainVars
  <2>3. /\ inbox' \in [Relays -> SUBSET SignedBundle]
        /\ \A q \in Relays : \A b \in inbox'[q] :
              b.target <= Height' + 1 /\ (b.target = Height' + 1 => b.nonce = nonce')
    BY <2>2, AcceptStep DEF chainVars
  <2>4. NonceTypes'
    BY <2>2, <2>3, <1>1 DEF Leave, NotSubmitted, NonceTypes
  <2>5. NonceInv'
    BY <2>2, <2>3, <1>1 DEF Leave, NotSubmitted, NonceInv, Height
  <2> QED
    BY <2>2, <2>4, <2>5, <1>3 DEF IInv
<1>13. CASE UNCHANGED vars
  <2>1. UNCHANGED <<blocks, nonce, inbox, number, submits, best, next, pc>>
    BY <1>13 DEF vars, chainVars, searchVars
  <2> QED
    BY <2>1, <1>1, <1>4 DEF NonceTypes
<1> QED
  BY <1>2, <1>6, <1>7, <1>8, <1>9, <1>10, <1>11, <1>12, <1>13
     DEF Next, Environment, Search

-----------------------------------------------------------------------------
\* The variables of a search.
SearchTypes ==
    /\ mode \in {"send", "simulate"}
    /\ pc \in {"idle", "generate", "simulate", "submit", "hung", "exited"}
    /\ bundles \in Seq(Nat)
    /\ next \in Nat \ {0}
    /\ bestScore \in Nat

SearchInv == SearchTypes /\ ChoiceInv

LEMMA SearchInit == Init => SearchInv /\ SimulateOnly
<1> SUFFICES ASSUME Init PROVE SearchInv /\ SimulateOnly
  OBVIOUS
<1> USE DEF Init
<1>1. bundles = <<>> /\ bundles \in Seq(Nat) /\ DOMAIN bundles = {}
  BY EmptySeq
<1>2. SearchInv
  BY <1>1 DEF SearchInv, SearchTypes, ChoiceInv
<1>3. SimulateOnly
  BY DEF SimulateOnly, Height
<1> QED
  BY <1>2, <1>3

\* The locals of search() are dropped together.
LEMMA LeaveStep ==
    ASSUME SearchInv, NEW pcNext \in {"idle", "exited"}, Leave(pcNext), mode' = mode
    PROVE  SearchInv'
<1>1. bundles' = <<>> /\ bundles' \in Seq(Nat) /\ DOMAIN bundles' = {}
  BY EmptySeq DEF Leave
<1>2. SearchTypes'
  BY <1>1 DEF SearchInv, SearchTypes, Leave
<1>3. ChoiceInv'
  BY <1>1 DEF ChoiceInv, Leave
<1> QED
  BY <1>2, <1>3 DEF SearchInv

\* The generators have answered with some bundles.
LEMMA GenerateStep ==
    ASSUME SearchInv, NEW n \in 1 .. NumGenerators, NEW scores \in [1 .. n -> 1 .. MaxScore],
           Generate(scores)
    PROVE  SearchInv'
<1>1. SearchTypes /\ ChoiceInv /\ pc = "generate" /\ bundles = <<>>
  BY DEF SearchInv, ChoiceInv, Generate
<1>2. NumGenerators \in Nat /\ MaxScore \in Nat
  BY SubmissionAssumption
<1>3. n \in Nat /\ \A i \in 1 .. n : scores[i] \in Nat /\ scores[i] > 0
  BY <1>2
<1>4. scores \in Seq(Nat) /\ DOMAIN scores = 1 .. n
  BY <1>3, SeqDef
<1>5. passed = {}
  BY <1>1 DEF ChoiceInv
<1>6. /\ UNCHANGED <<mode, next, best, bestScore, passed>>
      /\ bundles' = scores /\ pc' = "simulate"
  BY DEF Generate
<1>7. SearchTypes'
  BY <1>1, <1>4, <1>6 DEF SearchTypes
<1>8. ChoiceInv'
  BY <1>1, <1>3, <1>4, <1>5, <1>6 DEF ChoiceInv
<1> QED
  BY <1>7, <1>8 DEF SearchInv

\* One simulation more: the best is still the first of the best that passed.  A first
\* one that passes is better than none, because every bundle has a score above 0.
LEMMA SimulateStep ==
    ASSUME SearchInv, NEW ok \in BOOLEAN, Simulate(ok)
    PROVE  SearchInv'
<1>1. SearchTypes /\ ChoiceInv
  BY DEF SearchInv
<1>2. /\ next \in DOMAIN bundles
      /\ UNCHANGED <<mode, pc, bundles>> /\ next' = next + 1 /\ pc = "simulate"
  BY <1>1 DEF Simulate, SearchTypes
<1>3. /\ bundles[next] \in Nat /\ bundles[next] > 0
      /\ \A i \in DOMAIN bundles : bundles[i] \in Nat /\ i \in Nat
  BY <1>1, <1>2 DEF SearchTypes, ChoiceInv
<1>4. \A i \in passed : i \in DOMAIN bundles /\ i \in Nat /\ i < next
  BY <1>1, <1>3 DEF ChoiceInv
<1>5. CASE ~ok
  <2>1. UNCHANGED <<passed, best, bestScore>>
    BY <1>5 DEF Simulate
  <2>2. SearchTypes'
    BY <1>1, <1>2, <2>1 DEF SearchTypes
  <2>3. \A i \in passed : i \in DOMAIN bundles /\ i < next + 1
    BY <1>1, <1>4 DEF SearchTypes
  <2>4. passed' \subseteq {i \in DOMAIN bundles' : i < next'}
    BY <1>2, <2>1, <2>3
  <2>5. ChoiceInv'
    BY <1>1, <1>2, <2>1, <2>4 DEF ChoiceInv
  <2> QED
    BY <2>2, <2>5 DEF SearchInv
<1>6. CASE ok /\ bundles[next] > bestScore
  <2>1. passed' = passed \union {next} /\ best' = next /\ bestScore' = bundles[next]
    BY <1>6 DEF Simulate, Better
  <2>2. SearchTypes'
    BY <1>1, <1>2, <1>3, <2>1 DEF SearchTypes
  <2>3. \A i \in passed : bundles[i] < bundles[next]
    BY <1>1, <1>3, <1>4, <1>6 DEF ChoiceInv, SearchTypes
  <2>4. \A i \in passed' : i \in DOMAIN bundles /\ i < next + 1
    BY <1>1, <1>2, <1>3, <1>4, <2>1 DEF SearchTypes
  <2>5. \A i \in passed' : bundles[i] <= bundles[next] /\ (i < next => bundles[i] < bundles[next])
    BY <1>1, <1>2, <1>3, <1>4, <2>1, <2>3 DEF SearchTypes
  <2>6. ChoiceInv'
    BY <1>1, <1>2, <2>1, <2>4, <2>5 DEF ChoiceInv
  <2> QED
    BY <2>2, <2>6 DEF SearchInv
<1>7. CASE ok /\ ~(bundles[next] > bestScore)
  <2>1. passed' = passed \union {next} /\ UNCHANGED <<best, bestScore>>
    BY <1>7 DEF Simulate, Better
  <2>2. SearchTypes'
    BY <1>1, <1>2, <2>1 DEF SearchTypes
  <2>3. bundles[next] <= bestScore /\ passed # {}
    BY <1>1, <1>3, <1>7 DEF ChoiceInv, SearchTypes
  <2>4. best \in passed /\ bestScore = bundles[best] /\ best < next
    BY <1>1, <1>4, <2>3 DEF ChoiceInv
  <2>5. \A i \in passed' : i \in DOMAIN bundles /\ i < next + 1
    BY <1>1, <1>2, <1>3, <1>4, <2>1 DEF SearchTypes
  <2>6. \A i \in passed : bundles[i] <= bestScore /\ (i < best => bundles[i] < bestScore)
    BY <1>1 DEF ChoiceInv
  <2>7. ~(next < best)
    BY <1>1, <1>3, <1>4, <2>4 DEF SearchTypes
  <2>8. \A i \in passed' : bundles[i] <= bestScore /\ (i < best => bundles[i] < bestScore)
    BY <2>1, <2>3, <2>6, <2>7
  <2>9. ChoiceInv'
    BY <1>1, <1>2, <2>1, <2>4, <2>5, <2>8 DEF ChoiceInv
  <2> QED
    BY <2>2, <2>9 DEF SearchInv
<1> QED
  BY <1>5, <1>6, <1>7

LEMMA SearchStep ==
    ASSUME SearchInv, [Next]_vars
    PROVE  SearchInv'
<1>1. SearchTypes /\ ChoiceInv
  BY DEF SearchInv
\* Neither the mode nor a local of the search changes.
<1>2. ASSUME UNCHANGED <<mode, searchVars>>,
             \/ pc' = pc
             \/ pc = "idle" /\ pc' = "generate"
             \/ pc = "generate" /\ pc' = "hung"
             \/ pc = "simulate" /\ pc' = "submit" /\ mode = "send"
      PROVE  SearchInv'
  <2>1. UNCHANGED <<mode, bundles, next, best, bestScore, passed>>
    BY <1>2 DEF searchVars
  <2> QED
    BY <1>1, <1>2, <2>1 DEF SearchInv, SearchTypes, ChoiceInv
<1>3. CASE \E B \in SUBSET Offered, others \in 0 .. 1 : Mine(B, others)
  BY <1>2, <1>3 DEF Mine
<1>4. CASE BeginIteration
  <2>1. /\ UNCHANGED <<mode, bundles, next, best, bestScore, passed>>
        /\ pc = "idle" /\ pc' = "generate"
    BY <1>4 DEF BeginIteration
  <2> QED
    BY <1>1, <2>1 DEF SearchInv, SearchTypes, ChoiceInv
<1>5. CASE RequestFails \/ Restart \/ GenerateNone \/ SimulatedOnly \/ EndSubmit
           \/ \E r \in Relays : AnswerLost(r)
  BY <1>5, LeaveStep DEF RequestFails, Restart, GenerateNone, SimulatedOnly, EndSubmit, AnswerLost
<1>6. CASE \E n \in 1 .. NumGenerators : \E scores \in [1 .. n -> 1 .. MaxScore] : Generate(scores)
  BY <1>6, GenerateStep
<1>7. CASE \E ok \in BOOLEAN : Simulate(ok)
  BY <1>7, SimulateStep
<1>8. CASE StartSubmit \/ GeneratorHangs
  BY <1>2, <1>8 DEF StartSubmit, MaySend, GeneratorHangs
<1>9. CASE \/ \E r \in Relays : Sign(r)
           \/ \E r \in Relays, accepted \in BOOLEAN : Post(r, accepted)
  BY <1>2, <1>9 DEF Sign, Post
<1>10. CASE UNCHANGED vars
  BY <1>2, <1>10 DEF vars
<1> QED
  BY <1>3, <1>4, <1>5, <1>6, <1>7, <1>8, <1>9, <1>10 DEF Next, Environment, Search

\* In simulation mode nothing is posted, so nothing is held and nothing included.
LEMMA SimulateOnlyStep ==
    ASSUME IInv, SearchInv, SimulateOnly, [Next]_vars
    PROVE  SimulateOnly'
<1>1. NonceTypes /\ (mode = "simulate" => pc # "submit") /\ Len(blocks) \in Nat
  BY DEF IInv, NonceTypes, SearchInv, ChoiceInv
<1>2. ASSUME UNCHANGED <<blocks, inbox, mode>>
      PROVE  SimulateOnly'
  BY <1>2 DEF SimulateOnly, Height
<1>3. CASE \E B \in SUBSET Offered, others \in 0 .. 1 : Mine(B, others)
  <2> SUFFICES ASSUME mode' = "simulate" PROVE SimulateOnly'
    BY DEF SimulateOnly
  <2>1. PICK B \in SUBSET Offered, others \in 0 .. 1 : Mine(B, others)
    BY <1>3
  <2>2. mode = "simulate"
    BY <2>1 DEF Mine
  <2>3. (\A r \in Relays : inbox[r] = {}) /\ \A h \in 1 .. Height : blocks[h] = {}
    BY <2>2 DEF SimulateOnly
  <2>4. Offered = {}
    BY <2>3 DEF Offered
  <2>5. B = {}
    BY <2>4
  <2>6. \A r \in Relays : inbox'[r] = {}
    BY <2>1, <2>3 DEF Mine
  <2>7. B \in SUBSET SignedBundle
    BY <2>5
  <2>8. /\ Len(blocks') = Len(blocks) + 1
        /\ \A h \in 1 .. Len(blocks) : blocks'[h] = blocks[h]
        /\ blocks'[Len(blocks) + 1] = B
    BY <1>1, <2>1, <2>7, AppendProperties DEF Mine, NonceTypes
  <2>9. \A h \in 1 .. Len(blocks') : blocks'[h] = {}
    BY <1>1, <2>3, <2>5, <2>8 DEF Height
  <2> QED
    BY <2>6, <2>9 DEF SimulateOnly, Height
<1>4. CASE \E r \in Relays : AnswerLost(r)
  BY <1>1, <1>4 DEF AnswerLost, SimulateOnly
<1>5. CASE \E r \in Relays, accepted \in BOOLEAN : Post(r, accepted)
  BY <1>1, <1>5 DEF Post, SimulateOnly
<1>6. CASE \/ BeginIteration \/ RequestFails \/ Restart \/ GenerateNone
           \/ StartSubmit \/ SimulatedOnly \/ EndSubmit \/ GeneratorHangs
           \/ \E n \in 1 .. NumGenerators : \E scores \in [1 .. n -> 1 .. MaxScore] : Generate(scores)
           \/ \E ok \in BOOLEAN : Simulate(ok)
           \/ \E r \in Relays : Sign(r)
  BY <1>2, <1>6 DEF BeginIteration, RequestFails, Restart, GenerateNone, StartSubmit,
     SimulatedOnly, EndSubmit, GeneratorHangs, Generate, Simulate, Sign, chainVars
<1>7. CASE UNCHANGED vars
  BY <1>2, <1>7 DEF vars, chainVars
<1> QED
  BY <1>3, <1>4, <1>5, <1>6, <1>7 DEF Next, Environment, Search

LEMMA SubmissionInvariant == Spec => [](IInv /\ SearchInv /\ SimulateOnly)
  BY NonceInit, NonceStep, SearchInit, SearchStep, SimulateOnlyStep, PTL DEF Spec

-----------------------------------------------------------------------------
\* However submissions, searches, restarts and blocks interleave, no block
\* includes more than one of the executor's bundles.
THEOREM NoBlockTakesTwo == Spec => []OneBundlePerBlock
<1>1. IInv => OneBundlePerBlock
  BY DEF IInv
<1> QED
  BY <1>1, NonceInit, NonceStep, PTL DEF Spec

\* In simulation mode (lib.rs:209) no relay ever holds a bundle and no block includes
\* one, whatever fails or restarts.
THEOREM NothingIsSentInSimulation == Spec => []SimulateOnly
  BY SubmissionInvariant, PTL

\* The bundle that is submitted is the first of the best of those whose simulation
\* passed, if one did (lib.rs:181-207), for any number of generators.
THEOREM BestIsSubmitted == Spec => []BestPassedIsSubmitted
<1>1. SearchInv => BestPassedIsSubmitted
  BY DEF SearchInv, ChoiceInv, BestPassedIsSubmitted
<1> QED
  BY <1>1, SubmissionInvariant, PTL

\* Type correctness of the search, the relays and the chain.
THEOREM SubmissionTypeCorrect == Spec => []TypeOK
<1>1. IInv /\ SearchInv => TypeOK
  <2> SUFFICES ASSUME IInv, SearchInv PROVE TypeOK
    OBVIOUS
  <2>1. passed \subseteq Nat
    BY DEF SearchInv, SearchTypes, ChoiceInv
  <2> QED
    BY <2>1 DEF IInv, NonceTypes, SearchInv, SearchTypes, TypeOK
<1> QED
  BY <1>1, SubmissionInvariant, PTL

-----------------------------------------------------------------------------
\* Before the submission none has begun, and no bundle is simulated beyond the last.
ProgressInv ==
    /\ next <= Len(bundles) + 1
    /\ pc # "submit" => submits = NotSubmitted

Unsent(s)   == {r \in Relays : s[r].step # "done"}
Unsigned(s) == {r \in Relays : s[r].step = "sign"}

\* Left(s): what two submissions have still to do.
Left(s) == Cardinality(Unsent(s)) + Cardinality(Unsigned(s))

LEMMA LeftBounds ==
    ASSUME NEW s
    PROVE  /\ Cardinality(Relays) \in Nat
           /\ Cardinality(Unsent(s)) \in Nat /\ Cardinality(Unsigned(s)) \in Nat
           /\ IsFiniteSet(Unsent(s)) /\ IsFiniteSet(Unsigned(s))
           /\ Left(s) \in 0 .. 2 * Cardinality(Relays)
<1>1. Unsent(s) \in SUBSET Relays /\ Unsigned(s) \in SUBSET Relays /\ IsFiniteSet(Relays)
  BY SubmissionAssumption DEF Unsent, Unsigned
<1>2. /\ IsFiniteSet(Unsent(s)) /\ Cardinality(Unsent(s)) <= Cardinality(Relays)
      /\ IsFiniteSet(Unsigned(s)) /\ Cardinality(Unsigned(s)) <= Cardinality(Relays)
  BY <1>1, FS_Subset
<1>3. /\ Cardinality(Relays) \in Nat
      /\ Cardinality(Unsent(s)) \in Nat /\ Cardinality(Unsigned(s)) \in Nat
  BY <1>1, <1>2, FS_CardinalityType
<1> QED
  BY <1>2, <1>3 DEF Left

\* Signing, and the answer of the relay, each leave one thing less to do.
LEMMA LeftFalls ==
    ASSUME submits \in [Relays -> [step : {"sign", "post", "done"}, nonce : Nat]],
           NEW r \in Relays, NEW after,
           after \in [Relays -> [step : {"sign", "post", "done"}, nonce : Nat]],
           \A q \in Relays \ {r} : after[q] = submits[q],
           \/ submits[r].step = "sign" /\ after[r].step = "post"
           \/ submits[r].step = "post" /\ after[r].step = "done"
    PROVE  Left(after) = Left(submits) - 1
<1>1. CASE submits[r].step = "sign" /\ after[r].step = "post"
  <2>1. Unsent(after) = Unsent(submits) /\ Unsigned(after) = Unsigned(submits) \ {r}
        /\ r \in Unsigned(submits)
    BY <1>1 DEF Unsent, Unsigned
  <2>2. Cardinality(Unsigned(after)) = Cardinality(Unsigned(submits)) - 1
    BY <2>1, LeftBounds, FS_RemoveElement
  <2> QED
    BY <2>1, <2>2, LeftBounds DEF Left
<1>2. CASE submits[r].step = "post" /\ after[r].step = "done"
  <2>1. Unsigned(after) = Unsigned(submits) /\ Unsent(after) = Unsent(submits) \ {r}
        /\ r \in Unsent(submits)
    BY <1>2 DEF Unsent, Unsigned
  <2>2. Cardinality(Unsent(after)) = Cardinality(Unsent(submits)) - 1
    BY <2>1, LeftBounds, FS_RemoveElement
  <2> QED
    BY <2>1, <2>2, LeftBounds DEF Left
<1> QED
  BY <1>1, <1>2

LEMMA LeftAtFirst == Left(NotSubmitted) = 2 * Cardinality(Relays)
<1>1. Unsent(NotSubmitted) = Relays /\ Unsigned(NotSubmitted) = Relays
  BY DEF Unsent, Unsigned, NotSubmitted
<1> QED
  BY <1>1, LeftBounds DEF Left

\* The measure, place by place.
Measure(place, bs, n, s) ==
    CASE place = "generate" -> NumGenerators + 2 * Cardinality(Relays) + 3
      [] place = "simulate" -> (Len(bs) + 1 - n) + 2 * Cardinality(Relays) + 2
      [] place = "submit"   -> Left(s) + 1
      [] OTHER              -> 0

LEMMA StepsLeftIs == /\ StepsLeft = Measure(pc, bundles, next, submits)
                     /\ StepsLeft' = Measure(pc', bundles', next', submits')
<1>1. StepsLeft = Measure(pc, bundles, next, submits)
  BY DEF StepsLeft, Measure, Left, Unsent, Unsigned
<1>2. StepsLeft' = Measure(pc', bundles', next', submits')
  BY DEF StepsLeft, Measure, Left, Unsent, Unsigned
<1> QED
  BY <1>1, <1>2

Advances == Running /\ <<pc, searchVars, submits>>' # <<pc, searchVars, submits>>
                => StepsLeft' \in 0 .. StepsLeft - 1

LEMMA LeaveAdvances ==
    ASSUME IInv, SearchInv, ProgressInv, NEW pcNext \in {"idle", "exited"}, Leave(pcNext)
    PROVE  ProgressInv' /\ Advances
<1>1. pc' = pcNext /\ bundles' = <<>> /\ next' = 1 /\ submits' = NotSubmitted
  BY DEF Leave
<1>2. ProgressInv'
  BY <1>1 DEF ProgressInv
<1>3. StepsLeft' = 0
  BY <1>1, StepsLeftIs DEF Measure
<1>4. Running => StepsLeft \in Nat /\ StepsLeft > 0
  <2>1. /\ Len(bundles) \in Nat /\ next \in Nat /\ next <= Len(bundles) + 1
        /\ NumGenerators \in Nat
    BY SubmissionAssumption DEF SearchInv, SearchTypes, ProgressInv
  <2>2. Cardinality(Relays) \in Nat /\ Left(submits) \in Nat
    BY LeftBounds
  <2>3. CASE pc = "generate"
    <3>1. StepsLeft = NumGenerators + 2 * Cardinality(Relays) + 3
      BY <2>3, StepsLeftIs DEF Measure
    <3> QED
      BY <2>1, <2>2, <3>1
  <2>4. CASE pc = "simulate"
    <3>1. StepsLeft = (Len(bundles) + 1 - next) + 2 * Cardinality(Relays) + 2
      BY <2>4, StepsLeftIs DEF Measure
    <3> QED
      BY <2>1, <2>2, <3>1
  <2>5. CASE pc = "submit"
    <3>1. StepsLeft = Left(submits) + 1
      BY <2>5, StepsLeftIs DEF Measure
    <3> QED
      BY <2>2, <3>1
  <2> QED
    BY <2>3, <2>4, <2>5 DEF Running
<1> QED
  BY <1>2, <1>3, <1>4 DEF Advances

LEMMA AdvanceStep ==
    ASSUME IInv, SearchInv, ProgressInv, [Next]_vars
    PROVE  ProgressInv' /\ Advances
<1>1. /\ Len(bundles) \in Nat /\ next \in Nat /\ next <= Len(bundles) + 1
      /\ NumGenerators \in Nat
      /\ submits \in [Relays -> [step : {"sign", "post", "done"}, nonce : Nat]]
  BY SubmissionAssumption DEF IInv, NonceTypes, SearchInv, SearchTypes, ProgressInv
<1>2. /\ Cardinality(Relays) \in Nat
      /\ Left(submits) \in Nat /\ Left(NotSubmitted) = 2 * Cardinality(Relays)
  BY LeftBounds, LeftAtFirst
<1>3. ASSUME UNCHANGED <<pc, searchVars, submits>> PROVE ProgressInv' /\ Advances
  BY <1>3 DEF ProgressInv, Advances, searchVars
<1>4. CASE \/ \E B \in SUBSET Offered, others \in 0 .. 1 : Mine(B, others)
           \/ UNCHANGED vars
  BY <1>3, <1>4 DEF Mine, vars
<1>5. CASE BeginIteration
  <2>1. pc = "idle" /\ pc' = "generate" /\ UNCHANGED <<bundles, next, submits>>
    BY <1>5 DEF BeginIteration
  <2> QED
    BY <2>1 DEF ProgressInv, Advances, Running
<1>6. CASE \/ GenerateNone \/ SimulatedOnly \/ EndSubmit \/ RequestFails \/ Restart
           \/ \E r \in Relays : AnswerLost(r)
  <2>1. Leave("idle") \/ Leave("exited")
    BY <1>6 DEF GenerateNone, SimulatedOnly, EndSubmit, RequestFails, Restart, AnswerLost
  <2> QED
    BY <2>1, LeaveAdvances
<1>7. ASSUME NEW n \in 1 .. NumGenerators, NEW scores \in [1 .. n -> 1 .. MaxScore], Generate(scores)
      PROVE  ProgressInv' /\ Advances
  <2>1. /\ pc = "generate" /\ pc' = "simulate" /\ bundles' = scores
        /\ next' = next /\ submits' = submits
    BY <1>7 DEF Generate
  <2>2. next = 1 /\ submits = NotSubmitted
    BY <2>1 DEF SearchInv, ChoiceInv, ProgressInv
  <2>3. Len(scores) = n /\ n \in Nat /\ n >= 1 /\ n <= NumGenerators
    BY <1>1
  <2>4. ProgressInv'
    BY <2>1, <2>2, <2>3 DEF ProgressInv
  <2>5. /\ StepsLeft = NumGenerators + 2 * Cardinality(Relays) + 3
        /\ StepsLeft' = (n + 1 - 1) + 2 * Cardinality(Relays) + 2
    BY <2>1, <2>2, <2>3, StepsLeftIs DEF Measure
  <2>6. StepsLeft' \in 0 .. StepsLeft - 1
    <3> DEFINE c == 2 * Cardinality(Relays)
    <3>1. c \in Nat /\ n \in Nat /\ n >= 1 /\ n <= NumGenerators /\ NumGenerators \in Nat
      BY <1>1, <1>2, <2>3
    <3>2. StepsLeft = NumGenerators + c + 3 /\ StepsLeft' = (n + 1 - 1) + c + 2
      BY <2>5
    <3> HIDE DEF c
    <3> QED
      BY <3>1, <3>2
  <2> QED
    BY <2>4, <2>6 DEF Advances
<1>8. ASSUME NEW ok \in BOOLEAN, Simulate(ok)
      PROVE  ProgressInv' /\ Advances
  <2>1. /\ pc = "simulate" /\ next <= Len(bundles) /\ next' = next + 1
        /\ UNCHANGED <<pc, bundles, submits>>
    BY <1>8 DEF Simulate
  <2>2. ProgressInv'
    BY <1>1, <2>1 DEF ProgressInv
  <2>3. /\ StepsLeft = (Len(bundles) + 1 - next) + 2 * Cardinality(Relays) + 2
        /\ StepsLeft' = (Len(bundles) + 1 - (next + 1)) + 2 * Cardinality(Relays) + 2
    BY <2>1, StepsLeftIs DEF Measure
  <2> QED
    BY <1>1, <1>2, <2>1, <2>2, <2>3 DEF Advances
<1>9. CASE StartSubmit
  <2>1. /\ pc = "simulate" /\ next > Len(bundles) /\ pc' = "submit"
        /\ UNCHANGED <<bundles, next, submits>>
    BY <1>9 DEF StartSubmit, searchVars
  <2>2. ProgressInv' /\ submits = NotSubmitted
    BY <2>1 DEF ProgressInv
  <2>3. /\ StepsLeft = (Len(bundles) + 1 - next) + 2 * Cardinality(Relays) + 2
        /\ StepsLeft' = 2 * Cardinality(Relays) + 1
    BY <1>2, <2>1, <2>2, StepsLeftIs DEF Measure
  <2> QED
    BY <1>1, <1>2, <2>1, <2>2, <2>3 DEF Advances
<1>10. ASSUME NEW r \in Relays,
              Sign(r) \/ \E accepted \in BOOLEAN : Post(r, accepted)
       PROVE  ProgressInv' /\ Advances
  <2>1. /\ pc = "submit" /\ UNCHANGED <<pc, bundles, next>>
        /\ \A q \in Relays \ {r} : submits'[q] = submits[q]
        /\ \/ submits[r].step = "sign" /\ submits'[r].step = "post"
           \/ submits[r].step = "post" /\ submits'[r].step = "done"
    BY <1>1, <1>10 DEF Sign, Post, searchVars
  <2>2. submits' \in [Relays -> [step : {"sign", "post", "done"}, nonce : Nat]]
    BY NonceStep DEF IInv, NonceTypes
  <2>3. Left(submits') = Left(submits) - 1 /\ Left(submits') \in Nat
    <3>1. Left(submits') = Left(submits) - 1
      BY <1>1, <2>1, <2>2, LeftFalls
    <3> QED
      BY <3>1, LeftBounds
  <2>4. StepsLeft = Left(submits) + 1 /\ StepsLeft' = Left(submits') + 1
    BY <2>1, StepsLeftIs DEF Measure
  <2>5. ProgressInv'
    BY <1>1, <2>1 DEF ProgressInv
  <2> QED
    BY <1>2, <2>3, <2>4, <2>5 DEF Advances
<1>11. CASE GeneratorHangs
  <2>1. pc = "generate" /\ pc' = "hung" /\ UNCHANGED <<bundles, next, submits>>
    BY <1>11 DEF GeneratorHangs, searchVars
  <2>2. ProgressInv'
    BY <2>1 DEF ProgressInv
  <2>3. StepsLeft = NumGenerators + 2 * Cardinality(Relays) + 3 /\ StepsLeft' = 0
    BY <2>1, StepsLeftIs DEF Measure
  <2> QED
    BY <1>1, <1>2, <2>2, <2>3 DEF Advances
<1> QED
  BY <1>4, <1>5, <1>6, <1>7, <1>8, <1>9, <1>10, <1>11 DEF Next, Environment, Search

\* No step of a search is made twice (lib.rs:184-245): with every answer the number of
\* steps left falls, for any relays and generators and whatever fails meanwhile.
THEOREM SearchesAdvance == Spec => SearchAdvances
<1>1. Init => ProgressInv
  BY DEF Init, ProgressInv
<1>2. IInv /\ SearchInv /\ ProgressInv /\ [Next]_vars => ProgressInv' /\ [Advances]_vars
  BY AdvanceStep
<1> QED
  BY <1>1, <1>2, SubmissionInvariant, PTL DEF Spec, SearchAdvances, Advances
=============================================================================
